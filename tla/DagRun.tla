------------------------------- MODULE DagRun -------------------------------
(***************************************************************************)
(* What a workflow run promises, without phases, goroutines or contexts:   *)
(* an action becomes active only when each of its dependencies is over and *)
(* did not fail; cleanup actions become active only when no other action   *)
(* is; an action that ran is never run again; the run reports once, when   *)
(* nothing is active.                                                      *)
(***************************************************************************)
EXTENDS Naturals

CONSTANTS
  Action,   \* the actions of the run
  Cleanup,  \* those of the finally section
  Deps      \* the actions each of them waits for

VARIABLES
  state,    \* of each action
  reported  \* the run has its final status
vars == <<state, reported>>

\* An action that is over lets its dependents run (passing) or not (blocking).
State == {"waiting", "active", "passing", "blocking"}
Over  == {"passing", "blocking"}

Init == state = [a \in Action |-> "waiting"] /\ reported = FALSE

Start(a) ==
  /\ ~reported
  /\ state[a] = "waiting"
  /\ \A d \in Deps[a] : state[d] = "passing"
  /\ IF a \in Cleanup THEN \A b \in Action \ Cleanup : state[b] # "active"
                      ELSE \A b \in Cleanup : state[b] = "waiting"
  /\ state' = [state EXCEPT ![a] = "active"]
  /\ UNCHANGED reported

Finish(a) ==
  /\ state[a] = "active"
  /\ \E o \in Over : state' = [state EXCEPT ![a] = o]
  /\ UNCHANGED reported

\* Actions that will not run: skipped ones pass, cancelled ones block.
Drop(S) ==
  /\ ~reported
  /\ \A a \in S : state[a] = "waiting"
  /\ \E o \in Over : state' = [a \in Action |-> IF a \in S THEN o ELSE state[a]]
  /\ UNCHANGED reported

Report ==
  /\ ~reported
  /\ \A a \in Action : state[a] # "active"
  /\ reported' = TRUE
  /\ UNCHANGED state

Next ==
  \/ \E a \in Action : Start(a) \/ Finish(a)
  \/ \E S \in SUBSET Action : Drop(S)
  \/ Report

\* A started action comes to an end, and so does the run.
Fairness == WF_vars(Report) /\ \A a \in Action : WF_vars(Finish(a))

Spec == Init /\ [][Next]_vars /\ Fairness
=============================================================================
