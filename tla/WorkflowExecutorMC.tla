------------------------- MODULE WorkflowExecutorMC -------------------------
(***************************************************************************)
(* A workflow of four main and two finally actions, executed in the order  *)
(* that ActionGraph computes for it.                                       *)
(*                                                                         *)
(*   main      2 excludes 1, 3 is independent, 4 depends on 1              *)
(*   finally   6 depends on 5, and refers to 4                             *)
(*                                                                         *)
(* A failure of 1 may be continued, one of 3 if its status code says so; 3 *)
(* is tried twice.                                                         *)
(***************************************************************************)
EXTENDS WorkflowRun

MCWorkflow ==
  [main    |-> [bases     |-> {1, 2, 3, 4},
                expansion |-> [b \in 1..6 |-> {b}],
                refs      |-> [b \in 1..4 |-> IF b = 4 THEN {1} ELSE {}],
                exclusive |-> [b \in 1..4 |-> IF b = 2 THEN {1} ELSE {}]],
   finally |-> [bases     |-> {5, 6},
                expansion |-> [b \in 1..6 |-> {b}],
                refs      |-> [b \in 5..6 |-> IF b = 6 THEN {4, 5} ELSE {1}],
                exclusive |-> [b \in 5..6 |-> {}]]]

MCAction == 1..6
MCOrder  == [main |-> << {1, 3}, {2}, {4} >>, finally |-> << {5}, {6} >>]
MCDeps   == [a \in MCAction |-> CASE a = 4 -> {1} [] a = 6 -> {5} [] OTHER -> {}]
MCMaxAttempts == [a \in MCAction |-> IF a = 3 THEN 2 ELSE 1]

MCContinueOn ==
  [a \in MCAction |-> CASE a = 1 -> ErrorKind [] a = 3 -> {"typed"} [] OTHER -> {}]

-----------------------------------------------------------------------------
(* What documents and comments say and the executor does not do. *)

\* docs/design/actions.md: finally actions "Always execute regardless of
\* cancellation".
FinallyNeverCancelled ==
  final # "none" => \A a \in ActionsOf("finally") : status[a] # "cancelled"

\* executePhases: the re-check of continueOnError "matches the decision
\* executeAction already made".  A section then stops after a phase only on account
\* of an action whose own goroutine returned an error.
RecheckAgrees ==
  [][stage = "wait" /\ stage' = "end" => \E a \in errs : a \notin Continues]_vars
=============================================================================
