------------------------------ MODULE RunStateMC ------------------------------
(***************************************************************************)
(* Three runs, two at the same time, over two documents and the ways a      *)
(* state block may use them.                                                *)
(***************************************************************************)
EXTENDS RunState, TLC

Full(place, checkpoint) ==
  [place |-> place, format |-> "full", checkpoint |-> checkpoint, conditional |-> FALSE]
Lean(place) ==
  [place |-> place, format |-> "intent", checkpoint |-> FALSE, conditional |-> FALSE]
Maybe(t) == [t EXCEPT !.conditional = TRUE]

State(load, save) == [load |-> load, save |-> save, allow |-> FALSE]

\* The loaded document alone, with a checkpoint, or without one and with an
\* enabled condition; after a full copy; in the lean format after a full copy, with
\* --allow-missing-locks; no document to load.
MCConfig ==
  { State("main", <<Full("main", TRUE)>>),
    State("main", <<Maybe(Full("main", FALSE))>>),
    State("main", <<Full("copy", FALSE), Full("main", FALSE)>>),
    [State("main", <<Full("copy", FALSE), Lean("main")>>) EXCEPT !.allow = TRUE],
    State(None, <<Full("copy", FALSE)>>) }

\* No document, or a lean one; what holds a lock is left by a first run.
Absent == [p \in Place |-> None]
Old == CHOOSE x \in Param \ Given : TRUE
Replay == [Absent EXCEPT !["main"] = [param |-> Old, created |-> FALSE, entry |-> None]]
MCFound == {Absent, Replay}

\* Under these conditions locks are kept in every document.
ASSUME LocksCanBeKept ==
  \A c \in MCConfig : SavesWhatItLoads(c) /\ \A f \in MCFound : LocksAgree(f, c)

Symmetric == Permutations(Run) \cup Permutations(Value)
===============================================================================
