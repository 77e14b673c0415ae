--------------------------- MODULE ActionGraphMC ---------------------------
(***************************************************************************)
(* Every section of three actions, the first of which may be a forEach     *)
(* over zero, one or two items: all references and all exclusions.         *)
(***************************************************************************)
EXTENDS GraphBuild

Base == {10, 20, 30}   \* the actions of the section
Looped == 10           \* the action that has a forEach clause
Outside == 40          \* an action of the other section, to which all refer
Iterations == {{}, {11}, {11, 12}}  \* the iterations it may expand to

MCSections ==
  [bases     : {Base},
   expansion : {[b \in Base \cup {Outside} |-> IF b = Looped THEN it ELSE {b}] :
                  it \in Iterations},
   refs      : {[b \in Base |-> r[b] \cup {Outside}] :
                  r \in {f \in [Base -> SUBSET Base] : \A b \in Base : b \notin f[b]}},
   exclusive : {x \in [Base -> SUBSET Base] :
                  \A b \in Base \ {Looped} : b \notin x[b]}]
=============================================================================
