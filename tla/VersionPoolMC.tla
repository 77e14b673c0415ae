----------------------------- MODULE VersionPoolMC -----------------------------
(***************************************************************************)
(* One plugin, of which the pool may hold two versions: version 2 is        *)
(* loaded at start-up, the catalog has versions 1 and 3.  One caller wants  *)
(* version 1, twice; the other the latest version and then a range.         *)
(***************************************************************************)
EXTENDS VersionPool

MCVersion == {1, 2, 3}
Published == [p \in Plugin |-> {1, 3}]
Dep(how, versions) == [plugin |-> CHOOSE p \in Plugin : TRUE, by |-> how, accepts |-> versions]

MCPreloaded == <<<<CHOOSE p \in Plugin : TRUE, 2>>>>

MCWants == [c \in {"c1", "c2"} |->
  IF c = "c1" THEN <<Dep("version", {1})>>
  ELSE <<Dep("latest", {1, 2, 3}), Dep("constraint", {2, 3})>>]

MCRequests == [c \in {"c1", "c2"} |-> IF c = "c1" THEN 2 ELSE 1]
=============================================================================
