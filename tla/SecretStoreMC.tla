----------------------------- MODULE SecretStoreMC -----------------------------
(***************************************************************************)
(* Two secrets, two values and two processes, of which one deletes orphans *)
(* and the other does not.  Names and values are interchangeable.          *)
(***************************************************************************)
EXTENDS SecretStore, TLC

Symmetry == Permutations(Name) \cup Permutations(Value)
=============================================================================
