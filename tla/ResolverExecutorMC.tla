-------------------------- MODULE ResolverExecutorMC --------------------------
(***************************************************************************)
(* Resolvers a, b and d, and c that depends on a and d.  The deferred rules *)
(* of b and c refer to each other's resolver, a's to b.  The name of a is   *)
(* also a parameter's, and c may be mocked or seeded.                       *)
(***************************************************************************)
EXTENDS ResolverExecutor

MCResolver == {"a", "b", "c", "d"}
MCDeps == [r \in MCResolver |-> IF r = "c" THEN {"a", "d"} ELSE {}]
MCRefs == [r \in MCResolver |-> CASE r \in {"a", "c"} -> {"b"} [] r = "b" -> {"c"} [] OTHER -> {}]
Plain == [r \in MCResolver |-> "none"]
MCGiven == {Plain} \cup {[Plain EXCEPT !["c"] = g] : g \in {"mocked", "seeded failed"}}
===============================================================================
