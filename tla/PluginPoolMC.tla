----------------------------- MODULE PluginPoolMC -----------------------------
(***************************************************************************)
(* A plugin "p" that also declares a provider "b" of the host, loaded when *)
(* a request first needs it.  One request needs b and p; the other needs p *)
(* and a plugin "q" that is not on the allowlist, so that an error makes   *)
(* it release p.                                                           *)
(***************************************************************************)
EXTENDS PluginPool

MCName     == {"p", "q", "b"}
MCDeclares == [n \in MCName |-> IF n = "p" THEN <<"p", "b">> ELSE <<n>>]
MCWants    == [c \in {"c1", "c2"} |-> IF c = "c1" THEN <<"b", "p">> ELSE <<"p", "q">>]
MCRequests == [c \in {"c1", "c2"} |-> IF c = "c1" THEN 1 ELSE 2]
Once       == [c \in {"c1", "c2"} |-> 1]
=============================================================================
