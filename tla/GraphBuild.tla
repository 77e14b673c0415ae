----------------------------- MODULE GraphBuild -----------------------------
(***************************************************************************)
(* BuildGraph of pkg/action/graph.go on one section of a workflow: a step   *)
(* computes the graph, and the properties compare it with what its          *)
(* consumers assume of it.                                                  *)
(***************************************************************************)
EXTENDS ActionGraph

CONSTANT Sections  \* the sections a workflow may have

ASSUME SectionsAssumption == \A w \in Sections : WellFormed(w)

VARIABLES
  section,     \* the section as written
  graph        \* what BuildGraph made of it
vars == <<section, graph>>

NoGraph == [built |-> FALSE]

Init == section \in Sections /\ graph = NoGraph

Build ==
  /\ ~graph.built
  /\ LET deps == Dependencies(section)
         excl == ExpandedExclusive(section)
         phases == ExecutionPhases(deps)
     IN graph' = [built  |-> TRUE,
                  deps   |-> deps,
                  exclusive |-> excl,
                  rejected  |-> CycleDetected(deps),
                  phases |-> phases,
                  order  |-> SplitPhases(phases, excl)]
  /\ UNCHANGED section

Done == graph.built /\ UNCHANGED vars

Next == Build \/ Done
Spec == Init /\ [][Next]_vars

Accepted == graph.built /\ ~graph.rejected

-----------------------------------------------------------------------------

\* The graph is rejected exactly when some actions wait for each other in a
\* circle: "cycle detected in action dependencies".
RejectsExactlyCycles ==
  graph.built =>
    (graph.rejected <=>
       \E S \in (SUBSET Names(section)) \ {{}} : \A n \in S : graph.deps[n] \cap S # {})

\* The phases of an accepted graph are the layers of its longest dependency
\* chains: every action is in one phase, after all it depends on and as early
\* as that allows.
PhasesAreLayers ==
  Accepted =>
    /\ UNION {graph.phases[i] : i \in DOMAIN graph.phases} = Names(section)
    /\ \A i \in DOMAIN graph.phases : \A n \in graph.phases[i] :
         /\ \A j \in DOMAIN graph.phases : n \in graph.phases[j] => j = i
         /\ graph.deps[n] \subseteq Earlier(graph.phases, i)
         /\ i > 1 => graph.deps[n] \cap graph.phases[i - 1] # {}

\* After the split no sub-phase holds two actions one of which excludes the
\* other, and every dependency still lies in an earlier sub-phase.
SplitSeparatesExclusive ==
  Accepted =>
    \A i \in DOMAIN graph.order : \A n \in graph.order[i] :
      /\ \A m \in graph.order[i] \ {n} : m \notin graph.exclusive[n]
      /\ graph.deps[n] \subseteq Earlier(graph.order, i)

\* The split loses and repeats no action, makes no empty sub-phase, and never
\* cuts a phase into more sub-phases than the conflicts of one of its actions
\* account for.
SplitIsTight ==
  Accepted =>
    /\ \A n \in Names(section) :
         Cardinality({i \in DOMAIN graph.order : n \in graph.order[i]}) = 1
    /\ {} \notin {graph.order[i] : i \in DOMAIN graph.order}
    /\ \A p \in DOMAIN graph.phases : \E n \in graph.phases[p] :
         Cardinality({i \in DOMAIN graph.order : graph.order[i] \subseteq graph.phases[p]})
           <= 1 + Cardinality({m \in graph.phases[p] \ {n} :
                                 m \in graph.exclusive[n] \/ n \in graph.exclusive[m]})

\* An action that refers to a forEach action waits for all its iterations, and
\* iterations never wait for each other; the other section orders nothing.
IterationsShareDependencies ==
  graph.built =>
    \A b \in section.bases : \A n \in section.expansion[b] :
      /\ \A r \in section.refs[b] \cap section.bases : section.expansion[r] \subseteq graph.deps[n]
      /\ \A m \in section.expansion[b] : graph.deps[m] = graph.deps[n] /\ m \notin graph.deps[n]
      /\ \A r \in section.refs[b] \ section.bases : section.expansion[r] \cap graph.deps[n] = {}
=============================================================================
