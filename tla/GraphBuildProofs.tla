--------------------------- MODULE GraphBuildProofs ---------------------------
(***************************************************************************)
(* What BuildGraph promises, for sections of any number of actions: the     *)
(* properties of GraphBuild, from what ActionGraphProofs says of Kahn's     *)
(* rounds and of the split.                                                 *)
(***************************************************************************)
EXTENDS GraphBuild, ActionGraphProofs

-----------------------------------------------------------------------------
(* The state. *)

\* What BuildGraph makes of a section.
Graph(w) ==
  LET deps == Dependencies(w)
      excl == ExpandedExclusive(w)
      phases == ExecutionPhases(deps)
  IN [built  |-> TRUE,
      deps   |-> deps,
      exclusive |-> excl,
      rejected  |-> CycleDetected(deps),
      phases |-> phases,
      order  |-> SplitPhases(phases, excl)]

\* A graph is always the graph of its section.
GraphInv == /\ section \in Sections
            /\ graph = NoGraph \/ graph = Graph(section)

\* The graph, once it is built, is what the operators make of the section.
LEMMA BuiltFromSection == Spec => []GraphInv
<1>1. Init => GraphInv
  BY DEF Init, GraphInv
<1>2. GraphInv /\ [Next]_vars => GraphInv'
  <2>. SUFFICES ASSUME GraphInv, [Next]_vars
                PROVE  GraphInv'
    OBVIOUS
  <2>1. CASE Build
    <3>1. graph' = Graph(section) /\ section' = section
      BY <2>1, Zenon DEF Build, Graph
    <3>. QED  BY <3>1 DEF GraphInv
  <2>2. CASE UNCHANGED vars
    BY <2>2 DEF GraphInv, vars
  <2>. QED  BY <2>1, <2>2 DEF Next, Done
<1>. QED  BY <1>1, <1>2, PTL DEF Spec

\* The parts of the graph that a section has once it is built.
LEMMA GraphParts ==
  ASSUME GraphInv, graph.built
  PROVE  LET deps == Dependencies(section)
             excl == ExpandedExclusive(section)
         IN /\ WellFormed(section)
            /\ graph.deps = deps /\ graph.exclusive = excl
            /\ graph.rejected = CycleDetected(deps)
            /\ graph.phases = ExecutionPhases(deps)
            /\ graph.order = SplitPhases(ExecutionPhases(deps), excl)
            /\ DOMAIN deps = Names(section) /\ Names(section) \subseteq Nat
            /\ IsGraph(deps)
<1>1. WellFormed(section)
  BY SectionsAssumption DEF GraphInv
<1>2. graph = Graph(section)
  BY DEF GraphInv, NoGraph
<1>. QED  BY <1>1, <1>2, SectionGraph DEF Graph

-----------------------------------------------------------------------------
(* The properties. *)

\* BuildGraph rejects a section exactly when some of its actions wait for each
\* other in a circle.
THEOREM CyclesRejected == Spec => []RejectsExactlyCycles
<1>1. GraphInv => RejectsExactlyCycles
  <2>. SUFFICES ASSUME GraphInv, graph.built
                PROVE  graph.rejected <=>
                         \E S \in (SUBSET Names(section)) \ {{}} :
                           \A n \in S : graph.deps[n] \cap S # {}
    BY DEF RejectsExactlyCycles
  <2>. DEFINE deps == Dependencies(section)
  <2>1. /\ graph.deps = deps /\ graph.rejected = CycleDetected(deps)
        /\ DOMAIN deps = Names(section) /\ IsGraph(deps)
    BY GraphParts
  <2>. HIDE DEF deps
  <2>2. CycleDetected(deps) <=>
          \E S \in (SUBSET DOMAIN deps) \ {{}} : \A n \in S : deps[n] \cap S # {}
    BY <2>1, RejectedAreCyclic
  <2>. QED  BY <2>1, <2>2, Zenon
<1>. QED  BY <1>1, BuiltFromSection, PTL

\* computeExecutionPhases puts every action after all it depends on, and as early
\* as that allows.
THEOREM PhasesLayered == Spec => []PhasesAreLayers
<1>1. GraphInv => PhasesAreLayers
  <2>. SUFFICES ASSUME GraphInv, Accepted
                PROVE  PhasesAreLayers
    BY DEF PhasesAreLayers
  <2>. DEFINE deps == Dependencies(section)
              ph == ExecutionPhases(deps)
  <2>1. /\ graph.deps = deps /\ ~CycleDetected(deps) /\ graph.phases = ph
        /\ DOMAIN deps = Names(section) /\ IsGraph(deps)
    BY GraphParts DEF Accepted
  <2>. HIDE DEF deps
  <2>2. Layers(ph, deps) /\ UNION {ph[i] : i \in DOMAIN ph} = DOMAIN deps
    BY <2>1, KahnPhases
  <2>. HIDE DEF ph
  <2>3. UNION {graph.phases[i] : i \in DOMAIN graph.phases} = Names(section)
    BY <2>1, <2>2, Zenon
  <2>. QED  BY <2>1, <2>2, <2>3 DEF PhasesAreLayers, Layers
<1>. QED  BY <1>1, BuiltFromSection, PTL

\* After the split no two actions of a sub-phase exclude each other, and
\* dependencies still lie in earlier ones.
THEOREM SplitSeparates == Spec => []SplitSeparatesExclusive
<1>1. GraphInv => SplitSeparatesExclusive
  <2>. SUFFICES ASSUME GraphInv, Accepted
                PROVE  SplitSeparatesExclusive
    BY DEF SplitSeparatesExclusive
  <2>. DEFINE deps == Dependencies(section)
              excl == ExpandedExclusive(section)
              order == SplitPhases(ExecutionPhases(deps), excl)
  <2>1. /\ graph.deps = deps /\ graph.exclusive = excl /\ graph.order = order
        /\ IsGraph(deps) /\ DOMAIN deps \subseteq Nat
    BY GraphParts DEF Accepted
  <2>. HIDE DEF deps, excl
  <2>2. \A i \in DOMAIN order : \A n \in order[i] :
          /\ \A m \in order[i] \ {n} : m \notin excl[n]
          /\ deps[n] \subseteq Earlier(order, i)
    BY <2>1, OrderSeparates
  <2>. HIDE DEF order
  <2>. QED  BY <2>1, <2>2 DEF SplitSeparatesExclusive
<1>. QED  BY <1>1, BuiltFromSection, PTL

\* The split keeps every action once and makes no more sub-phases than the
\* conflicts of one action call for.
THEOREM SplitComplete == Spec => []SplitIsTight
<1>1. GraphInv => SplitIsTight
  <2>. SUFFICES ASSUME GraphInv, Accepted
                PROVE  SplitIsTight
    BY DEF SplitIsTight
  <2>. DEFINE deps == Dependencies(section)
              excl == ExpandedExclusive(section)
              ph == ExecutionPhases(deps)
              order == SplitPhases(ph, excl)
  <2>1. /\ graph.exclusive = excl /\ graph.order = order /\ graph.phases = ph
        /\ ~CycleDetected(deps) /\ DOMAIN deps = Names(section)
        /\ IsGraph(deps) /\ DOMAIN deps \subseteq Nat
    BY GraphParts DEF Accepted
  <2>. HIDE DEF deps, excl
  <2>2. /\ {} \notin {order[i] : i \in DOMAIN order}
        /\ \A n \in DOMAIN deps : Cardinality({i \in DOMAIN order : n \in order[i]}) = 1
    BY <2>1, OrderComplete
  <2>3. \A p \in DOMAIN ph : \E n \in ph[p] :
          Cardinality({i \in DOMAIN order : order[i] \subseteq ph[p]})
            <= 1 + Cardinality({m \in ph[p] \ {n} : m \in excl[n] \/ n \in excl[m]})
    BY <2>1, OrderTight
  <2>. HIDE DEF order, ph
  <2>4. {} \notin {graph.order[i] : i \in DOMAIN graph.order}
    BY <2>1, <2>2, Zenon
  <2>5. \A n \in Names(section) :
          Cardinality({i \in DOMAIN graph.order : n \in graph.order[i]}) = 1
    BY <2>1, <2>2, Zenon
  <2>6. \A p \in DOMAIN graph.phases : \E n \in graph.phases[p] :
          Cardinality({i \in DOMAIN graph.order : graph.order[i] \subseteq graph.phases[p]})
            <= 1 + Cardinality({m \in graph.phases[p] \ {n} :
                                  m \in graph.exclusive[n] \/ n \in graph.exclusive[m]})
    <3>. DEFINE Tight(o, q, x) ==
                  \A p \in DOMAIN q : \E n \in q[p] :
                    Cardinality({i \in DOMAIN o : o[i] \subseteq q[p]})
                      <= 1 + Cardinality({m \in q[p] \ {n} : m \in x[n] \/ n \in x[m]})
    <3>1. Tight(order, ph, excl)
      BY <2>3, Zenon
    <3>. HIDE DEF Tight
    <3>2. Tight(graph.order, graph.phases, graph.exclusive)
      BY <2>1, <3>1, Zenon
    <3>. QED  BY <3>2, Zenon DEF Tight
  <2>. QED  BY <2>4, <2>5, <2>6, Zenon DEF SplitIsTight
<1>. QED  BY <1>1, BuiltFromSection, PTL

\* References to a forEach action mean all its iterations, which never wait for
\* each other.
THEOREM IterationsShare == Spec => []IterationsShareDependencies
<1>1. GraphInv => IterationsShareDependencies
  <2>. SUFFICES ASSUME GraphInv, graph.built,
                       NEW b \in section.bases, NEW n \in section.expansion[b]
                PROVE  /\ \A r \in section.refs[b] \cap section.bases :
                            section.expansion[r] \subseteq graph.deps[n]
                       /\ \A m \in section.expansion[b] :
                            graph.deps[m] = graph.deps[n] /\ m \notin graph.deps[n]
                       /\ \A r \in section.refs[b] \ section.bases :
                            section.expansion[r] \cap graph.deps[n] = {}
    BY DEF IterationsShareDependencies
  <2>1. graph.deps = Dependencies(section) /\ WellFormed(section)
    BY GraphParts
  <2>2. \A m \in section.expansion[b] :
          Dependencies(section)[m]
            = Names(section) \cap UNION {section.expansion[r] : r \in section.refs[b]}
    BY <2>1, DependenciesShared
  <2>3. /\ \A r \in section.refs[b] \cap section.bases :
             section.expansion[r] \subseteq Dependencies(section)[n]
        /\ \A m \in section.expansion[b] : m \notin Dependencies(section)[n]
        /\ \A r \in section.refs[b] \ section.bases :
             section.expansion[r] \cap Dependencies(section)[n] = {}
    BY <2>1, DependenciesShared
  <2>4. \A m \in section.expansion[b] :
          graph.deps[m] = graph.deps[n] /\ m \notin graph.deps[n]
    <3>. DEFINE D == Dependencies(section)
                U == Names(section) \cap UNION {section.expansion[r] : r \in section.refs[b]}
    <3>1. D[n] = U /\ \A m \in section.expansion[b] : D[m] = U
      BY <2>2, Zenon
    <3>. HIDE DEF U
    <3>. QED  BY <2>1, <2>3, <3>1
  <2>. QED  BY <2>1, <2>3, <2>4, Zenon
<1>. QED  BY <1>1, BuiltFromSection, PTL
=============================================================================
