----------------------------- MODULE ActionGraph -----------------------------
(***************************************************************************)
(* The graph computations of pkg/action/graph.go as operators: expansion   *)
(* of forEach references into dependencies and exclusions, phases by       *)
(* Kahn's algorithm, and the split of a phase into sub-phases in which no  *)
(* two exclusive actions meet.                                             *)
(*                                                                         *)
(* A section w of a workflow is a record:                                  *)
(*   bases      the actions written in the section                         *)
(*   expansion  base -> names of its expanded actions: itself, or one per  *)
(*              item of forEach (none for an empty array); it also knows   *)
(*              the actions of the other section                           *)
(*   refs       base -> actions it names in dependsOn and __actions        *)
(*   exclusive  base -> actions it names in exclusive                      *)
(* Names are naturals, whose order is the sort order of the strings.       *)
(***************************************************************************)
EXTENDS Naturals, Sequences, FiniteSets, SequencesExt

Names(w) == UNION {w.expansion[b] : b \in w.bases}

BaseOf(w, n) == CHOOSE b \in w.bases : n \in w.expansion[b]

\* Names are unique over both sections, and no action refers to itself.  That an
\* action may not exclude itself either is for validation to say; BuildGraph is also
\* called without it, and takes such an exclusion to be between iterations.
WellFormed(w) ==
  /\ IsFiniteSet(w.bases) /\ w.bases \subseteq DOMAIN w.expansion
  /\ \A b \in w.bases : IsFiniteSet(w.expansion[b]) /\ w.expansion[b] \subseteq Nat
  /\ \A b, c \in DOMAIN w.expansion : b # c => w.expansion[b] \cap w.expansion[c] = {}
  /\ \A b \in w.bases : /\ w.refs[b] \subseteq DOMAIN w.expansion \ {b}
                        /\ w.exclusive[b] \subseteq w.bases

\* Faulty variant: references to a forEach action are not rewritten.
UnexpandedDependencies(w) ==
  [n \in Names(w) |-> Names(w) \cap w.refs[BaseOf(w, n)]]

\* References to a forEach action mean all its iterations; those outside the
\* section do not schedule anything.
Dependencies(w) ==
  [n \in Names(w) |->
     Names(w) \cap UNION {w.expansion[r] : r \in w.refs[BaseOf(w, n)]}]

ExpandedExclusive(w) ==
  [n \in Names(w) |-> UNION {w.expansion[x] : x \in w.exclusive[BaseOf(w, n)]}]

-----------------------------------------------------------------------------
(* computeExecutionPhases: deps is a function on the actions of a section. *)

\* Faulty variant: one open dependency is overlooked.
ReadyTooEarly(inDegree) == {n \in DOMAIN inDegree : inDegree[n] <= 1}

Ready(inDegree) == {n \in DOMAIN inDegree : inDegree[n] = 0}

\* Faulty variant: a phase takes one dependency off each dependent, however
\* many of its actions the dependent waits for.
CountDownOnce(inDegree, phase, deps) ==
  [n \in DOMAIN inDegree \ phase |->
     IF deps[n] \cap phase = {} THEN inDegree[n] ELSE inDegree[n] - 1]

\* Remove a phase and count down the in-degrees of its dependents.
RemovePhase(inDegree, phase, deps) ==
  [n \in DOMAIN inDegree \ phase |->
     inDegree[n] - Cardinality(deps[n] \cap phase)]

FirstRound(deps) ==
  [inDegree |-> [a \in DOMAIN deps |-> Cardinality(deps[a])], phases |-> <<>>]

NextRound(before, deps) ==
  LET phase == Ready(before.inDegree)
  IN IF phase = {} THEN before
     ELSE [inDegree |-> RemovePhase(before.inDegree, phase, deps),
           phases   |-> Append(before.phases, phase)]

KahnRounds(deps) ==
  LET round[i \in 0..Cardinality(DOMAIN deps)] ==
        IF i = 0 THEN FirstRound(deps) ELSE NextRound(round[i - 1], deps)
  IN round[Cardinality(DOMAIN deps)]

\* No action is ready and some remain: the graph is rejected.
CycleDetected(deps) == DOMAIN KahnRounds(deps).inDegree # {}

ExecutionPhases(deps) == KahnRounds(deps).phases

-----------------------------------------------------------------------------
(* splitPhaseForExclusive *)

\* Faulty variant: an exclusion counts only on the side that declares it.
OneSidedConflicts(n, phase, exclusive) == {m \in phase : m \in exclusive[n]}

\* Declaring an exclusion on one side is enough.
ConflictsOf(n, phase, exclusive) ==
  {m \in phase : m \in exclusive[n] \/ n \in exclusive[m]}

\* Greedy colouring in the sort order: the least colour no coloured neighbour
\* has.
LeastUnused(used, bound) ==
  CHOOSE c \in 0..bound : c \notin used /\ \A d \in 0..(c - 1) : d \in used

Colours(phase, exclusive) ==
  LET colour[n \in phase] ==
        LeastUnused({colour[m] : m \in {k \in ConflictsOf(n, phase, exclusive) : k < n}},
                    Cardinality(phase))
  IN colour

\* Faulty variant: one sub-phase per action as soon as two of them conflict.
SerialPhase(phase, exclusive) ==
  IF \A n \in phase : ConflictsOf(n, phase, exclusive) = {} THEN <<phase>>
  ELSE [i \in 1..Cardinality(phase) |->
          {n \in phase : Cardinality({m \in phase : m < n}) = i - 1}]

SplitPhase(phase, exclusive) ==
  LET colour   == Colours(phase, exclusive)
      maxColour == CHOOSE c \in {colour[n] : n \in phase} :
                     \A n \in phase : colour[n] <= c
  IN IF \A n \in phase : ConflictsOf(n, phase, exclusive) = {} THEN <<phase>>
     ELSE [i \in 1..(maxColour + 1) |-> {n \in phase : colour[n] = i - 1}]

SplitPhases(phases, exclusive) ==
  FlattenSeq([i \in DOMAIN phases |-> SplitPhase(phases[i], exclusive)])

\* BuildGraph: the ExecutionOrder or FinallyOrder of a section.
SectionOrder(w) ==
  SplitPhases(ExecutionPhases(Dependencies(w)), ExpandedExclusive(w))

\* What is executed before the i-th phase of an order.
Earlier(order, i) == UNION {order[j] : j \in 1..(i - 1)}
=============================================================================
