----------------------------- MODULE WorkflowRun -----------------------------
(***************************************************************************)
(* Execute of pkg/action/executor.go on a workflow as it is written: the    *)
(* executor (WorkflowExecutor) runs what BuildGraph (ActionGraph) made of   *)
(* the two sections.                                                        *)
(***************************************************************************)
EXTENDS WorkflowExecutor, ActionGraph

CONSTANT Workflow  \* Workflow.Actions and Workflow.Finally, as sections of ActionGraph

\* The sections know of each other's actions, and share none.
ASSUME WorkflowAssumption ==
  /\ \A s \in Section : WellFormed(Workflow[s])
  /\ Workflow["main"].expansion = Workflow["finally"].expansion
  /\ Workflow["main"].bases \cap Workflow["finally"].bases = {}

\* BuildGraph accepted the workflow, and the executor is given its graph.
ASSUME BuiltGraph ==
  \A s \in Section :
    /\ ~CycleDetected(Dependencies(Workflow[s]))
    /\ Order[s] = SectionOrder(Workflow[s])
    /\ \A a \in Names(Workflow[s]) : Deps[a] = Dependencies(Workflow[s])[a]

\* Actions that exclude each other are never at work together, whichever of them
\* says so, in none of their iterations, and with no dependency to order them.
ExclusiveNeverOverlap ==
  \A s \in Section : \A b \in Workflow[s].bases :
    \A n \in Holders \cap Workflow[s].expansion[b], x \in Workflow[s].exclusive[b] :
      Holders \cap Workflow[s].expansion[x] \subseteq {n}
=============================================================================
