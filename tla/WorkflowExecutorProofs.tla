----------------------- MODULE WorkflowExecutorProofs -----------------------
(***************************************************************************)
(* Proofs about WorkflowExecutor for every workflow: types and the retry   *)
(* bound, RunsOnGoodDependencies, HardFailureStopsSection, RecordsAreFinal,*)
(* the safety part of the refinement of DagRun, and what a run reports.    *)
(*                                                                         *)
(* They take of the graph what the assumptions of WorkflowExecutor say.    *)
(* Last comes the composition with BuildGraph (WorkflowRun): that those    *)
(* assumptions are true of every graph it builds, and ExclusiveNeverOverlap,*)
(* the only theorem that takes the order to be BuildGraph's.               *)
(***************************************************************************)
EXTENDS WorkflowRun, ActionGraphProofs, TLAPS

Live(a) == pc[a] \notin {"none", "returned"}
Good == SkipReason \cup {"succeeded"}

\* A retry loop that may call the provider once more has attempts left.
RetryInv ==
  \A a \in Action :
    pc[a] \notin {"call", "ok", "err"} => attempts[a] < MaxAttempts[a]

\* wg.Wait waits for a phase that exists.
WaitInv == stage = "wait" => section \in Section /\ phase <= LastPhase

\* Only goroutines of the phase waited for are alive; their actions have no
\* settled record, and what those depend on has one that lets them run.
LiveInv ==
  \A a \in Action : Live(a) =>
    /\ stage = "wait"
    /\ a \in Current
    /\ status[a] \in {"none", "running"}
    /\ \A d \in Deps[a] : status[d] \in Good

Untouched(a) == pc[a] = "none" /\ status[a] = "none"

\* The phases before the current one are settled and those after it not begun.
\* A cancelled record is seen only under a context that is done, and a failure
\* that may not be continued only where the section stops.
PhaseInv(i, a) ==
  /\ i < phase => status[a] \in Settled
  /\ i = phase /\ stage = "wait" => Live(a) \/ status[a] \in Settled
  /\ i > phase \/ (i = phase /\ stage = "top") =>
       /\ pc[a] = "none"
       /\ status[a] \notin FailStatus
       /\ stage # "end" => status[a] = "none"
  /\ status[a] = "cancelled" => SectionCtx # "live"
  /\ status[a] \in FailStatus /\ ~MayContinue(a, status[a]) =>
       /\ i >= phase
       /\ stage = "wait" => errs # {}

SectionInv ==
  section \in Section =>
    \A i \in DOMAIN Order[section] : \A a \in Order[section][i] : PhaseInv(i, a)

\* Nothing of the finally section happens before it is entered, and nothing at
\* all before the graph is built.
NotBegunInv ==
  /\ section = "build" =>
       phase = 1 /\ stage = "top" /\ \A a \in Action : Untouched(a)
  /\ section # "finally" => \A a \in ActionsOf("finally") : Untouched(a)

IInv ==
  /\ TypeOK /\ RetryInv /\ WaitInv /\ LiveInv
  /\ SectionInv /\ NotBegunInv /\ HardFailureStopsSection

Structure == WaitInv /\ LiveInv /\ SectionInv /\ NotBegunInv /\ HardFailureStopsSection

-----------------------------------------------------------------------------

\* An execution order is a sequence of disjoint sets of actions.
LEMMA Phases ==
  /\ \A s \in Section :
       /\ Len(Order[s]) \in Nat
       /\ DOMAIN Order[s] = 1..Len(Order[s])
       /\ \A i \in DOMAIN Order[s] : Order[s][i] \subseteq Action
  /\ \A s \in Section : \A a :
       a \in ActionsOf(s) <=> \E i \in DOMAIN Order[s] : a \in Order[s][i]
BY OrderAssumption DEF ActionsOf, PhasesOf, Section

\* The initial state.
LEMMA InitIInv == Init => IInv
<1> SUFFICES ASSUME Init PROVE IInv
  OBVIOUS
<1>1. TypeOK
  <2>1. section \notin Section
    BY DEF Init, Section
  <2>2. \A a \in Action : attempts[a] <= MaxAttempts[a]
    BY PolicyAssumption DEF Init
  <2>3. sectionErr \in [Section -> BOOLEAN] /\ detached \in BOOLEAN
    BY Zenon DEF Init
  <2> QED
    BY <2>1, <2>2, <2>3 DEF Init, TypeOK, CtxState, Status, Location, FinalStatus
<1>2. RetryInv /\ WaitInv /\ LiveInv
  BY PolicyAssumption DEF Init, RetryInv, WaitInv, LiveInv, Live
<1>3. SectionInv
  BY DEF Init, SectionInv, Section
<1>4. NotBegunInv
  BY Phases DEF Init, NotBegunInv, Untouched, Section
<1>5. HardFailureStopsSection
  BY Phases DEF Init, HardFailureStopsSection, FailStatus
<1> QED
  BY <1>1, <1>2, <1>3, <1>4, <1>5 DEF IInv

\* A goroutine that moves on inside executeAction disturbs nothing.
LEMMA Advance ==
  ASSUME IInv, NEW a \in Action, Live(a), NEW loc \in Holding,
         pc' = [pc EXCEPT ![a] = loc],
         status' = status \/ status' = [status EXCEPT ![a] = "running"],
         UNCHANGED <<ctx, coordinator, errs>>
  PROVE  Structure'
<1>1. /\ \A b \in Action : Live(b)' <=> Live(b)
      /\ pc[a] # "none" /\ pc'[a] # "none"
      /\ \A b \in Action : pc'[b] = "none" <=> pc[b] = "none"
  BY DEF IInv, TypeOK, Live, Holding, UnderTimeout
<1>2. /\ status[a] \in {"none", "running"} /\ status'[a] \in {"none", "running"}
      /\ \A b \in Action : b # a => status'[b] = status[b]
      /\ stage = "wait" /\ a \in Current
  BY DEF IInv, TypeOK, LiveInv
<1>3. WaitInv' /\ LiveInv'
  BY <1>1, <1>2, DepsAssumption
  DEF IInv, WaitInv, LiveInv, coordinator, Current, Good, SkipReason, LastPhase
<1>4. SectionInv'
  <2> SUFFICES ASSUME section \in Section, NEW i \in DOMAIN Order[section],
                      NEW b \in Order[section][i]
               PROVE  PhaseInv(i, b)'
    BY DEF SectionInv, coordinator
  <2>1. b \in Action /\ PhaseInv(i, b)
    BY Phases DEF IInv, SectionInv
  <2>2. CASE b = a
    <3>1. i = phase
      BY <1>2, <2>2, Phases, OrderAssumption DEF IInv, WaitInv, Current, LastPhase, TypeOK
    <3> QED
      BY <1>1, <1>2, <2>1, <2>2, <3>1 DEF PhaseInv, coordinator, FailStatus, Live, IInv, TypeOK
  <2>3. CASE b # a
    BY <1>1, <1>2, <2>1, <2>3 DEF PhaseInv, coordinator, SectionCtx
  <2> QED
    BY <2>2, <2>3
<1>5. NotBegunInv'
  <2>1. (section # "build" /\ a \notin ActionsOf("finally")) \/ section = "finally"
    BY <1>1 DEF IInv, NotBegunInv, Untouched, TypeOK, Section
  <2> QED
    BY <1>1, <1>2, <2>1, Phases DEF IInv, NotBegunInv, Untouched, coordinator, Section
<1>6. HardFailureStopsSection'
  BY <1>1, <1>2, Phases DEF IInv, HardFailureStopsSection, FailStatus
<1> QED
  BY <1>3, <1>4, <1>5, <1>6 DEF Structure

\* A goroutine that returns leaves a settled record and, after a failure that
\* may not be continued, an error.
LEMMA Returning ==
  ASSUME IInv, NEW a \in Action, Live(a), NEW st \in Settled,
         pc' = [pc EXCEPT ![a] = "returned"],
         status' = [status EXCEPT ![a] = st],
         st = "cancelled" => SectionCtx # "live",
         st \in FailStatus /\ ~MayContinue(a, st) => errs' # {},
         errs # {} => errs' # {},
         UNCHANGED <<ctx, coordinator>>
  PROVE  Structure'
<1>1. /\ \A b \in Action : Live(b)' <=> Live(b) /\ b # a
      /\ pc[a] # "none" /\ pc'[a] # "none"
      /\ \A b \in Action : pc'[b] = "none" <=> pc[b] = "none"
  BY DEF IInv, TypeOK, Live
<1>2. /\ status[a] \in {"none", "running"} /\ status'[a] = st
      /\ \A b \in Action : b # a => status'[b] = status[b]
      /\ stage = "wait" /\ a \in Current
      /\ section \in Section /\ phase \in DOMAIN Order[section]
  BY Phases DEF IInv, TypeOK, LiveInv, WaitInv, LastPhase
<1>3. WaitInv' /\ LiveInv'
  BY <1>1, <1>2, DepsAssumption
  DEF IInv, WaitInv, LiveInv, coordinator, Current, Good, SkipReason, LastPhase
<1>4. \A i \in DOMAIN Order[section] : a \in Order[section][i] => i = phase
  BY <1>2, OrderAssumption DEF Current
<1>5. SectionInv'
  <2> SUFFICES ASSUME NEW i \in DOMAIN Order[section], NEW b \in Order[section][i]
               PROVE  PhaseInv(i, b)'
    BY DEF SectionInv, coordinator
  <2>1. b \in Action /\ PhaseInv(i, b)
    BY <1>2, Phases DEF IInv, SectionInv
  <2>2. CASE b = a
    BY <1>1, <1>2, <1>4, <2>1, <2>2 DEF PhaseInv, coordinator, SectionCtx, Live, IInv, TypeOK
  <2>3. CASE b # a
    BY <1>1, <1>2, <2>1, <2>3 DEF PhaseInv, coordinator, SectionCtx
  <2> QED
    BY <2>2, <2>3
<1>6. NotBegunInv'
  <2>1. (section # "build" /\ a \notin ActionsOf("finally")) \/ section = "finally"
    BY <1>1 DEF IInv, NotBegunInv, Untouched, TypeOK, Section
  <2> QED
    BY <1>1, <1>2, <2>1, Phases DEF IInv, NotBegunInv, Untouched, coordinator, Section
<1>7. HardFailureStopsSection'
  <2> SUFFICES ASSUME NEW s \in Section, NEW i \in DOMAIN Order[s], NEW j \in DOMAIN Order[s],
                      i < j, NEW b \in Order[s][i], NEW c \in Order[s][j],
                      status'[b] \in FailStatus, ~MayContinue(b, status'[b])
               PROVE  pc[c] = "none"
    BY <1>1, Phases DEF HardFailureStopsSection
  <2>1. CASE b = a
    <3>1. s = section
      BY <1>2, <2>1, Phases, OrderAssumption DEF Current, Section
    <3>2. j > phase
      BY <1>4, <2>1, <3>1, Phases DEF IInv, TypeOK
    <3> QED
      BY <3>1, <3>2 DEF IInv, SectionInv, PhaseInv
  <2>2. CASE b # a
    BY <1>2, <2>2, Phases DEF IInv, HardFailureStopsSection
  <2> QED
    BY <2>1, <2>2
<1> QED
  BY <1>3, <1>5, <1>6, <1>7 DEF Structure

-----------------------------------------------------------------------------

\* While a phase is not waited for, no goroutine is alive.
LEMMA Idle ==
  ASSUME IInv, NEW a \in Action, stage # "wait" \/ a \notin Current
  PROVE  pc[a] \in {"none", "returned"}
BY DEF IInv, LiveInv, Live

\* Types and the retry bound, action by action of a goroutine.
LEMMA GoroutineTypes ==
  ASSUME IInv, NEW a \in Action, Goroutine(a)
  PROVE  TypeOK' /\ RetryInv'
<1> USE DEF IInv, TypeOK, coordinator, LastPhase
<1>1. ASSUME NEW st \in Settled, NEW sends \in BOOLEAN, Return(a, st, sends)
      PROVE  TypeOK' /\ RetryInv'
  <2>1. errs' \subseteq Action
    BY <1>1 DEF Return
  <2>2. /\ status' \in [Action -> Status] /\ pc' \in [Action -> Location]
        /\ actx' \in [Action -> CtxState] /\ attempts' \in [Action -> Nat]
    BY <1>1 DEF Return, Status, Location, CtxState
  <2>3. ASSUME NEW b \in Action
        PROVE  /\ attempts'[b] <= MaxAttempts[b]
               /\ pc'[b] \notin {"call", "ok", "err"} => attempts'[b] < MaxAttempts[b]
    <3>1. MaxAttempts[b] \in Nat \ {0}
      BY PolicyAssumption
    <3>2. CASE b = a
      BY <1>1, <3>1, <3>2 DEF Return
    <3>3. CASE b # a
      BY <1>1, <3>3 DEF Return, RetryInv
    <3> QED
      BY <3>2, <3>3
  <2>4. RetryInv'
    BY <2>3 DEF RetryInv
  <2> QED
    BY <1>1, <2>1, <2>2, <2>3, <2>4 DEF Return
<1>2. CASE AcquireSlot(a)
  BY <1>2 DEF AcquireSlot, RetryInv, Location, Holding
<1>3. CASE CancelAtSemaphore(a)
  BY <1>3 DEF CancelAtSemaphore, RetryInv, Location, Status, Settled
<1>4. CASE SkipAction(a)
  BY <1>1, <1>4 DEF SkipAction, Settled, SkipReason
<1>5. CASE FailPreparation(a)
  BY <1>1, <1>5 DEF FailPreparation, Settled, FailStatus
<1>6. CASE MarkRunning(a)
  BY <1>6 DEF MarkRunning, RetryInv, Location, Holding, UnderTimeout, Status, SectionCtx, CtxState
<1>7. ASSUME pc[a] \in {"loop", "delay"}, CallProvider(a),
             UNCHANGED <<ctx, coordinator, errs, status, actx, final>>
      PROVE  TypeOK' /\ RetryInv'
  <2>1. pc' \in [Action -> Location] /\ attempts' \in [Action -> Nat]
    BY <1>7 DEF CallProvider, Location, Holding, UnderTimeout
  <2>2. attempts[a] < MaxAttempts[a] /\ MaxAttempts[a] \in Nat /\ attempts[a] \in Nat
    BY <1>7, PolicyAssumption DEF RetryInv
  <2>3. ASSUME NEW b \in Action PROVE attempts'[b] <= MaxAttempts[b]
    <3>1. CASE b = a
      BY <1>7, <2>2, <3>1 DEF CallProvider
    <3>2. CASE b # a
      BY <1>7, <3>2 DEF CallProvider
    <3> QED
      BY <3>1, <3>2
  <2>4. RetryInv'
    BY <1>7, <2>2 DEF CallProvider, RetryInv
  <2> QED
    BY <1>7, <2>1, <2>3, <2>4
<1>8. ASSUME NEW loc \in {"err", "delay"}, pc[a] \in {"loop", "delay"},
             pc' = [pc EXCEPT ![a] = loc],
             UNCHANGED <<ctx, coordinator, errs, status, actx, attempts, final>>
      PROVE  TypeOK' /\ RetryInv'
  BY <1>8 DEF RetryInv, Location, Holding, UnderTimeout
<1>13. CASE RetryLoop(a)
  BY <1>7, <1>8, <1>13 DEF RetryLoop
<1>14. CASE RetryDelay(a)
  BY <1>7, <1>8, <1>14 DEF RetryDelay
<1>9. CASE ProviderReturns(a)
  BY <1>9, PolicyAssumption DEF ProviderReturns, ShouldRetry, RetryInv, Location, Holding, UnderTimeout
<1>10. CASE TimeOut(a)
  BY <1>1, <1>10 DEF TimeOut, Settled, FailStatus
<1>11. CASE Fail(a)
  BY <1>1, <1>11 DEF Fail, Settled, FailStatus
<1>12. CASE Succeed(a)
  BY <1>1, <1>12 DEF Succeed, Settled
<1> QED
  BY <1>2, <1>3, <1>4, <1>5, <1>6, <1>9, <1>10, <1>11, <1>12, <1>13, <1>14 DEF Goroutine

\* The rest of the invariant, action by action of a goroutine.
LEMMA GoroutineStructure ==
  ASSUME IInv, NEW a \in Action, Goroutine(a)
  PROVE  Structure'
<1>1. Live(a)
  BY DEF Goroutine, AcquireSlot, CancelAtSemaphore, SkipAction, FailPreparation, MarkRunning,
         RetryLoop, RetryDelay, ProviderReturns, TimeOut, Fail, Succeed, Live
<1>2. ASSUME NEW st \in Settled, NEW sends \in BOOLEAN, Return(a, st, sends),
             st # "cancelled", st \in FailStatus /\ ~MayContinue(a, st) => sends
      PROVE  Structure'
  BY <1>1, <1>2, Returning DEF Return
<1>3. CASE AcquireSlot(a)
  BY <1>1, <1>3, Advance DEF AcquireSlot, Holding
<1>4. CASE CancelAtSemaphore(a)
  BY <1>1, <1>4, Returning DEF CancelAtSemaphore, Settled, FailStatus
<1>5. CASE SkipAction(a)
  BY <1>2, <1>5 DEF SkipAction, Settled, SkipReason, FailStatus
<1>6. CASE FailPreparation(a)
  BY <1>2, <1>6 DEF FailPreparation, Settled, FailStatus
<1>7. CASE MarkRunning(a)
  BY <1>1, <1>7, Advance DEF MarkRunning, Holding, UnderTimeout
<1>8. CASE RetryLoop(a)
  BY <1>1, <1>8, Advance DEF RetryLoop, CallProvider, Holding, UnderTimeout
<1>9. CASE RetryDelay(a)
  BY <1>1, <1>9, Advance DEF RetryDelay, CallProvider, Holding, UnderTimeout
<1>10. CASE ProviderReturns(a)
  <2>1. PICK next \in {"ok", "err", "loop"} : pc' = [pc EXCEPT ![a] = next]
    BY <1>10 DEF ProviderReturns
  <2> QED
    BY <1>1, <1>10, <2>1, Advance DEF ProviderReturns, Holding, UnderTimeout
<1>11. CASE TimeOut(a)
  BY <1>2, <1>11 DEF TimeOut, Settled, FailStatus
<1>12. CASE Fail(a)
  BY <1>2, <1>12 DEF Fail, Settled, FailStatus, MayContinue
<1>13. CASE Succeed(a)
  BY <1>2, <1>13 DEF Succeed, Settled, FailStatus
<1> QED
  BY <1>3, <1>4, <1>5, <1>6, <1>7, <1>8, <1>9, <1>10, <1>11, <1>12, <1>13 DEF Goroutine

-----------------------------------------------------------------------------

\* Types of a step of the coordinator or of the environment.
LEMMA CoordinatorTypes ==
  ASSUME IInv, Coordinator \/ Environment
  PROVE  TypeOK' /\ RetryInv'
<1> USE DEF IInv, TypeOK, coordinator, LastPhase
<1>1. CASE Cancel
  <2>1. actx' \in [Action -> CtxState] /\ ctx' \in CtxState
    BY <1>1 DEF Cancel
  <2> QED
    BY <1>1, <2>1 DEF Cancel, RetryInv
<1>2. CASE \E a \in Action : Expire(a)
  BY <1>2 DEF Expire, CtxState, RetryInv
<1>3. CASE BuildGraph
  BY <1>3, Phases DEF BuildGraph, RetryInv, NotBegunInv, FinalStatus, Section
<1>4. CASE StartPhase
  <2>1. /\ status' \in [Action -> Status] /\ pc' \in [Action -> Location]
        /\ stage' \in {"top", "wait"} /\ phase' \in {phase, phase + 1}
    BY <1>4 DEF StartPhase, Status, Settled, SkipReason, Location
  <2>2. \A a \in Action : attempts[a] < MaxAttempts[a]
    BY <1>4, Idle DEF StartPhase, RetryInv
  <2> QED
    BY <1>4, <2>1, <2>2, Phases DEF StartPhase, RetryInv
<1>5. CASE AbandonSection
  <2>1. status' \in [Action -> Status] /\ sectionErr' \in [Section -> BOOLEAN]
    BY <1>5 DEF AbandonSection, Status, Settled
  <2> QED
    BY <1>5, <2>1 DEF AbandonSection, RetryInv
<1>6. CASE EndPhase
  <2>1. status' \in [Action -> Status] /\ sectionErr' \in [Section -> BOOLEAN]
    <3>1. CASE errs = {} \/ AllContinue
      BY <1>6, <3>1 DEF EndPhase
    <3>2. CASE ~(errs = {} \/ AllContinue)
      BY <1>6, <3>2 DEF EndPhase, Status, Settled, SkipReason
    <3> QED
      BY <3>1, <3>2
  <2>2. phase' \in {phase, phase + 1} /\ stage' \in {"top", "end"} /\ phase <= LastPhase
    BY <1>6 DEF EndPhase, WaitInv
  <2> QED
    BY <1>6, <2>1, <2>2, Phases DEF EndPhase, RetryInv
<1>7. CASE EnterFinally
  <2>1. detached' \in BOOLEAN
    BY <1>7 DEF EnterFinally
  <2> QED
    BY <1>7, <2>1, Phases DEF EnterFinally, RetryInv, Section
<1>8. CASE Report
  <2>1. determineFinalStatus \in FinalStatus
    BY DEF determineFinalStatus, FinalStatus
  <2> QED
    BY <1>8, <2>1 DEF Report, RetryInv
<1> QED
  BY <1>1, <1>2, <1>3, <1>4, <1>5, <1>6, <1>7, <1>8 DEF Coordinator, Environment

\* The rest of the invariant, for the steps that start and end a phase.
LEMMA StartPhaseStructure ==
  ASSUME IInv, StartPhase
  PROVE  Structure'
<1> DEFINE skipped == {a \in Current : DependencyFailed(a)}
           toRun   == Current \ skipped
<1>1. /\ section \in Section /\ stage = "top" /\ SectionCtx = "live"
      /\ phase \in DOMAIN Order[section] /\ Current \subseteq Action
      /\ UNCHANGED <<ctx, section, detached>>
      /\ SectionCtx' = SectionCtx
  BY Phases DEF StartPhase, IInv, TypeOK, LastPhase, Current, SectionCtx
<1>2. /\ \A a \in Action : status'[a] = IF a \in skipped THEN "dependency-failed" ELSE status[a]
      /\ \A a \in Action : pc'[a] = IF a \in toRun THEN "semaphore" ELSE pc[a]
      /\ \/ toRun = {} /\ phase' = phase + 1 /\ stage' = "top"
         \/ toRun # {} /\ stage' = "wait" /\ phase' = phase
  BY <1>1 DEF StartPhase
<1>3. \A i \in DOMAIN Order[section] : \A a \in Order[section][i] :
        /\ a \in Action /\ PhaseInv(i, a)
        /\ a \in Current <=> i = phase
  BY <1>1, Phases, OrderAssumption DEF IInv, SectionInv, Current
<1>4. \A a \in Action : ~Live(a)
  BY <1>1, Idle DEF Live
<1>5. WaitInv'
  BY <1>1, <1>2, Phases DEF WaitInv, LastPhase
<1>6. LiveInv'
  <2> SUFFICES ASSUME NEW a \in Action, Live(a)'
               PROVE  /\ stage' = "wait" /\ a \in Current'
                      /\ status'[a] \in {"none", "running"}
                      /\ \A d \in Deps[a] : status'[d] \in Good
    BY DEF LiveInv
  <2>1. a \in toRun /\ stage' = "wait" /\ a \in Current'
    BY <1>1, <1>2, <1>4 DEF Live, Current
  <2>2. status'[a] = "none"
    BY <1>1, <1>2, <1>3, <2>1 DEF PhaseInv, Current
  <2>3. ASSUME NEW d \in Deps[a] PROVE status'[d] \in Good
    <3>1. PICK j \in DOMAIN Order[section] : j < phase /\ d \in Order[section][j]
      BY <1>1, <2>1, DepsAssumption DEF Current
    <3>2. status[d] \in Settled /\ status[d] # "cancelled" /\ d \notin Current
      BY <1>1, <1>3, <3>1 DEF PhaseInv, IInv, TypeOK
    <3>3. status[d] \notin FailStatus
      BY <2>1 DEF DependencyFailed
    <3> QED
      BY <1>2, <1>3, <3>1, <3>2, <3>3 DEF Good, Settled
  <2> QED
    BY <2>1, <2>2, <2>3
<1>7. SectionInv'
  <2> SUFFICES ASSUME NEW i \in DOMAIN Order[section], NEW a \in Order[section][i]
               PROVE  PhaseInv(i, a)'
    BY <1>1 DEF SectionInv
  <2>1. a \in Action /\ PhaseInv(i, a) /\ i \in Nat /\ phase \in Nat
    BY <1>1, <1>3, Phases DEF IInv, TypeOK
  <2>2. CASE i = phase
    <3>1. status[a] = "none" /\ pc[a] = "none" /\ a \in Current
      BY <1>1, <1>3, <2>1, <2>2 DEF PhaseInv
    <3> QED
      BY <1>2, <2>1, <2>2, <3>1 DEF PhaseInv, Live, Settled, SkipReason, FailStatus
  <2>3. CASE i # phase
    <3>1. a \notin Current /\ status'[a] = status[a] /\ pc'[a] = pc[a]
      BY <1>2, <1>3, <2>1, <2>3
    <3> QED
      BY <1>1, <1>2, <2>1, <2>3, <3>1 DEF PhaseInv
  <2> QED
    BY <2>2, <2>3
<1>8. NotBegunInv'
  <2>1. section # "finally" => \A a \in ActionsOf("finally") : a \notin Current
    BY <1>1, Phases, OrderAssumption DEF Current, Section
  <2> QED
    BY <1>1, <1>2, <2>1, Phases DEF IInv, NotBegunInv, Untouched, Section
<1>9. HardFailureStopsSection'
  <2> SUFFICES ASSUME NEW s \in Section, NEW i \in DOMAIN Order[s], NEW j \in DOMAIN Order[s],
                      i < j, NEW a \in Order[s][i], NEW b \in Order[s][j],
                      status'[a] \in FailStatus, ~MayContinue(a, status'[a])
               PROVE  pc'[b] = "none"
    BY DEF HardFailureStopsSection
  <2>1. /\ a \in Action /\ b \in Action
        /\ status[a] \in FailStatus /\ status'[a] = status[a]
    BY <1>2, Phases DEF FailStatus
  <2>2. pc[b] = "none"
    BY <2>1 DEF IInv, HardFailureStopsSection
  <2>3. b \notin Current
    <3>1. CASE s = section
      <4>1. PhaseInv(i, a) /\ (b \in Current <=> j = phase)
        BY <1>3, <3>1
      <4>2. i \in Nat /\ j \in Nat /\ phase \in Nat
        BY Phases DEF IInv, TypeOK
      <4> QED
        BY <2>1, <4>1, <4>2 DEF PhaseInv
    <3>2. CASE s # section
      <4>1. b \in ActionsOf(s)
        BY Phases
      <4>2. Current \subseteq ActionsOf(section)
        BY <1>1, Phases DEF Current
      <4> QED
        BY <1>1, <3>2, <4>1, <4>2, OrderAssumption DEF Section
    <3> QED
      BY <3>1, <3>2
  <2> QED
    BY <1>2, <2>1, <2>2, <2>3
<1> QED
  BY <1>5, <1>6, <1>7, <1>8, <1>9 DEF Structure

\* A step outside the goroutines that marks only actions not begun, and none of
\* them as failed, keeps what a hard failure stops.
LEMMA MarkingKeepsHardFailure ==
  ASSUME IInv, UNCHANGED pc,
         \A a \in Action : status'[a] = status[a] \/ status'[a] \notin FailStatus
  PROVE  HardFailureStopsSection'
BY Phases DEF IInv, HardFailureStopsSection

LEMMA EndPhaseStructure ==
  ASSUME IInv, EndPhase
  PROVE  Structure'
<1>1. /\ section \in Section /\ stage = "wait"
      /\ phase \in DOMAIN Order[section] /\ Current \subseteq Action
      /\ UNCHANGED <<ctx, section, detached, errs, pc>>
      /\ SectionCtx' = SectionCtx
  BY Phases DEF EndPhase, IInv, TypeOK, WaitInv, LastPhase, Current, SectionCtx
<1>2. \A a \in Action : ~Live(a)
  BY <1>1 DEF EndPhase, IInv, LiveInv, Live
<1>3. \A i \in DOMAIN Order[section] : \A a \in Order[section][i] :
        a \in Action /\ PhaseInv(i, a) /\ i \in Nat /\ phase \in Nat
  BY <1>1, Phases DEF IInv, SectionInv, TypeOK
<1>4. WaitInv' /\ LiveInv'
  BY <1>1, <1>2 DEF EndPhase, WaitInv, LiveInv, Live
<1>5. CASE errs = {} \/ AllContinue
  <2>1. phase' = phase + 1 /\ stage' = "top" /\ status' = status
    BY <1>5 DEF EndPhase
  <2>2. SectionInv'
    <3> SUFFICES ASSUME NEW i \in DOMAIN Order[section], NEW a \in Order[section][i]
                 PROVE  PhaseInv(i, a)'
      BY <1>1 DEF SectionInv
    <3>1. i = phase /\ status[a] \in FailStatus => MayContinue(a, status[a])
      BY <1>1, <1>3, <1>5 DEF AllContinue, Current, PhaseInv, MayContinue
    <3> QED
      BY <1>1, <1>2, <1>3, <2>1, <3>1 DEF PhaseInv
  <2>3. NotBegunInv' /\ HardFailureStopsSection'
    BY <1>1, <2>1, MarkingKeepsHardFailure DEF IInv, NotBegunInv, Untouched, Section
  <2> QED
    BY <1>4, <2>2, <2>3 DEF Structure
<1>6. CASE ~(errs = {} \/ AllContinue)
  <2>1. /\ phase' = phase /\ stage' = "end"
        /\ \A a \in Action : status'[a] = IF a \in LaterActions THEN "dependency-failed"
                                          ELSE status[a]
    BY <1>6 DEF EndPhase
  <2>2. \A i \in DOMAIN Order[section] : \A a \in Order[section][i] :
          a \in LaterActions <=> i > phase
    BY <1>1, <1>3, Phases, OrderAssumption DEF LaterActions, LastPhase
  <2>3. SectionInv'
    <3> SUFFICES ASSUME NEW i \in DOMAIN Order[section], NEW a \in Order[section][i]
                 PROVE  PhaseInv(i, a)'
      BY <1>1 DEF SectionInv
    <3>1. CASE i > phase
      BY <1>1, <1>3, <2>1, <2>2, <3>1 DEF PhaseInv, FailStatus
    <3>2. CASE ~(i > phase)
      BY <1>1, <1>3, <2>1, <2>2, <3>2 DEF PhaseInv
    <3> QED
      BY <3>1, <3>2
  <2>4. section # "finally" => \A a \in ActionsOf("finally") : a \notin LaterActions
    <3>1. LaterActions \subseteq ActionsOf(section)
      BY <1>1, <1>3, Phases DEF LaterActions, LastPhase
    <3> QED
      BY <1>1, <3>1, OrderAssumption DEF Section
  <2>5. NotBegunInv' /\ HardFailureStopsSection'
    <3>1. HardFailureStopsSection'
      BY <1>1, <2>1, MarkingKeepsHardFailure DEF FailStatus
    <3> QED
      BY <1>1, <2>1, <2>4, <3>1, Phases DEF IInv, NotBegunInv, Untouched, Section
  <2> QED
    BY <1>4, <2>3, <2>5 DEF Structure
<1> QED
  BY <1>5, <1>6

LEMMA AbandonSectionStructure ==
  ASSUME IInv, AbandonSection
  PROVE  Structure'
<1>1. /\ section \in Section /\ stage = "top" /\ stage' = "end" /\ SectionCtx # "live"
      /\ phase \in DOMAIN Order[section] /\ Current \subseteq Action
      /\ UNCHANGED <<ctx, section, phase, detached, errs, pc>>
      /\ SectionCtx' = SectionCtx
      /\ \A a \in Action : status'[a] = IF a \in Current THEN "cancelled" ELSE status[a]
  BY Phases DEF AbandonSection, IInv, TypeOK, LastPhase, Current, SectionCtx
<1>2. \A i \in DOMAIN Order[section] : \A a \in Order[section][i] :
        /\ a \in Action /\ PhaseInv(i, a) /\ i \in Nat /\ phase \in Nat
        /\ a \in Current <=> i = phase
  BY <1>1, Phases, OrderAssumption DEF IInv, SectionInv, TypeOK, Current
<1>3. WaitInv' /\ LiveInv'
  BY <1>1, Idle DEF WaitInv, LiveInv, Live
<1>4. SectionInv'
  <2> SUFFICES ASSUME NEW i \in DOMAIN Order[section], NEW a \in Order[section][i]
               PROVE  PhaseInv(i, a)'
    BY <1>1 DEF SectionInv
  <2>1. CASE i = phase
    BY <1>1, <1>2, <2>1 DEF PhaseInv, FailStatus
  <2>2. CASE i # phase
    BY <1>1, <1>2, <2>2 DEF PhaseInv
  <2> QED
    BY <2>1, <2>2
<1>5. NotBegunInv'
  <2>1. section # "finally" => \A a \in ActionsOf("finally") : a \notin Current
    BY <1>1, Phases, OrderAssumption DEF Current, Section
  <2> QED
    BY <1>1, <2>1, Phases DEF IInv, NotBegunInv, Untouched, Section
<1>6. HardFailureStopsSection'
  BY <1>1, MarkingKeepsHardFailure DEF FailStatus
<1> QED
  BY <1>3, <1>4, <1>5, <1>6 DEF Structure

\* Entering a section whose actions are untouched.
LEMMA EnterSection ==
  ASSUME IInv, NEW s \in Section, section' = s, phase' = 1, stage' = "top", stage # "wait",
         UNCHANGED <<status, pc>>,
         \A a \in ActionsOf(s) : Untouched(a),
         s = "main" => \A a \in ActionsOf("finally") : Untouched(a)
  PROVE  Structure'
<1>1. WaitInv' /\ LiveInv'
  BY Idle DEF WaitInv, LiveInv, Live
<1>2. SectionInv'
  <2> SUFFICES ASSUME NEW i \in DOMAIN Order[s], NEW a \in Order[s][i]
               PROVE  PhaseInv(i, a)'
    BY DEF SectionInv
  <2>1. Untouched(a) /\ i \in Nat /\ i >= 1
    BY Phases
  <2> QED
    BY <2>1 DEF PhaseInv, Untouched, FailStatus
<1>3. NotBegunInv' /\ HardFailureStopsSection'
  BY MarkingKeepsHardFailure DEF NotBegunInv, Untouched, Section
<1> QED
  BY <1>1, <1>2, <1>3 DEF Structure

LEMMA CoordinatorStructure ==
  ASSUME IInv, Coordinator \/ Environment
  PROVE  Structure'
<1>1. ASSUME UNCHANGED <<section, phase, stage, detached, errs, status, pc>>,
             SectionCtx # "live" => SectionCtx' # "live"
      PROVE  Structure'
  BY <1>1 DEF IInv, Structure, WaitInv, LiveInv, SectionInv, PhaseInv, NotBegunInv, Untouched,
              HardFailureStopsSection, Live, Current, LastPhase
<1>2. CASE Cancel
  BY <1>1, <1>2 DEF Cancel, coordinator, SectionCtx
<1>3. CASE \E a \in Action : Expire(a)
  BY <1>1, <1>3 DEF Expire, coordinator, SectionCtx
<1>4. CASE BuildGraph
  <2>1. CASE section' = "main"
    BY <1>4, <2>1, EnterSection, Phases DEF BuildGraph, IInv, NotBegunInv, Section
  <2>2. CASE section' = section
    BY <1>1, <1>4, <2>2 DEF BuildGraph, SectionCtx
  <2> QED
    BY <1>4, <2>1, <2>2 DEF BuildGraph
<1>5. CASE EnterFinally
  BY <1>5, EnterSection DEF EnterFinally, SectionDone, IInv, NotBegunInv, Section
<1>6. CASE Report
  BY <1>1, <1>6 DEF Report, coordinator, SectionCtx
<1> QED
  BY <1>2, <1>3, <1>4, <1>5, <1>6, StartPhaseStructure, EndPhaseStructure,
     AbandonSectionStructure DEF Coordinator, Environment

-----------------------------------------------------------------------------

\* IInv is inductive.
LEMMA NextIInv == IInv /\ [Next]_vars => IInv'
<1> SUFFICES ASSUME IInv, [Next]_vars PROVE IInv'
  OBVIOUS
<1>1. CASE Coordinator \/ Environment
  BY <1>1, CoordinatorTypes, CoordinatorStructure DEF IInv, Structure
<1>2. CASE \E a \in Action : Goroutine(a)
  BY <1>2, GoroutineTypes, GoroutineStructure DEF IInv, Structure
<1>3. CASE UNCHANGED vars
  BY <1>3 DEF vars, IInv, TypeOK, RetryInv, WaitInv, LiveInv, SectionInv, PhaseInv, NotBegunInv,
              Untouched, HardFailureStopsSection, Live, Current, SectionCtx, LastPhase
<1> QED
  BY <1>1, <1>2, <1>3 DEF Next, Returned

\* In every reachable state coordinator, goroutines and records agree: what
\* executePhases knows of its phases is what their goroutines have recorded.
THEOREM Invariance == Spec => []IInv
BY InitIInv, NextIInv, PTL DEF Spec

\* Every state of a run is well typed, and no action is tried more often than
\* its retry configuration allows.
THEOREM TypeCorrect == Spec => []TypeOK
<1>1. IInv => TypeOK
  BY DEF IInv
<1> QED
  BY <1>1, Invariance, PTL

\* Whatever the workflow, its policies and the cancellations are, an action is
\* worked on only while all its dependencies have succeeded or were skipped.
THEOREM DependenciesHold == Spec => []RunsOnGoodDependencies
<1>1. IInv => RunsOnGoodDependencies
  BY DEF IInv, LiveInv, Live, Good, RunsOnGoodDependencies, Holders, Holding, UnderTimeout
<1> QED
  BY <1>1, Invariance, PTL

\* A failure that may not be continued keeps every later phase of its section
\* from starting.
THEOREM HardFailureStops == Spec => []HardFailureStopsSection
<1>1. IInv => HardFailureStopsSection
  BY DEF IInv
<1> QED
  BY <1>1, Invariance, PTL

\* A settled record is never replaced: the Mark* methods reach only actions not
\* begun or at work.
THEOREM RecordsStay == Spec => RecordsAreFinal
<1>1. ASSUME IInv, [Next]_vars, NEW a \in Action, status[a] \in Settled
      PROVE  status'[a] = status[a]
  <2>1. ~Live(a) /\ status[a] # "none"
    BY <1>1 DEF IInv, LiveInv, Settled, SkipReason, FailStatus
  <2>2. CASE \E b \in Action : Goroutine(b)
    <3>1. PICK b \in Action : Goroutine(b)
      BY <2>2
    <3>2. b # a
      BY <2>1, <3>1
      DEF Goroutine, AcquireSlot, CancelAtSemaphore, SkipAction, FailPreparation, MarkRunning,
          RetryLoop, RetryDelay, ProviderReturns, TimeOut, Fail, Succeed, Live
    <3>3. ASSUME NEW st, NEW sends, Return(b, st, sends)
          PROVE  status' = [status EXCEPT ![b] = st]
      BY <3>3 DEF Return
    <3>4. status' = status \/ \E st : status' = [status EXCEPT ![b] = st]
      BY <3>1, <3>3
      DEF Goroutine, AcquireSlot, CancelAtSemaphore, SkipAction, FailPreparation, MarkRunning,
          RetryLoop, RetryDelay, ProviderReturns, TimeOut, Fail, Succeed
    <3> QED
      BY <1>1, <3>2, <3>4 DEF IInv, TypeOK
  <2>3. CASE StartPhase \/ AbandonSection
    <3>1. section \in Section /\ phase \in DOMAIN Order[section] /\ stage = "top"
      BY <2>3, <1>1, Phases DEF StartPhase, AbandonSection, IInv, TypeOK, LastPhase
    <3>2. a \notin Current
      BY <1>1, <2>1, <3>1 DEF IInv, SectionInv, PhaseInv, Current
    <3> QED
      BY <2>3, <3>2 DEF StartPhase, AbandonSection
  <2>4. CASE EndPhase
    <3>1. section \in Section /\ stage = "wait" /\ phase \in Nat
      BY <1>1, <2>4 DEF EndPhase, IInv, TypeOK
    <3>2. a \notin LaterActions
      BY <1>1, <2>1, <3>1, Phases DEF IInv, SectionInv, PhaseInv, LaterActions, LastPhase
    <3> QED
      BY <2>4, <3>2 DEF EndPhase
  <2> QED
    BY <1>1, <2>2, <2>3, <2>4
    DEF Next, Coordinator, Environment, Cancel, Expire, BuildGraph, EnterFinally, Report,
        Returned, vars
<1>2. IInv /\ [Next]_vars =>
        [\A a \in Action : status[a] \in Settled => status'[a] = status[a]]_vars
  BY <1>1
<1> QED
  BY <1>2, Invariance, PTL DEF Spec, RecordsAreFinal

-----------------------------------------------------------------------------
(* Every step of the executor is a step of DagRun, or none. *)

\* A run that has reported waits for no goroutine.
FinalInv == final # "none" => stage # "wait"

LEMMA NextFinalInv == IInv /\ FinalInv /\ [Next]_vars => FinalInv'
<1> SUFFICES ASSUME IInv, FinalInv, [Next]_vars PROVE FinalInv'
  OBVIOUS
<1>1. CASE \E a \in Action : Goroutine(a)
  BY <1>1 DEF Goroutine, AcquireSlot, CancelAtSemaphore, SkipAction, FailPreparation,
     MarkRunning, RetryLoop, RetryDelay, ProviderReturns, TimeOut, Fail, Succeed, Return,
     CallProvider, coordinator, FinalInv
<1>2. CASE Coordinator \/ Environment
  BY <1>2 DEF Coordinator, Environment, Cancel, Expire, BuildGraph, StartPhase, AbandonSection,
     EndPhase, EnterFinally, Report, SectionDone, coordinator, FinalInv, IInv, NotBegunInv
<1> QED
  BY <1>1, <1>2 DEF Next, Returned, vars, FinalInv

\* What the abstract state of an action says about the concrete one.
LEMMA AbstractState ==
  ASSUME IInv, NEW a \in Action
  PROVE  /\ pc[a] \in Holding <=> DagState[a] = "active"
         /\ DagState[a] = "active" => Live(a)
         /\ Live(a) /\ pc[a] \notin Holding => DagState[a] = "waiting"
         /\ status[a] \in Good => DagState[a] = "passing"
         /\ ~Live(a) /\ status[a] = "none" => DagState[a] = "waiting"
BY DEF DagState, IInv, LiveInv, Live, Good, Holding, UnderTimeout, Settled, SkipReason, FailStatus

\* A goroutine that acquires a slot starts its action.
LEMMA StartRefines ==
  ASSUME IInv, FinalInv, NEW a \in Action, AcquireSlot(a)
  PROVE  Dag!Start(a)
<1>1. Live(a) /\ stage = "wait" /\ a \in Current /\ section \in Section
      /\ phase \in DOMAIN Order[section] /\ final = "none"
  BY Phases DEF AcquireSlot, IInv, LiveInv, Live, FinalInv, WaitInv, TypeOK, LastPhase
<1>2. DagState[a] = "waiting"
  BY <1>1, AbstractState DEF AcquireSlot, Holding, UnderTimeout
<1>3. \A d \in Deps[a] : DagState[d] = "passing"
  BY <1>1, AbstractState, DepsAssumption DEF IInv, LiveInv
<1>4. Current \subseteq ActionsOf(section) /\ ActionsOf(section) \subseteq Action
  BY <1>1, Phases DEF Current
<1>5. IF a \in ActionsOf("finally")
      THEN \A b \in Action \ ActionsOf("finally") : DagState[b] # "active"
      ELSE \A b \in ActionsOf("finally") : DagState[b] = "waiting"
  <2>1. CASE a \in ActionsOf("finally")
    <3>1. section = "finally"
      BY <1>1, <1>4, <2>1, OrderAssumption DEF Section
    <3> QED
      BY <1>4, <2>1, <3>1, AbstractState DEF IInv, LiveInv
  <2>2. CASE a \notin ActionsOf("finally")
    <3>1. section # "finally"
      BY <1>1, <1>4, <2>2
    <3>2. ActionsOf("finally") \subseteq Action
      BY Phases DEF Section
    <3> QED
      BY <2>2, <3>1, <3>2, AbstractState DEF IInv, NotBegunInv, Untouched, Live
  <2> QED
    BY <2>1, <2>2
<1>6. DagState' = [DagState EXCEPT ![a] = "active"]
  BY DEF DagState, AcquireSlot, Holding, IInv, TypeOK
<1> QED
  BY <1>1, <1>2, <1>3, <1>5, <1>6 DEF Dag!Start, AcquireSlot, coordinator

\* A goroutine that returns from executeAction finishes its action.
LEMMA FinishRefines ==
  ASSUME IInv, NEW a \in Action, pc[a] \in Holding, NEW st \in Settled, NEW sends,
         Return(a, st, sends)
  PROVE  Dag!Finish(a)
<1>1. DagState[a] = "active"
  BY AbstractState
<1>2. \E o \in {"passing", "blocking"} : DagState' = [DagState EXCEPT ![a] = o]
  <2>1. CASE st \in FailStatus \cup {"cancelled"}
    <3>1. DagState' = [DagState EXCEPT ![a] = "blocking"]
      BY <2>1 DEF DagState, Return, IInv, TypeOK, Holding, UnderTimeout
    <3> QED
      BY <3>1
  <2>2. CASE st \notin FailStatus \cup {"cancelled"}
    <3>1. DagState' = [DagState EXCEPT ![a] = "passing"]
      BY <2>2 DEF DagState, Return, IInv, TypeOK, Holding, UnderTimeout, Settled
    <3> QED
      BY <3>1
  <2> QED
    BY <2>1, <2>2
<1> QED
  BY <1>1, <1>2 DEF Dag!Finish, Dag!Over, Return

\* Actions marked without having run are dropped.
LEMMA DropRefines ==
  ASSUME IInv, final = "none", UNCHANGED final, NEW S \in SUBSET Action,
         NEW st \in {"dependency-failed", "cancelled"},
         \A b \in S : status[b] \in {"none", "running"} /\ pc[b] \notin Holding /\ pc'[b] \notin Holding,
         \A b \in Action \ S : pc'[b] \in Holding <=> pc[b] \in Holding,
         status' = [b \in Action |-> IF b \in S THEN st ELSE status[b]]
  PROVE  Dag!Drop(S)
<1>1. \A b \in S : DagState[b] = "waiting"
  BY DEF DagState, FailStatus, SkipReason
<1>2. \E o \in {"passing", "blocking"} :
        DagState' = [b \in Action |-> IF b \in S THEN o ELSE DagState[b]]
  <2>1. CASE st = "cancelled"
    <3>1. DagState' = [b \in Action |-> IF b \in S THEN "blocking" ELSE DagState[b]]
      BY <2>1 DEF DagState
    <3> QED
      BY <3>1
  <2>2. CASE st = "dependency-failed"
    <3>1. DagState' = [b \in Action |-> IF b \in S THEN "passing" ELSE DagState[b]]
      BY <2>2 DEF DagState, FailStatus, SkipReason
    <3> QED
      BY <3>1
  <2> QED
    BY <2>1, <2>2
<1> QED
  BY <1>1, <1>2 DEF Dag!Drop, Dag!Over

LEMMA GoroutineRefines ==
  ASSUME IInv, FinalInv, NEW a \in Action, Goroutine(a)
  PROVE  [Dag!Next]_(Dag!vars)
<1>1. ASSUME pc[a] \in Holding, NEW st \in Settled, NEW sends, Return(a, st, sends)
      PROVE  Dag!Next
  BY <1>1, FinishRefines DEF Dag!Next
<1>2. CASE AcquireSlot(a)
  BY <1>2, StartRefines DEF Dag!Next
<1>3. CASE CancelAtSemaphore(a)
  <2>1. status[a] \in {"none", "running"} /\ stage = "wait" /\ final = "none"
    BY <1>3 DEF CancelAtSemaphore, IInv, LiveInv, Live, FinalInv
  <2>2. status' = [b \in Action |-> IF b \in {a} THEN "cancelled" ELSE status[b]]
    BY <1>3 DEF CancelAtSemaphore, IInv, TypeOK
  <2>3. /\ pc[a] \notin Holding /\ pc'[a] \notin Holding
        /\ \A b \in Action \ {a} : pc'[b] \in Holding <=> pc[b] \in Holding
    BY <1>3 DEF CancelAtSemaphore, IInv, TypeOK, Holding, UnderTimeout
  <2>4. Dag!Drop({a})
    BY <1>3, <2>1, <2>2, <2>3, DropRefines DEF CancelAtSemaphore
  <2> QED
    BY <2>4 DEF Dag!Next
<1>4. CASE SkipAction(a)
  BY <1>1, <1>4 DEF SkipAction, Holding, Settled, SkipReason
<1>5. CASE FailPreparation(a)
  BY <1>1, <1>5 DEF FailPreparation, Holding, Settled, FailStatus
<1>6. ASSUME NEW loc \in Holding, pc[a] \in Holding, pc' = [pc EXCEPT ![a] = loc],
             \A b \in Action \ {a} : status'[b] = status[b], UNCHANGED final
      PROVE  UNCHANGED Dag!vars
  <2>1. \A b \in Action : pc'[b] \in Holding <=> pc[b] \in Holding
    BY <1>6 DEF IInv, TypeOK
  <2>2. DagState' = DagState
    BY <1>6, <2>1 DEF DagState
  <2> QED
    BY <1>6, <2>2 DEF Dag!vars
<1>7. CASE MarkRunning(a)
  BY <1>6, <1>7 DEF MarkRunning, Holding, UnderTimeout, IInv, TypeOK
<1>8. CASE RetryLoop(a)
  BY <1>6, <1>8 DEF RetryLoop, CallProvider, Holding, UnderTimeout
<1>9. CASE RetryDelay(a)
  BY <1>6, <1>9 DEF RetryDelay, CallProvider, Holding, UnderTimeout
<1>10. CASE ProviderReturns(a)
  <2>1. PICK next \in {"ok", "err", "loop"} : pc' = [pc EXCEPT ![a] = next]
    BY <1>10 DEF ProviderReturns
  <2> QED
    BY <1>6, <1>10, <2>1 DEF ProviderReturns, Holding, UnderTimeout
<1>11. CASE TimeOut(a)
  BY <1>1, <1>11 DEF TimeOut, Holding, UnderTimeout, Settled, FailStatus
<1>12. CASE Fail(a)
  BY <1>1, <1>12 DEF Fail, Holding, UnderTimeout, Settled, FailStatus
<1>13. CASE Succeed(a)
  BY <1>1, <1>13 DEF Succeed, Holding, UnderTimeout, Settled
<1> QED
  BY <1>2, <1>3, <1>4, <1>5, <1>7, <1>8, <1>9, <1>10, <1>11, <1>12, <1>13 DEF Goroutine

\* While no goroutine is alive, none holds a slot.
LEMMA IdleHolding ==
  ASSUME IInv, NEW a \in Action, stage # "wait" \/ a \notin Current
  PROVE  pc[a] \notin Holding
BY Idle DEF Holding, UnderTimeout

LEMMA CoordinatorRefines ==
  ASSUME IInv, FinalInv, Coordinator \/ Environment
  PROVE  [Dag!Next]_(Dag!vars)
<1>1. ASSUME UNCHANGED <<pc, status, final>> PROVE UNCHANGED Dag!vars
  BY <1>1 DEF Dag!vars, DagState
<1>2. CASE Environment \/ EnterFinally
  BY <1>1, <1>2 DEF Environment, Cancel, Expire, EnterFinally
<1>3. ASSUME stage # "wait", final = "none", final' # "none", UNCHANGED <<pc, status>>
      PROVE  Dag!Next
  <2>1. \A a \in Action : DagState[a] # "active"
    BY <1>3, IdleHolding, AbstractState
  <2>2. DagState' = DagState
    BY <1>3 DEF DagState
  <2> QED
    BY <1>3, <2>1, <2>2 DEF Dag!Next, Dag!Report
<1>4. CASE BuildGraph
  BY <1>1, <1>3, <1>4 DEF BuildGraph, IInv, NotBegunInv
<1>5. CASE Report
  <2>1. determineFinalStatus # "none"
    BY DEF determineFinalStatus
  <2> QED
    BY <1>3, <1>5, <2>1 DEF Report, SectionDone
<1>6. CASE StartPhase \/ AbandonSection
  <2>1. /\ section \in Section /\ stage = "top" /\ final = "none" /\ final' = final
        /\ phase \in DOMAIN Order[section] /\ Current \subseteq Action
    BY <1>6, Phases DEF StartPhase, AbandonSection, IInv, TypeOK, LastPhase, Current
  <2>2. \A a \in Current : status[a] = "none"
    BY <2>1 DEF Current, IInv, SectionInv, PhaseInv
  <2>3. \A a \in Action : pc[a] \notin Holding /\ pc'[a] \notin Holding
    BY <1>6, <2>1, IdleHolding DEF StartPhase, AbandonSection, Holding, UnderTimeout
  <2>4. CASE StartPhase
    <3> DEFINE S == {a \in Current : DependencyFailed(a)}
    <3>1. status' = [b \in Action |-> IF b \in S THEN "dependency-failed" ELSE status[b]]
      BY <2>4 DEF StartPhase
    <3>2. S \in SUBSET Action /\ \A b \in S : status[b] = "none"
      BY <2>1, <2>2
    <3>3. Dag!Drop(S)
      BY <2>1, <2>3, <3>1, <3>2, DropRefines
    <3> QED
      BY <3>2, <3>3 DEF Dag!Next
  <2>5. CASE AbandonSection
    <3>1. Dag!Drop(Current)
      BY <2>1, <2>2, <2>3, <2>5, DropRefines DEF AbandonSection
    <3> QED
      BY <2>1, <3>1 DEF Dag!Next
  <2> QED
    BY <1>6, <2>4, <2>5
<1>7. CASE EndPhase
  <2>1. /\ section \in Section /\ stage = "wait" /\ final = "none" /\ final' = final /\ pc' = pc
        /\ phase \in Nat
    BY <1>7 DEF EndPhase, IInv, TypeOK, FinalInv
  <2>2. CASE status' = status
    BY <1>1, <2>1, <2>2
  <2>3. CASE status' = [a \in Action |-> IF a \in LaterActions THEN "dependency-failed"
                                         ELSE status[a]]
    <3>1. /\ LaterActions \in SUBSET Action
          /\ \A b \in LaterActions : status[b] = "none" /\ pc[b] = "none"
      BY <2>1, Phases DEF LaterActions, LastPhase, IInv, SectionInv, PhaseInv
    <3>2. Dag!Drop(LaterActions)
      BY <2>1, <2>3, <3>1, DropRefines DEF Holding, UnderTimeout
    <3> QED
      BY <3>1, <3>2 DEF Dag!Next
  <2> QED
    BY <1>7, <2>2, <2>3 DEF EndPhase
<1> QED
  BY <1>2, <1>4, <1>5, <1>6, <1>7 DEF Coordinator

\* The executor implements the safety part of DagRun: its initial state maps to
\* the initial state, and each of its steps to a step or to none.
THEOREM DagRefinement == Spec => Dag!Init /\ [][Dag!Next]_(Dag!vars)
<1>1. Init => Dag!Init
  BY DEF Init, Dag!Init, DagState, Holding, UnderTimeout, FailStatus, SkipReason
<1>2. Init => FinalInv
  BY DEF Init, FinalInv
<1>3. IInv /\ FinalInv /\ [Next]_vars => [Dag!Next]_(Dag!vars)
  <2> SUFFICES ASSUME IInv, FinalInv, [Next]_vars PROVE [Dag!Next]_(Dag!vars)
    OBVIOUS
  <2>1. CASE UNCHANGED vars
    BY <2>1 DEF vars, Dag!vars, DagState
  <2> QED
    BY <2>1, GoroutineRefines, CoordinatorRefines DEF Next, Returned
<1> QED
  BY <1>1, <1>2, <1>3, InitIInv, NextIInv, NextFinalInv, PTL DEF Spec

-----------------------------------------------------------------------------
(* Reports: what a run says of its actions when it returns. *)

\* Every action of the section has a record of an end that is no cancellation.
Accounted(s) == \A a \in ActionsOf(s) : status[a] \in Settled \ {"cancelled"}

\* Every failure in the section is one that may be continued.
Continued(s) ==
  \A a \in ActionsOf(s) : status[a] \in FailStatus => MayContinue(a, status[a])

\* A section that was left early has an error, and unless the run was cancelled
\* its other actions were marked.
EndInv ==
  stage = "end" =>
    /\ section \in Section /\ sectionErr[section]
    /\ ctx = "live" => Accounted(section)

\* What main has left when finally is entered.
MainOverInv ==
  section = "finally" =>
    /\ ctx = "live" => Accounted("main")
    /\ ~sectionErr["main"] => Continued("main")

\* A dependency-failed record is owed to a failure.
BlameInv == \A a \in Action : status[a] = "dependency-failed" => FailedActions # {}

\* Nothing is reported between the two sections.
ReportedInv == final # "none" /\ section = "main" => Order["finally"] = <<>>

Reports == AccountsForAll /\ SuccessIsComplete /\ PartialMeansMainCompleted

ReportInv ==
  FinalInv /\ ReportedInv /\ EndInv /\ MainOverInv /\ BlameInv /\ Reports

-----------------------------------------------------------------------------

LEMMA InitReportInv == Init => ReportInv
BY DEF Init, ReportInv, FinalInv, ReportedInv, EndInv, MainOverInv, BlameInv, Reports, AccountsForAll,
       SuccessIsComplete, PartialMeansMainCompleted

\* What a step of a goroutine does to the records.
LEMMA GoroutineMarks ==
  ASSUME IInv, NEW a \in Action, Goroutine(a)
  PROVE  /\ Live(a) /\ UNCHANGED <<ctx, coordinator, final>>
         /\ \A b \in Action \ {a} : status'[b] = status[b]
         /\ status'[a] # "dependency-failed"
<1>1. Live(a)
  BY DEF Goroutine, AcquireSlot, CancelAtSemaphore, SkipAction, FailPreparation, MarkRunning,
         RetryLoop, RetryDelay, ProviderReturns, TimeOut, Fail, Succeed, Live
<1>2. status[a] # "dependency-failed"
  BY <1>1 DEF IInv, LiveInv
<1>3. ASSUME NEW st \in Settled \ {"dependency-failed"}, NEW sends, Return(a, st, sends)
      PROVE  /\ UNCHANGED <<ctx, coordinator, final>>
             /\ \A b \in Action \ {a} : status'[b] = status[b]
             /\ status'[a] # "dependency-failed"
  BY <1>3 DEF Return, IInv, TypeOK
<1>4. CASE SkipAction(a) \/ FailPreparation(a) \/ TimeOut(a) \/ Fail(a) \/ Succeed(a)
  BY <1>1, <1>3, <1>4 DEF SkipAction, FailPreparation, TimeOut, Fail, Succeed, Settled,
                          SkipReason, FailStatus
<1>5. CASE CancelAtSemaphore(a) \/ MarkRunning(a)
  BY <1>1, <1>5 DEF CancelAtSemaphore, MarkRunning, IInv, TypeOK
<1>6. CASE AcquireSlot(a) \/ RetryLoop(a) \/ RetryDelay(a) \/ ProviderReturns(a)
  BY <1>1, <1>2, <1>6 DEF AcquireSlot, RetryLoop, RetryDelay, ProviderReturns
<1> QED
  BY <1>1, <1>4, <1>5, <1>6 DEF Goroutine

\* Once a run has reported nothing that the report is about changes.
LEMMA ReportStays ==
  ASSUME IInv, FinalInv, ReportedInv, [Next]_vars, final # "none"
  PROVE  UNCHANGED <<final, ctx, section, status>>
<1>1. stage # "wait"
  BY DEF FinalInv
<1>2. \A a \in Action : ~Goroutine(a)
  BY <1>1, GoroutineMarks DEF IInv, LiveInv
<1>3. CASE Coordinator \/ Environment
  BY <1>1, <1>3 DEF Coordinator, BuildGraph, StartPhase, AbandonSection, EndPhase, EnterFinally,
                    SectionDone, Report, Environment, Cancel, Expire, coordinator, ReportedInv
<1>. QED  BY <1>2, <1>3 DEF Next, Returned, vars, coordinator

\* A section that is done is accounted for, unless the run was cancelled, and
\* its failures were continued, unless it has an error.
LEMMA SectionOver ==
  ASSUME IInv, EndInv, SectionDone
  PROVE  /\ ctx = "live" => Accounted(section)
         /\ ~sectionErr[section] => Continued(section)
<1>1. CASE stage = "end"
  BY <1>1 DEF EndInv
<1>2. CASE stage = "top" /\ phase > LastPhase
  <2>1. section \in Section /\ ctx = "live" => SectionCtx = "live"
    BY DEF SectionDone, SectionCtx
  <2>2. ASSUME NEW a \in ActionsOf(section)
        PROVE  \E i \in DOMAIN Order[section] : PhaseInv(i, a) /\ i < phase /\ ~(i >= phase)
    <3>1. PICK i \in DOMAIN Order[section] : a \in Order[section][i]
      BY Phases DEF SectionDone
    <3>2. PhaseInv(i, a)
      BY <3>1 DEF SectionDone, IInv, SectionInv
    <3>3. i \in Nat /\ phase \in Nat /\ i <= Len(Order[section])
      BY Phases DEF SectionDone, IInv, TypeOK
    <3>4. i < phase /\ ~(i >= phase)
      BY <1>2, <3>3 DEF LastPhase
    <3>. QED  BY <3>2, <3>4
  <2>. QED  BY <2>1, <2>2 DEF SectionDone, PhaseInv, Accounted, Continued
<1>. QED  BY <1>1, <1>2 DEF SectionDone

\* The steps of goroutines.
LEMMA GoroutineReport ==
  ASSUME IInv, ReportInv, NEW a \in Action, Goroutine(a)
  PROVE  EndInv' /\ MainOverInv' /\ BlameInv' /\ Reports'
<1>1. /\ stage = "wait" /\ section \in Section /\ a \in ActionsOf(section)
      /\ status[a] \in {"none", "running"} /\ final = "none"
  BY GoroutineMarks, Phases DEF IInv, LiveInv, WaitInv, Current, LastPhase, TypeOK, ReportInv,
                                FinalInv
<1>2. section = "finally" => a \notin ActionsOf("main")
  BY <1>1, OrderAssumption
<1>3. FailedActions \subseteq FailedActions'
  BY <1>1, GoroutineMarks DEF FailedActions, FailStatus
<1>4. EndInv' /\ Reports'
  BY <1>1, GoroutineMarks DEF coordinator, EndInv, Reports, AccountsForAll, SuccessIsComplete,
                              PartialMeansMainCompleted
<1>5. MainOverInv'
  <2>1. section = "finally" => \A b \in ActionsOf("main") : b \in Action /\ status'[b] = status[b]
    BY <1>2, GoroutineMarks, Phases DEF Section
  <2>. QED
    BY <2>1, GoroutineMarks DEF coordinator, ReportInv, MainOverInv, Accounted, Continued
<1>6. BlameInv'
  BY <1>3, GoroutineMarks DEF ReportInv, BlameInv
<1>. QED  BY <1>4, <1>5, <1>6

\* The steps that start, end and leave a phase.
LEMMA PhaseReport ==
  ASSUME IInv, ReportInv, StartPhase \/ AbandonSection \/ EndPhase
  PROVE  EndInv' /\ MainOverInv' /\ BlameInv' /\ Reports'
<1>1. /\ section \in Section /\ final = "none" /\ final' = final
      /\ UNCHANGED <<section, ctx, detached>>
      /\ phase \in DOMAIN Order[section] /\ phase \in Nat
      /\ Current \subseteq Action /\ Current \subseteq ActionsOf(section)
  BY Phases DEF StartPhase, AbandonSection, EndPhase, IInv, TypeOK, WaitInv, LastPhase, Current,
                ReportInv, FinalInv
<1>2. Reports'
  BY <1>1 DEF Reports, AccountsForAll, SuccessIsComplete, PartialMeansMainCompleted
<1>3. LaterActions \subseteq ActionsOf(section)
  BY <1>1, Phases DEF LaterActions, LastPhase
<1>4. section = "finally" =>
        \A a \in ActionsOf("main") : a \in Action /\ a \notin Current /\ a \notin LaterActions
  BY <1>1, <1>3, OrderAssumption, Phases DEF Section
<1>5. MainOverInv'
  <2>1. section = "finally" => \A a \in ActionsOf("main") : status'[a] = status[a]
    BY <1>4 DEF StartPhase, AbandonSection, EndPhase
  <2>2. section = "finally" => sectionErr'["main"] = sectionErr["main"]
    BY <1>1 DEF StartPhase, AbandonSection, EndPhase, IInv, TypeOK, Section
  <2>. QED  BY <1>1, <2>1, <2>2 DEF ReportInv, MainOverInv, Accounted, Continued
<1>6. \A a \in Current \cup LaterActions : stage = "top" \/ a \in LaterActions \ Current
        => status[a] \notin FailStatus
  <2>1. \A a \in Current : stage = "top" => status[a] \notin FailStatus
    BY <1>1 DEF Current, IInv, SectionInv, PhaseInv
  <2>2. \A a \in LaterActions : status[a] \notin FailStatus
    BY <1>1, Phases DEF LaterActions, LastPhase, IInv, SectionInv, PhaseInv
  <2>. QED  BY <2>1, <2>2
<1>7. CASE StartPhase
  <2>1. EndInv'
    BY <1>7 DEF StartPhase, EndInv
  <2>2. FailedActions \subseteq FailedActions'
    BY <1>6, <1>7 DEF StartPhase, FailedActions
  <2>3. \A a \in Current : DependencyFailed(a) => FailedActions # {}
    BY <1>1, DepsAssumption DEF DependencyFailed, FailedActions
  <2>4. BlameInv'
    BY <1>7, <2>2, <2>3 DEF StartPhase, ReportInv, BlameInv
  <2>. QED  BY <1>2, <1>5, <2>1, <2>4
<1>8. CASE AbandonSection
  <2>1. ctx # "live" /\ ctx' = ctx
    BY <1>8 DEF AbandonSection, SectionCtx
  <2>2. EndInv'
    BY <1>1, <1>8, <2>1 DEF AbandonSection, EndInv, IInv, TypeOK
  <2>3. FailedActions \subseteq FailedActions'
    BY <1>6, <1>8 DEF AbandonSection, FailedActions
  <2>4. BlameInv'
    BY <1>8, <2>3 DEF AbandonSection, ReportInv, BlameInv
  <2>. QED  BY <1>2, <1>5, <2>2, <2>4
<1>9. CASE EndPhase
  <2>1. \A a \in Action : ~Live(a)
    BY <1>1, <1>9 DEF EndPhase, IInv, LiveInv, Live
  <2>2. CASE errs = {} \/ AllContinue
    BY <1>2, <1>5, <1>9, <2>2 DEF EndPhase, EndInv, ReportInv, BlameInv, FailedActions
  <2>3. CASE ~(errs = {} \/ AllContinue)
    <3>1. /\ stage' = "end" /\ sectionErr'[section] /\ phase' = phase
          /\ \A a \in Action : status'[a] = IF a \in LaterActions THEN "dependency-failed"
                                            ELSE status[a]
      BY <1>1, <1>9, <2>3 DEF EndPhase, IInv, TypeOK
    <3>2. \A i \in DOMAIN Order[section] : \A a \in Order[section][i] :
            PhaseInv(i, a) /\ a \in Action /\ i \in Nat
      BY <1>1, Phases DEF IInv, SectionInv
    <3>3. ctx = "live" => Accounted(section)'
      <4> SUFFICES ASSUME ctx = "live", NEW a \in ActionsOf(section)
                   PROVE  status'[a] \in Settled \ {"cancelled"}
        BY <1>1 DEF Accounted
      <4>1. PICK i \in DOMAIN Order[section] : a \in Order[section][i]
        BY <1>1, Phases
      <4>2. CASE i > phase
        <5>1. a \in LaterActions
          BY <1>1, <4>1, <4>2, Phases DEF LaterActions, LastPhase
        <5>. QED  BY <3>1, <3>2, <4>1, <5>1 DEF Settled, SkipReason
      <4>3. CASE ~(i > phase)
        <5>1. status[a] \in Settled
          BY <1>1, <1>9, <2>1, <3>2, <4>1, <4>3 DEF PhaseInv, EndPhase
        <5>2. status[a] # "cancelled"
          BY <3>2, <4>1 DEF PhaseInv, SectionCtx
        <5>. QED  BY <3>1, <3>2, <4>1, <5>1, <5>2 DEF Settled, SkipReason
      <4>. QED  BY <4>2, <4>3
    <3>4. EndInv'
      BY <1>1, <3>1, <3>3 DEF EndInv
    <3>5. FailedActions' # {}
      <4>1. PICK a \in Current : status[a] \in FailStatus
        BY <2>3 DEF AllContinue
      <4>2. a \notin LaterActions
        BY <1>1, <4>1, Phases, OrderAssumption DEF LaterActions, LastPhase, Current
      <4>. QED  BY <1>1, <3>1, <4>1, <4>2 DEF FailedActions
    <3>. QED  BY <1>2, <1>5, <3>4, <3>5 DEF BlameInv
  <2>. QED  BY <2>2, <2>3
<1>. QED  BY <1>7, <1>8, <1>9

\* The report itself.
LEMMA ReportIsTrue ==
  ASSUME IInv, ReportInv, Report
  PROVE  Reports'
<1>1. /\ SectionDone /\ section \in Section /\ final' = determineFinalStatus
      /\ UNCHANGED <<ctx, section, status>>
  BY DEF Report, coordinator, SectionDone
<1>2. /\ ctx = "live" => Accounted(section)
      /\ ~sectionErr[section] => Continued(section)
  BY <1>1, SectionOver DEF ReportInv
<1>3. CASE section = "finally"
  <2>1. ctx = "live" => \A s \in Section : Accounted(s)
    BY <1>2, <1>3 DEF ReportInv, MainOverInv, Section
  <2>2. ~sectionErr["main"] => Continued("main")
    BY <1>3 DEF ReportInv, MainOverInv
  <2>. QED
    <3>1. AccountsForAll'
      BY <1>1, <2>1 DEF AccountsForAll, Accounted
    <3>2. SuccessIsComplete'
      BY <1>1, <2>1, Phases DEF SuccessIsComplete, determineFinalStatus, Accounted, FailedActions,
             Settled, SkipReason, FailStatus, ReportInv, BlameInv
    <3>3. PartialMeansMainCompleted'
      BY <1>1, <2>1, <2>2 DEF PartialMeansMainCompleted, determineFinalStatus, Accounted,
             Continued, FailedActions, Section
    <3>. QED  BY <3>1, <3>2, <3>3 DEF Reports
<1>4. CASE section = "main" /\ Order["finally"] = <<>>
  <2>1. ActionsOf("finally") = {}
    BY <1>4, Phases DEF Section
  <2>2. ctx = "live" => \A s \in Section : Accounted(s)
    BY <1>2, <1>4, <2>1 DEF Section, Accounted
  <2>. QED
    <3>1. AccountsForAll'
      BY <1>1, <2>2 DEF AccountsForAll, Accounted
    <3>2. SuccessIsComplete'
      BY <1>1, <2>2, Phases DEF SuccessIsComplete, determineFinalStatus, Accounted, FailedActions,
             Settled, SkipReason, FailStatus, ReportInv, BlameInv
    <3>3. PartialMeansMainCompleted'
      BY <1>1, <1>2, <1>4, <2>2 DEF PartialMeansMainCompleted, determineFinalStatus, Accounted,
             Continued, FailedActions, Section
    <3>. QED  BY <3>1, <3>2, <3>3 DEF Reports
<1>. QED  BY <1>1, <1>3, <1>4 DEF Report, Section

\* ReportInv is inductive, beside IInv.
LEMMA NextReportInv == IInv /\ ReportInv /\ [Next]_vars => ReportInv'
<1> SUFFICES ASSUME IInv, ReportInv, [Next]_vars PROVE ReportInv'
  OBVIOUS
<1>0. ReportedInv'
  <2>1. CASE final # "none"
    BY <2>1, ReportStays DEF ReportInv, ReportedInv
  <2>2. CASE final = "none"
    <3>1. CASE \E a \in Action : Goroutine(a)
      BY <2>2, <3>1, GoroutineMarks DEF ReportedInv
    <3>2. CASE Coordinator \/ Environment
      BY <2>2, <3>2
      DEF Coordinator, BuildGraph, StartPhase, AbandonSection, EndPhase, EnterFinally, Report,
          Environment, Cancel, Expire, coordinator, ReportedInv
    <3>3. CASE UNCHANGED vars
      BY <2>2, <3>3 DEF vars, ReportedInv
    <3>. QED  BY <3>1, <3>2, <3>3 DEF Next, Returned, ReportedInv
  <2>. QED  BY <2>1, <2>2
<1>1. FinalInv' /\ ReportedInv'
  BY <1>0, NextFinalInv DEF ReportInv
<1>2. CASE \E a \in Action : Goroutine(a)
  BY <1>1, <1>2, GoroutineReport DEF ReportInv
<1>3. CASE StartPhase \/ AbandonSection \/ EndPhase
  BY <1>1, <1>3, PhaseReport DEF ReportInv
<1>4. CASE BuildGraph
  <2>1. section' # "finally" /\ stage' # "end" /\ status' = status /\ ctx' = ctx
    BY <1>4 DEF BuildGraph, IInv, NotBegunInv
  <2>2. Reports'
    BY <1>4 DEF BuildGraph, Reports, AccountsForAll, SuccessIsComplete,
                PartialMeansMainCompleted, Section
  <2>. QED
    BY <1>1, <2>1, <2>2 DEF ReportInv, EndInv, MainOverInv, BlameInv, FailedActions
<1>5. CASE EnterFinally
  <2>1. /\ section = "main" /\ SectionDone /\ section' = "finally" /\ stage' = "top"
        /\ UNCHANGED <<ctx, sectionErr, status, final>>
    BY <1>5 DEF EnterFinally
  <2>2. MainOverInv'
    BY <2>1, SectionOver DEF ReportInv, MainOverInv, Accounted, Continued
  <2>3. Reports'
    <3>1. CASE final # "none"
      BY <2>1, <3>1, ReportStays DEF ReportInv
    <3>2. CASE final = "none"
      BY <2>1, <3>2 DEF Reports, AccountsForAll, SuccessIsComplete, PartialMeansMainCompleted
    <3>. QED  BY <3>1, <3>2
  <2>. QED
    BY <1>1, <2>1, <2>2, <2>3 DEF ReportInv, EndInv, BlameInv, FailedActions
<1>6. CASE Report
  BY <1>1, <1>6, ReportIsTrue
  DEF Report, coordinator, ReportInv, EndInv, MainOverInv, BlameInv, FailedActions, Accounted,
      Continued
<1>7. CASE Environment
  <2>1. /\ UNCHANGED <<coordinator, status, final>>
        /\ ctx' = "live" => ctx = "live"
        /\ final # "none" => ctx' = ctx
    BY <1>7 DEF Environment, Cancel, Expire
  <2>. QED
    BY <1>1, <2>1 DEF coordinator, ReportInv, EndInv, MainOverInv, BlameInv, FailedActions,
       Accounted, Continued, Reports, AccountsForAll, SuccessIsComplete, PartialMeansMainCompleted
<1>8. CASE UNCHANGED vars
  BY <1>1, <1>8 DEF vars, ReportInv, EndInv, MainOverInv, BlameInv, FailedActions, Accounted,
       Continued, Reports, AccountsForAll, SuccessIsComplete, PartialMeansMainCompleted
<1>. QED
  BY <1>2, <1>3, <1>4, <1>5, <1>6, <1>7, <1>8 DEF Next, Coordinator, Returned

\* What the coordinator knows when it reports agrees with the records of both
\* sections, whatever was cancelled, failed or left early before.
THEOREM ReportInvariance == Spec => []ReportInv
BY InitIInv, NextIInv, InitReportInv, NextReportInv, PTL DEF Spec

\* The report of a run that was not cancelled loses no action of any workflow.
THEOREM AccountsHold == Spec => []AccountsForAll
<1>1. ReportInv => AccountsForAll
  BY DEF ReportInv, Reports
<1>. QED  BY <1>1, ReportInvariance, PTL

\* "succeeded" is reported only when every action of both sections succeeded or
\* was skipped by its own condition or fingerprint.
THEOREM SuccessHolds == Spec => []SuccessIsComplete
<1>1. ReportInv => SuccessIsComplete
  BY DEF ReportInv, Reports
<1>. QED  BY <1>1, ReportInvariance, PTL

\* "partial-success" is reported only when main ran to its end and each of its
\* failures was one that may be continued.
THEOREM PartialHolds == Spec => []PartialMeansMainCompleted
<1>1. ReportInv => PartialMeansMainCompleted
  BY DEF ReportInv, Reports
<1>. QED  BY <1>1, ReportInvariance, PTL

-----------------------------------------------------------------------------
(* Composition: the executor on the graph that BuildGraph gives it. *)

\* Every order that BuildGraph makes of two sections satisfies what the executor
\* assumes of it (OrderAssumption and DepsAssumption): disjoint phases, shared by
\* no two sections, each after all that its actions depend on.
THEOREM GraphFitsExecutor ==
  ASSUME NEW w,
         \A s \in Section : WellFormed(w[s]) /\ ~CycleDetected(Dependencies(w[s])),
         w["main"].expansion = w["finally"].expansion,
         w["main"].bases \cap w["finally"].bases = {}
  PROVE  /\ \A s \in Section :
              LET order == SectionOrder(w[s])
              IN /\ order \in Seq(SUBSET Names(w[s]))
                 /\ UNION {order[i] : i \in DOMAIN order} = Names(w[s])
                 /\ \A i, j \in DOMAIN order : i # j => order[i] \cap order[j] = {}
                 /\ \A i \in DOMAIN order : \A a \in order[i] :
                      \A d \in Dependencies(w[s])[a] : \E j \in DOMAIN order : j < i /\ d \in order[j]
         /\ Names(w["main"]) \cap Names(w["finally"]) = {}
<1>1. ASSUME NEW s \in Section
      PROVE  LET order == SectionOrder(w[s])
             IN /\ order \in Seq(SUBSET Names(w[s]))
                /\ UNION {order[i] : i \in DOMAIN order} = Names(w[s])
                /\ \A i, j \in DOMAIN order : i # j => order[i] \cap order[j] = {}
                /\ \A i \in DOMAIN order : \A a \in order[i] :
                     \A d \in Dependencies(w[s])[a] : \E j \in DOMAIN order : j < i /\ d \in order[j]
  <2>. DEFINE deps == Dependencies(w[s])
              excl == ExpandedExclusive(w[s])
              order == SplitPhases(ExecutionPhases(deps), excl)
              At(n) == {i \in DOMAIN order : n \in order[i]}
  <2>1. /\ DOMAIN deps = Names(w[s]) /\ Names(w[s]) \subseteq Nat
        /\ IsGraph(deps) /\ ~CycleDetected(deps)
    BY SectionGraph
  <2>2. SectionOrder(w[s]) = order
    BY Zenon DEF SectionOrder
  <2>. HIDE DEF deps, excl
  <2>3. order \in Seq(SUBSET DOMAIN deps)
    BY <2>1, Placing
  <2>4. \A n \in DOMAIN deps : Cardinality(At(n)) = 1
    BY <2>1, OrderComplete
  <2>5. \A i \in DOMAIN order : \A n \in order[i] : deps[n] \subseteq Earlier(order, i)
    BY <2>1, OrderSeparates
  <2>. HIDE DEF order
  <2>6. DOMAIN order = 1..Len(order) /\ Len(order) \in Nat
    BY <2>3
  <2>7. ASSUME NEW n \in DOMAIN deps
        PROVE  \E i \in DOMAIN order : At(n) = {i}
    <3>1. IsFiniteSet(At(n))
      <4>1. At(n) \in SUBSET (1..Len(order))
        BY <2>6
      <4>2. IsFiniteSet(1..Len(order))
        BY <2>6, FS_Interval
      <4>. HIDE DEF At
      <4>. QED  BY <4>1, <4>2, FS_Subset
    <3>. HIDE DEF At
    <3>2. PICK i : At(n) = {i}
      BY <2>4, <3>1, FS_Singleton
    <3>3. i \in DOMAIN order
      BY <3>2 DEF At
    <3>. QED  BY <3>2, <3>3
  <2>8. UNION {order[i] : i \in DOMAIN order} = DOMAIN deps
    <3>1. \A i \in DOMAIN order : order[i] \subseteq DOMAIN deps
      BY <2>3
    <3>2. \A n \in DOMAIN deps : \E i \in DOMAIN order : n \in order[i]
      BY <2>7
    <3>. QED  BY <3>1, <3>2
  <2>9. ASSUME NEW i \in DOMAIN order, NEW j \in DOMAIN order, i # j
        PROVE  order[i] \cap order[j] = {}
    <3>1. ASSUME NEW n \in order[i] \cap order[j]
          PROVE  FALSE
      <4>1. n \in DOMAIN deps /\ i \in At(n) /\ j \in At(n)
        BY <2>3
      <4>. HIDE DEF At
      <4>. QED  BY <2>7, <2>9, <4>1
    <3>. QED  BY <3>1
  <2>10. ASSUME NEW i \in DOMAIN order, NEW a \in order[i], NEW d \in deps[a]
         PROVE  \E j \in DOMAIN order : j < i /\ d \in order[j]
    <3>1. PICK j \in 1..(i - 1) : d \in order[j]
      BY <2>5 DEF Earlier
    <3>2. j \in DOMAIN order /\ j < i
      BY <2>6, <3>1
    <3>. QED  BY <3>1, <3>2
  <2>. QED  BY <2>1, <2>2, <2>3, <2>8, <2>9, <2>10 DEF deps
<1>2. Names(w["main"]) \cap Names(w["finally"]) = {}
  <2>. DEFINE e == w["main"].expansion
  <2>1. /\ \A s \in Section : w[s].bases \subseteq DOMAIN e
        /\ \A b, c \in DOMAIN e : b # c => e[b] \cap e[c] = {}
        /\ w["finally"].expansion = e
    BY DEF WellFormed, Section
  <2>. HIDE DEF e
  <2>2. \A b \in w["main"].bases, c \in w["finally"].bases : e[b] \cap e[c] = {}
    BY <2>1 DEF Section
  <2>3. Names(w["main"]) = UNION {e[b] : b \in w["main"].bases}
    BY DEF Names, e
  <2>4. Names(w["finally"]) = UNION {e[b] : b \in w["finally"].bases}
    BY <2>1, Zenon DEF Names
  <2>. QED  BY <2>2, <2>3, <2>4
<1>. QED  BY <1>1, <1>2

\* Only goroutines of one sub-phase are at work, and BuildGraph put no two actions
\* into it that exclude each other.
LEMMA PhaseIsExclusive ==
  ASSUME IInv
  PROVE  ExclusiveNeverOverlap
<1>. SUFFICES ASSUME NEW s \in Section, NEW b \in Workflow[s].bases,
                     NEW n \in Holders \cap Workflow[s].expansion[b],
                     NEW x \in Workflow[s].exclusive[b],
                     NEW m \in Holders \cap Workflow[s].expansion[x], m # n
              PROVE  FALSE
  BY DEF ExclusiveNeverOverlap
<1>. DEFINE w == Workflow[s]
            deps == Dependencies(w)
            excl == ExpandedExclusive(w)
            order == SplitPhases(ExecutionPhases(deps), excl)
<1>1. /\ section \in Section /\ phase \in DOMAIN Order[section]
      /\ n \in Order[section][phase] /\ m \in Order[section][phase]
  <2>1. Live(n) /\ Live(m) /\ n \in Action /\ m \in Action
    BY DEF Holders, Holding, UnderTimeout, Live
  <2>2. stage = "wait" /\ n \in Current /\ m \in Current
    BY <2>1 DEF IInv, LiveInv
  <2>. QED  BY <2>2, Phases DEF IInv, WaitInv, TypeOK, Current, LastPhase
<1>2. WellFormed(w)
  BY WorkflowAssumption
<1>3. n \in Names(w) /\ BaseOf(w, n) = b
  BY <1>2, BaseOfIs
<1>4. section = s
  <2>1. /\ UNION {Order[section][i] : i \in DOMAIN Order[section]} = Names(Workflow[section])
        /\ Names(Workflow["main"]) \cap Names(Workflow["finally"]) = {}
    <3>. DEFINE o == SectionOrder(Workflow[section])
    <3>1. \A t \in Section : WellFormed(Workflow[t]) /\ ~CycleDetected(Dependencies(Workflow[t]))
      BY WorkflowAssumption, BuiltGraph
    <3>2. UNION {o[i] : i \in DOMAIN o} = Names(Workflow[section])
      BY <1>1, <3>1, WorkflowAssumption, GraphFitsExecutor
    <3>3. Names(Workflow["main"]) \cap Names(Workflow["finally"]) = {}
      BY <3>1, WorkflowAssumption, GraphFitsExecutor
    <3>4. Order[section] = o
      BY <1>1, BuiltGraph
    <3>. QED  BY <3>2, <3>3, <3>4, Zenon
  <2>2. n \in Names(Workflow[section])
    BY <1>1, <2>1
  <2>. QED  BY <1>1, <1>3, <2>1, <2>2 DEF Section
<1>5. Order[s] = order
  BY BuiltGraph, Zenon DEF SectionOrder
<1>6. IsGraph(deps) /\ DOMAIN deps \subseteq Nat
  BY <1>2, SectionGraph
<1>7. m \in excl[n]
  BY <1>3 DEF ExpandedExclusive
<1>. HIDE DEF deps, excl
<1>8. \A i \in DOMAIN order : \A a \in order[i] : \A c \in order[i] \ {a} : c \notin excl[a]
  BY <1>6, OrderSeparates
<1>. HIDE DEF order
<1>. QED  BY <1>1, <1>4, <1>5, <1>7, <1>8

\* Actions that exclude each other are never at work together: the sub-phases of
\* splitPhaseForExclusive and the barrier of executePhase see to it.
THEOREM ExclusionHolds == Spec => []ExclusiveNeverOverlap
BY Invariance, PhaseIsExclusive, PTL
=============================================================================
