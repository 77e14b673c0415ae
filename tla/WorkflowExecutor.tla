-------------------------- MODULE WorkflowExecutor --------------------------
(***************************************************************************)
(* The workflow executor of pkg/action/executor.go: Execute runs the main  *)
(* section phase by phase, then the finally section, and reports.  A phase *)
(* is a barrier: its actions run in one goroutine each, behind a semaphore *)
(* of maxConcurrency slots, and the next phase starts when all returned.   *)
(*                                                                         *)
(* The goroutine of an action (executeAction) is the program counter pc:   *)
(*   none - semaphore - prepare - loop - call - ok | err - returned        *)
(* with delay between a failed call and the next one.  The coordinator     *)
(* (Execute, executePhases, executePhase) is section, phase and stage.     *)
(* What a provider answers, what a condition evaluates to, whether inputs  *)
(* resolve and whether a result matches its schema are free choices.       *)
(***************************************************************************)
EXTENDS Naturals, Sequences, FiniteSets

CONSTANTS
  Action,         \* the expanded actions of the graph (forEach iterations included)
  Order,          \* Graph.ExecutionOrder and FinallyOrder: a sequence of phases per section
  Deps,           \* ExpandedAction.Dependencies: same-section actions an action waits for
  ContinueOn,     \* the errors after which an action's continueOnError lets the run go on
  MaxAttempts,    \* retry.maxAttempts of each action, 1 without retry configuration
  MaxConcurrency  \* WithMaxConcurrency: 0 is unlimited

Section == {"main", "finally"}

\* NewErrorContext: of an error it knows the type and code by, an HTTPError or an
\* ExitError, or of its message only.
ErrorKind == {"typed", "message"}

PhasesOf(s) == {Order[s][i] : i \in DOMAIN Order[s]}
ActionsOf(s) == UNION PhasesOf(s)

ASSUME OrderAssumption ==
  /\ Order \in [Section -> Seq(SUBSET Action)]
  /\ ActionsOf("main") \cap ActionsOf("finally") = {}
  /\ \A s \in Section : \A i, j \in DOMAIN Order[s] :
        i # j => Order[s][i] \cap Order[s][j] = {}

\* What computeExecutionPhases and splitPhasesForExclusive give (ActionGraph).
ASSUME DepsAssumption ==
  /\ Deps \in [Action -> SUBSET Action]
  /\ \A s \in Section : \A i \in DOMAIN Order[s] : \A a \in Order[s][i] :
        \A d \in Deps[a] : \E j \in DOMAIN Order[s] : j < i /\ d \in Order[s][j]

ASSUME PolicyAssumption ==
  /\ ContinueOn \in [Action -> SUBSET ErrorKind]
  /\ MaxAttempts \in [Action -> Nat \ {0}]
  /\ MaxConcurrency \in Nat

VARIABLES
  ctx,       \* the context of the run: live, or what its Err() is
  section,   \* "build" (BuildGraph), then the section executePhases works on
  phase,     \* index of the current phase in Order[section]
  stage,     \* "top" of the phase loop, "wait" in wg.Wait, "end" after an early return
  detached,  \* finallyCtx is context.Background()
  sectionErr,\* mainErr # nil and finallyErr # nil
  errs,      \* actions of the current phase whose goroutine sent to errChan
  status,    \* the action's record in actionContext; "none" before there is one
  pc,        \* where the goroutine of the action is
  actx,      \* Err() of the action's own context, live when it has none
  attempts,  \* provider calls made by ExecuteWithRetry, 0 when it does not run
  final      \* ExecutionResult.FinalStatus

coordinator == <<section, phase, stage, detached, sectionErr>>
vars == <<ctx, section, phase, stage, detached, sectionErr, errs,
          status, pc, actx, attempts, final>>

-----------------------------------------------------------------------------

CtxState == {"live", "canceled", "deadline"}

\* StatusSkipped is split by its SkipReason.
SkipReason == {"condition", "up-to-date", "dependency-failed"}
FailStatus == {"failed", "timeout"}
Settled    == SkipReason \cup FailStatus \cup {"succeeded", "cancelled"}
Status     == Settled \cup {"none", "running"}

\* A goroutine holds a semaphore slot from its acquisition to its return; its
\* action context exists from MarkRunning on.
UnderTimeout == {"loop", "delay", "call", "ok", "err"}
Holding      == UnderTimeout \cup {"prepare"}
Location     == Holding \cup {"none", "semaphore", "returned"}
Holders      == {a \in Action : pc[a] \in Holding}

Current    == Order[section][phase]
SectionCtx == IF section = "finally" /\ detached THEN "live" ELSE ctx
LastPhase  == Len(Order[section])

\* executePhases returned: no phase is left, or it left the loop early.
SectionDone == /\ section \in Section
               /\ \/ stage = "end"
                  \/ stage = "top" /\ phase > LastPhase

Init ==
  /\ ctx = "live"
  /\ section = "build" /\ phase = 1 /\ stage = "top"
  /\ detached = FALSE
  /\ sectionErr = [s \in Section |-> FALSE]
  /\ errs = {}
  /\ status = [a \in Action |-> "none"]
  /\ pc = [a \in Action |-> "none"]
  /\ actx = [a \in Action |-> "live"]
  /\ attempts = [a \in Action |-> 0]
  /\ final = "none"

-----------------------------------------------------------------------------
(* The environment: the caller cancels the run, or its deadline passes, and *)
(* every action context derived from it ends with it; an action's own       *)
(* timeout fires.                                                           *)

Cancel ==
  /\ ctx = "live" /\ final = "none"
  /\ \E k \in CtxState \ {"live"} :
       /\ ctx' = k
       /\ actx' = [a \in Action |->
                     IF pc[a] \in UnderTimeout /\ actx[a] = "live" THEN k ELSE actx[a]]
  /\ UNCHANGED <<coordinator, errs, status, pc, attempts, final>>

Expire(a) ==
  /\ pc[a] \in UnderTimeout /\ actx[a] = "live"
  /\ actx' = [actx EXCEPT ![a] = "deadline"]
  /\ UNCHANGED <<ctx, coordinator, errs, status, pc, attempts, final>>

-----------------------------------------------------------------------------
(* The coordinator. *)

\* BuildGraph: a rejected graph ends the run before anything executes.
BuildGraph ==
  /\ section = "build" /\ final = "none"
  /\ \/ section' = "main" /\ UNCHANGED final
     \/ final' = "failed" /\ UNCHANGED section
  /\ UNCHANGED <<ctx, phase, stage, detached, sectionErr, errs,
                 status, pc, actx, attempts>>

\* Actions whose policy, asked with an error of which only the message is left,
\* lets the run go on: a literal true, or an expression over __error.
Continues == {a \in Action : "message" \in ContinueOn[a]}

\* Faulty variant: a failure that lets the run go on lets dependents run too.
DependencyFailedHard(a) == \E d \in Deps[a] : status[d] \in FailStatus /\ d \notin Continues

\* A direct dependency failed or timed out, whatever its own policy says.
DependencyFailed(a) == \E d \in Deps[a] : status[d] \in FailStatus

\* Faulty variant: a phase with nothing to run is not left.
StartPhaseOrStall ==
  /\ section \in Section /\ final = "none"
  /\ stage = "top" /\ phase <= LastPhase /\ SectionCtx = "live"
  /\ LET skipped == {a \in Current : DependencyFailed(a)}
         toRun   == Current \ skipped
     IN /\ status' = [a \in Action |-> IF a \in skipped THEN "dependency-failed"
                                       ELSE status[a]]
        /\ pc' = [a \in Action |-> IF a \in toRun THEN "semaphore" ELSE pc[a]]
        /\ stage' = IF toRun = {} THEN "top" ELSE "wait"
  /\ errs' = {}
  /\ UNCHANGED <<ctx, section, phase, detached, sectionErr, actx, attempts, final>>

\* Skip what cannot run, start a goroutine for each of the others.
StartPhase ==
  /\ section \in Section /\ final = "none"
  /\ stage = "top" /\ phase <= LastPhase /\ SectionCtx = "live"
  /\ LET skipped == {a \in Current : DependencyFailed(a)}
         toRun   == Current \ skipped
     IN /\ status' = [a \in Action |-> IF a \in skipped THEN "dependency-failed"
                                       ELSE status[a]]
        /\ pc' = [a \in Action |-> IF a \in toRun THEN "semaphore" ELSE pc[a]]
        /\ IF toRun = {} THEN phase' = phase + 1 /\ UNCHANGED stage
                         ELSE stage' = "wait" /\ UNCHANGED phase
  /\ errs' = {}
  /\ UNCHANGED <<ctx, section, detached, sectionErr, actx, attempts, final>>

\* The context is done at the top of the loop: cancel this phase and return.
AbandonSection ==
  /\ section \in Section /\ final = "none"
  /\ stage = "top" /\ phase <= LastPhase /\ SectionCtx # "live"
  /\ status' = [a \in Action |-> IF a \in Current THEN "cancelled" ELSE status[a]]
  /\ stage' = "end"
  /\ sectionErr' = [sectionErr EXCEPT ![section] = TRUE]
  /\ UNCHANGED <<ctx, section, phase, detached, errs, pc, actx, attempts, final>>

\* Faulty variant: a timed-out action is not asked for its policy.
AllFailedContinue == \A a \in Current : status[a] = "failed" => a \in Continues

\* The actions of the current phase whose record carries an error all continue:
\* the record keeps the error's message.
AllContinue == \A a \in Current : status[a] \in FailStatus => a \in Continues

\* Faulty variant: the failed phase is marked with those that follow it.
ActionsFromHere == UNION {Order[section][i] : i \in phase..LastPhase}

\* Faulty variant: only the next phase is marked.
NextActions == UNION {Order[section][i] : i \in (phase + 1)..LastPhase \ (phase + 2)..LastPhase}

LaterActions == UNION {Order[section][i] : i \in (phase + 1)..LastPhase}

\* Faulty variant: the errors collected so far end the phase, goroutines or not.
EndPhaseEarly ==
  /\ section \in Section /\ stage = "wait"
  /\ IF errs = {} \/ AllContinue
     THEN /\ phase' = phase + 1 /\ stage' = "top"
          /\ UNCHANGED <<status, sectionErr>>
     ELSE /\ status' = [a \in Action |-> IF a \in LaterActions
                                         THEN "dependency-failed" ELSE status[a]]
          /\ stage' = "end"
          /\ sectionErr' = [sectionErr EXCEPT ![section] = TRUE]
          /\ UNCHANGED phase
  /\ UNCHANGED <<ctx, section, detached, errs, pc, actx, attempts, final>>

\* wg.Wait returned.
EndPhase ==
  /\ section \in Section /\ stage = "wait"
  /\ \A a \in Current : pc[a] \in {"none", "returned"}
  /\ IF errs = {} \/ AllContinue
     THEN /\ phase' = phase + 1 /\ stage' = "top"
          /\ UNCHANGED <<status, sectionErr>>
     ELSE /\ status' = [a \in Action |-> IF a \in LaterActions
                                         THEN "dependency-failed" ELSE status[a]]
          /\ stage' = "end"
          /\ sectionErr' = [sectionErr EXCEPT ![section] = TRUE]
          /\ UNCHANGED phase
  /\ UNCHANGED <<ctx, section, detached, errs, pc, actx, attempts, final>>

\* Faulty variant: the finally section inherits the cancelled context.
EnterFinallyCancelled ==
  /\ section = "main" /\ SectionDone /\ Order["finally"] # <<>>
  /\ section' = "finally" /\ phase' = 1 /\ stage' = "top"
  /\ UNCHANGED <<ctx, detached, sectionErr, errs, status, pc, actx, attempts, final>>

\* The finally section runs under its own context when the run's is done.
EnterFinally ==
  /\ section = "main" /\ SectionDone /\ Order["finally"] # <<>>
  /\ section' = "finally" /\ phase' = 1 /\ stage' = "top"
  /\ detached' = (ctx # "live")
  /\ UNCHANGED <<ctx, sectionErr, errs, status, pc, actx, attempts, final>>

\* Faulty variant: a timeout is not a failure.
FailedNotTimedOut == {a \in Action : status[a] = "failed"}

FailedActions == {a \in Action : status[a] \in FailStatus}

\* Faulty variant: any failure of a run that was not cancelled is partial.
anyFailureIsPartial ==
  CASE ctx # "live" -> "cancelled"
    [] ctx = "live" /\ FailedActions = {} -> "succeeded"
    [] OTHER -> "partial-success"

determineFinalStatus ==
  CASE ctx # "live" -> "cancelled"
    [] ctx = "live" /\ FailedActions = {} /\ ~sectionErr["main"]
         /\ ~sectionErr["finally"] -> "succeeded"
    [] ctx = "live" /\ FailedActions # {} /\ ~sectionErr["main"] -> "partial-success"
    [] OTHER -> "failed"

Report ==
  /\ SectionDone /\ final = "none"
  /\ section = "finally" \/ Order["finally"] = <<>>
  /\ final' = determineFinalStatus
  /\ UNCHANGED <<ctx, coordinator, errs, status, pc, actx, attempts>>

-----------------------------------------------------------------------------
(* The goroutine of one action: the semaphore, then executeAction. *)

\* Every phase has a semaphore of its own.
AcquireSlot(a) ==
  /\ pc[a] = "semaphore"
  /\ MaxConcurrency = 0 \/ Cardinality(Holders \cap Current) < MaxConcurrency
  /\ pc' = [pc EXCEPT ![a] = "prepare"]
  /\ UNCHANGED <<ctx, coordinator, errs, status, actx, attempts, final>>

\* The select may take ctx.Done() even when a slot is free; no error is sent.
CancelAtSemaphore(a) ==
  /\ pc[a] = "semaphore" /\ SectionCtx # "live"
  /\ status' = [status EXCEPT ![a] = "cancelled"]
  /\ pc' = [pc EXCEPT ![a] = "returned"]
  /\ UNCHANGED <<ctx, coordinator, errs, actx, attempts, final>>

\* The record is written and executeAction returns; its context and its retry
\* loop are gone.
Return(a, st, sendsError) ==
  /\ status' = [status EXCEPT ![a] = st]
  /\ pc' = [pc EXCEPT ![a] = "returned"]
  /\ errs' = IF sendsError THEN errs \cup {a} ELSE errs
  /\ actx' = [actx EXCEPT ![a] = "live"]
  /\ attempts' = [attempts EXCEPT ![a] = 0]
  /\ UNCHANGED <<ctx, coordinator, final>>

\* when is false, or sources and inputs are fresh.
SkipAction(a) ==
  /\ pc[a] = "prepare"
  /\ \E reason \in {"condition", "up-to-date"} : Return(a, reason, FALSE)

\* when does not evaluate, a sources pattern is invalid, or inputs do not
\* resolve: the error is sent without consulting continueOnError.
FailPreparation(a) ==
  /\ pc[a] = "prepare"
  /\ Return(a, "failed", TRUE)

MarkRunning(a) ==
  /\ pc[a] = "prepare"
  /\ status' = [status EXCEPT ![a] = "running"]
  /\ pc' = [pc EXCEPT ![a] = "loop"]
  /\ actx' = [actx EXCEPT ![a] = SectionCtx]
  /\ UNCHANGED <<ctx, coordinator, errs, attempts, final>>

CallProvider(a) ==
  /\ pc' = [pc EXCEPT ![a] = "call"]
  /\ attempts' = [attempts EXCEPT ![a] = @ + 1]

\* Top of the retry loop: give up when the action context is done.
RetryLoop(a) ==
  /\ pc[a] = "loop"
  /\ \/ /\ actx[a] # "live"
        /\ pc' = [pc EXCEPT ![a] = "err"] /\ UNCHANGED attempts
     \/ /\ actx[a] = "live" /\ attempts[a] = 0
        /\ CallProvider(a)
     \/ /\ actx[a] = "live" /\ attempts[a] > 0
        /\ pc' = [pc EXCEPT ![a] = "delay"] /\ UNCHANGED attempts
  /\ UNCHANGED <<ctx, coordinator, errs, status, actx, final>>

\* The delay elapses; or, first or at the same time, the context ends.
RetryDelay(a) ==
  /\ pc[a] = "delay"
  /\ \/ CallProvider(a)
     \/ /\ actx[a] # "live"
        /\ pc' = [pc EXCEPT ![a] = "err"] /\ UNCHANGED attempts
  /\ UNCHANGED <<ctx, coordinator, errs, status, actx, final>>

\* Faulty variant: maxAttempts counts the retries.
RetryOnceMore(a) == attempts[a] <= MaxAttempts[a] /\ actx[a] = "live"

ShouldRetry(a) == attempts[a] < MaxAttempts[a] /\ actx[a] = "live"

\* The provider answers, or fails and retryIf decides (when it may).
ProviderReturns(a) ==
  /\ pc[a] = "call"
  /\ \E next \in {"ok", "err"} \cup (IF ShouldRetry(a) THEN {"loop"} ELSE {}) :
       pc' = [pc EXCEPT ![a] = next]
  /\ UNCHANGED <<ctx, coordinator, errs, status, actx, attempts, final>>

\* The deadline wins over whatever the provider answered.
TimeOut(a) ==
  /\ pc[a] \in {"ok", "err"} /\ actx[a] = "deadline"
  /\ Return(a, "timeout", TRUE)

\* The last attempt failed, or its result does not match the schema.  The policy
\* is asked with the error itself.
Fail(a) ==
  /\ pc[a] \in {"ok", "err"} /\ actx[a] # "deadline"
  /\ \E kind \in IF pc[a] = "err" THEN ErrorKind ELSE {"message"} :
       Return(a, "failed", kind \notin ContinueOn[a])

Succeed(a) ==
  /\ pc[a] = "ok" /\ actx[a] # "deadline"
  /\ Return(a, "succeeded", FALSE)

Goroutine(a) ==
  \/ AcquireSlot(a) \/ CancelAtSemaphore(a)
  \/ SkipAction(a) \/ FailPreparation(a) \/ MarkRunning(a)
  \/ RetryLoop(a) \/ RetryDelay(a) \/ ProviderReturns(a)
  \/ TimeOut(a) \/ Fail(a) \/ Succeed(a)

Coordinator ==
  \/ BuildGraph \/ StartPhase \/ AbandonSection \/ EndPhase
  \/ EnterFinally \/ Report

Environment == Cancel \/ \E a \in Action : Expire(a)

\* Execute returned.
Returned == final # "none" /\ UNCHANGED vars

Next == Coordinator \/ (\E a \in Action : Goroutine(a)) \/ Environment \/ Returned

\* The scheduler runs every goroutine, and a provider call returns.
Fairness == WF_vars(Coordinator) /\ \A a \in Action : WF_vars(Goroutine(a))

Spec == Init /\ [][Next]_vars /\ Fairness

-----------------------------------------------------------------------------
(* Properties. *)

FinalStatus == {"none", "succeeded", "partial-success", "failed", "cancelled"}

\* Types; an action is never tried more often than retry.maxAttempts allows.
TypeOK ==
  /\ ctx \in CtxState
  /\ section \in Section \cup {"build"}
  /\ phase \in Nat \ {0} /\ (section \in Section => phase <= LastPhase + 1)
  /\ stage \in {"top", "wait", "end"}
  /\ detached \in BOOLEAN
  /\ sectionErr \in [Section -> BOOLEAN]
  /\ errs \subseteq Action
  /\ status \in [Action -> Status]
  /\ pc \in [Action -> Location]
  /\ actx \in [Action -> CtxState]
  /\ attempts \in [Action -> Nat]
  /\ \A a \in Action : attempts[a] <= MaxAttempts[a]
  /\ final \in FinalStatus

\* While executeAction works on an action, each of its dependencies has
\* succeeded or was skipped: none is pending, running, failed, timed out or
\* cancelled, whatever the phases, policies and cancellations were.
RunsOnGoodDependencies ==
  \A a \in Holders : \A d \in Deps[a] : status[d] \in SkipReason \cup {"succeeded"}

\* Some error with this record lets the run go on.
MayContinue(a, st) == a \in Continues \/ (st = "failed" /\ ContinueOn[a] # {})

\* After a failure that may not be continued, no action of a later phase of the
\* section is started: the allContinue check of executePhases.
HardFailureStopsSection ==
  \A s \in Section : \A i, j \in DOMAIN Order[s] :
    i < j => \A a \in Order[s][i], b \in Order[s][j] :
      status[a] \in FailStatus /\ ~MayContinue(a, status[a]) => pc[b] = "none"

\* A run that reports without having been cancelled has a settled record for
\* every action of both sections: the summary loses none.
AccountsForAll ==
  final # "none" /\ ctx = "live" /\ section \in Section =>
    \A s \in Section : \A a \in ActionsOf(s) : status[a] \in Settled

\* "succeeded" means that every action of both sections succeeded or was
\* skipped by its own condition or fingerprint.
SuccessIsComplete ==
  final = "succeeded" =>
    \A s \in Section : \A a \in ActionsOf(s) :
      status[a] \in {"succeeded", "condition", "up-to-date"}

\* "partial-success" means that the main section ran to its end: something
\* failed, but every failure in main was one that may be continued.
PartialMeansMainCompleted ==
  final = "partial-success" =>
    /\ FailedActions # {}
    /\ \A a \in ActionsOf("main") :
         /\ status[a] \in Settled \ {"cancelled"}
         /\ status[a] \in FailStatus => MayContinue(a, status[a])

\* No later mark overwrites the record of an action that is over: the Mark*
\* methods of the action context do not check what they replace.
RecordsAreFinal ==
  [][\A a \in Action : status[a] \in Settled => status'[a] = status[a]]_vars

\* Execute returns: no phase waits for a goroutine that does not come back.
RunReports == <>(final # "none")

\* A run cancelled while main executes still runs its finally section to the
\* end, with a record for each action, and cancels none of them.
CleanupAfterCancel ==
  section = "main" /\ ctx # "live" ~>
    final # "none" /\ \A a \in ActionsOf("finally") : status[a] \in Settled \ {"cancelled"}

\* An action is active while its goroutine holds a semaphore slot; a skipped
\* action lets its dependents run, a cancelled one does not.
DagState ==
  [a \in Action |->
     IF pc[a] \in Holding THEN "active"
     ELSE IF status[a] \in FailStatus \cup {"cancelled"} THEN "blocking"
     ELSE IF status[a] \in SkipReason \cup {"succeeded"} THEN "passing"
     ELSE "waiting"]

Dag == INSTANCE DagRun WITH
  Cleanup  <- ActionsOf("finally"),
  reported <- final # "none",
  state    <- DagState

\* The phases, the semaphore and the contexts of the executor implement a run
\* in which each action waits for its own dependencies only.
ImplementsDagRun == Dag!Spec
=============================================================================
