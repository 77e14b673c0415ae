---------------------------- MODULE ResolverExecutor ----------------------------
(***************************************************************************)
(* One run of the resolvers of a solution: Executor.Execute of              *)
(* pkg/resolver with its phases of concurrent goroutines and the deferred   *)
(* (cross-resolver) validation after them.                                  *)
(*                                                                         *)
(* What providers, conditions and rules return is a choice; values are not  *)
(* told apart.  At most one source fails before the one that decides, and a *)
(* resolver has one deferred rule if any; deferred validation is on.  A     *)
(* step is work of one goroutine up to its next access to what it shares.   *)
(***************************************************************************)
EXTENDS Naturals, FiniteSets, FiniteSetsExt

CONSTANTS
  Resolver,  \* the resolvers
  Deps,      \* what each one's resolve, transform and when refer to
  Refs,      \* what its deferred rule refers to; {} if it has none
  Inline,    \* resolvers with inline rules
  Fallback,  \* resolvers with a source to fall back on
  When,      \* resolvers with a when condition
  Shadowed,  \* resolvers with the name of a parameter of this run
  Given,     \* the possible mocked and seeded results
  Policy,    \* the possible policies
  Limit,     \* the possible values of maxConcurrency; 0 is no limit
  None       \* nil

\* The references are acyclic (dag.Build rejects a cycle): they have an order.
ASSUME ResolverExecutorAssumption ==
  /\ IsFiniteSet(Resolver) /\ Resolver # {}
  /\ Deps \in [Resolver -> SUBSET Resolver] /\ Refs \in [Resolver -> SUBSET Resolver]
  /\ \E order \in [Resolver -> 1..Cardinality(Resolver)] :
       \A r \in Resolver : \A d \in Deps[r] : order[d] < order[r]
  /\ \A r \in Resolver : r \notin Refs[r]
  /\ \A R \in {Inline, Fallback, When, Shadowed} : R \subseteq Resolver
  /\ Given \subseteq [Resolver -> {"none", "mocked", "seeded", "seeded failed"}]
  /\ Policy \subseteq {"stop", "validate all", "non-fatal"}
  /\ Limit \subseteq Nat
  /\ None \notin {"success", "skipped", "dependency", "error", "failed", "fatal", "validation"}

VARIABLES
  policy,    \* nothing, validateAll or nonFatalValidation
  limit,     \* maxConcurrency
  given,     \* mockedResolvers and seededResults
  step,      \* where Execute is
  phase,     \* the current phase
  expired,   \* the phase's context ended
  pc,        \* where each resolver's goroutine is
  verdict,   \* the result executeResolver is about to record
  result,    \* Context.results: the status under each name
  failure,   \* failedResolvers: the kind of failure
  outcome,   \* what the goroutine reported
  shared,    \* the failed attempts under "__failed_attempts": whose they are
  copy,      \* a goroutine's copy of them
  attempts,  \* ExecutionResult.FailedAttempts
  tried,     \* resolvers that had a failed attempt
  units,     \* deferred units that are still to be evaluated
  deferredFailed, suppressed,
  evaluated, \* units whose rule ran
  error      \* Execute returned an error

vars == <<policy, limit, given, step, phase, expired, pc, verdict, result, failure, outcome,
          shared, copy, attempts, tried, units, deferredFailed, suppressed, evaluated, error>>

config == <<policy, limit, given>>
deferred == <<units, deferredFailed, suppressed, evaluated>>

-----------------------------------------------------------------------------
(* BuildPhasesWithCalls: the phases, and the resolvers with deferred rules. *)

PhaseOf[r \in Resolver] ==
  IF Deps[r] = {} THEN 1 ELSE 1 + Max({PhaseOf[d] : d \in Deps[r]})

Phases == Max({PhaseOf[r] : r \in Resolver})
Group(n) == {r \in Resolver : PhaseOf[r] = n}
Units == {r \in Resolver : Refs[r] # {}}

Init ==
  /\ policy \in Policy /\ limit \in Limit /\ given \in Given
  /\ step = "phases" /\ phase = 1 /\ expired = FALSE
  /\ pc = [r \in Resolver |-> "waiting"]
  /\ verdict = [r \in Resolver |-> None]
  /\ result = [r \in Resolver |->
       IF given[r] = "seeded failed" THEN "failed"
       ELSE IF given[r] # "none" \/ r \in Shadowed THEN "success" ELSE None]
  /\ failure = [r \in Resolver |-> None]
  /\ outcome = [r \in Resolver |-> None]
  /\ shared = {} /\ copy = [r \in Resolver |-> {}]
  /\ attempts = [r \in Resolver |-> {}] /\ tried = {}
  /\ units = Units /\ deferredFailed = {} /\ suppressed = {} /\ evaluated = {}
  /\ error = FALSE

Collects == policy # "stop"

-----------------------------------------------------------------------------
(* executePhase: one goroutine for each resolver. *)

\* Faulty variant: a dependency that failed a validation is as good as one that
\* succeeded under every policy.
FailedFatally(r) == {d \in Deps[r] : failure[d] = "fatal"}

\* The dependencies that keep a resolver from running.
FailedDeps(r) ==
  {d \in Deps[r] : failure[d] # None /\ ~(failure[d] = "validation" /\ policy = "non-fatal")}

At(r, loc) == step = "phases" /\ PhaseOf[r] = phase /\ pc[r] = loc
Goto(r, loc) == pc' = [pc EXCEPT ![r] = loc]

\* Faulty variant: the goroutine ends without a result.
EndsSilently(r, how) == Goto(r, "done") /\ UNCHANGED outcome

Ends(r, how) ==
  /\ Goto(r, "done")
  /\ outcome' = [outcome EXCEPT ![r] = how]

CheckDeps(r) ==
  /\ At(r, "waiting")
  /\ IF Collects /\ FailedDeps(r) # {}
     THEN /\ Ends(r, "dependency")
          /\ failure' = [failure EXCEPT ![r] = "fatal"]
     ELSE Goto(r, "queued") /\ UNCHANGED <<failure, outcome>>
  /\ UNCHANGED <<config, step, phase, expired, verdict, result, shared, copy, attempts,
                 tried, deferred, error>>

\* Faulty variant: a slot is not given back.
EverBusy == {r \in Resolver : pc[r] \notin {"waiting", "queued"}}

Busy == {r \in Resolver : pc[r] \in {"running", "tracking", "recording", "storing"}}

Slots == limit = 0 \/ Cardinality(Busy) < limit

Acquire(r) ==
  /\ At(r, "queued") /\ ~expired /\ Slots
  /\ Goto(r, "running")
  /\ UNCHANGED <<config, step, phase, expired, verdict, result, failure, outcome, shared,
                 copy, attempts, tried, deferred, error>>

\* The phase's time is over before the resolver has a slot, or just after.
TimeOut(r) ==
  /\ At(r, "queued") /\ expired
  /\ Ends(r, "error")
  /\ failure' = [failure EXCEPT ![r] = "fatal"]
  /\ UNCHANGED <<config, step, phase, expired, verdict, result, shared, copy, attempts,
                 tried, deferred, error>>

Expire ==
  /\ step = "phases" /\ ~expired /\ \E r \in Group(phase) : pc[r] # "done"
  /\ expired' = TRUE
  /\ UNCHANGED <<config, step, phase, pc, verdict, result, failure, outcome, shared, copy,
                 attempts, tried, deferred, error>>

-----------------------------------------------------------------------------
(* executeResolver. *)

\* Verdicts: "fatal" is a failed condition, resolve, transform, coercion or size;
\* "validation" is failed inline rules, which leave the value.
Verdicts(r) ==
  CASE given[r] \in {"mocked", "seeded"} -> {"success"}
    [] given[r] = "seeded failed" -> {"fatal", "validation"}
    [] given[r] = "none" -> {"success", "fatal"}
                            \cup (IF r \in Inline THEN {"validation"} ELSE {})
                            \cup (IF r \in When THEN {"skipped"} ELSE {})

Decide(r) ==
  /\ At(r, "running")
  /\ \E v \in Verdicts(r) :
       /\ v = "skipped" => r \notin tried
       /\ verdict' = [verdict EXCEPT ![r] = v]
  /\ Goto(r, "recording")
  /\ UNCHANGED <<config, step, phase, expired, result, failure, outcome, shared, copy,
                 attempts, tried, deferred, error>>

\* trackFailedAttempt reads the shared list and, in another step, writes it.
TryFails(r) ==
  /\ At(r, "running") /\ given[r] = "none" /\ r \in Fallback \ tried
  /\ copy' = [copy EXCEPT ![r] = shared]
  /\ Goto(r, "tracking")
  /\ UNCHANGED <<config, step, phase, expired, verdict, result, failure, outcome, shared,
                 attempts, tried, deferred, error>>

TrackFailedAttempt(r) ==
  /\ At(r, "tracking")
  /\ shared' = copy[r] \cup {r}
  /\ copy' = [copy EXCEPT ![r] = {}]
  /\ tried' = tried \cup {r}
  /\ Goto(r, "running")
  /\ UNCHANGED <<config, step, phase, expired, verdict, result, failure, outcome, attempts,
                 deferred, error>>

\* The deferred function of executeResolver takes the shared attempts ...
TakeAttempts(r) ==
  /\ At(r, "recording")
  /\ copy' = [copy EXCEPT ![r] = shared]
  /\ Goto(r, "storing")
  /\ UNCHANGED <<config, step, phase, expired, verdict, result, failure, outcome, shared,
                 attempts, tried, deferred, error>>

\* Faulty variant: the list stays for the next resolver.
LeaveAttempts(r) == shared

DropAttempts(r) == IF copy[r] = {} THEN shared ELSE {}

\* ... and removes them, and stores the result unless the resolver was skipped;
\* then the goroutine notes the kind of failure and gives back its slot.
StoreResult(r) ==
  LET v == verdict[r] IN
  /\ At(r, "storing")
  /\ shared' = DropAttempts(r)
  /\ attempts' = [attempts EXCEPT ![r] = copy[r]]
  /\ copy' = [copy EXCEPT ![r] = {}]
  /\ result' = [result EXCEPT ![r] =
       CASE v = "skipped" -> @ [] v = "success" -> "success" [] OTHER -> "failed"]
  /\ failure' = [failure EXCEPT ![r] = IF v \in {"fatal", "validation"} THEN v ELSE @]
  /\ Ends(r, CASE v = "skipped" -> "skipped" [] v = "success" -> "success" [] OTHER -> "error")
  /\ UNCHANGED <<config, step, phase, expired, verdict, tried, deferred, error>>

-----------------------------------------------------------------------------
(* Execute: the phases one after the other, then the deferred validation. *)

Failed == {r \in Resolver : outcome[r] = "error"}

\* wg.Wait; without error collection the first error of a phase ends the run.
EndPhase ==
  /\ step = "phases" /\ \A r \in Group(phase) : pc[r] = "done"
  /\ expired' = FALSE
  /\ LET stops == ~Collects /\ Failed # {} IN
     /\ step' = IF stops THEN "done" ELSE IF phase < Phases THEN "phases" ELSE "deferred"
     /\ phase' = IF ~stops /\ phase < Phases THEN phase + 1 ELSE phase
     /\ error' = stops
  /\ UNCHANGED <<config, pc, verdict, result, failure, outcome, shared, copy, attempts,
                 tried, deferred>>

\* resolverHasUsableValue, of a result that is there.
HasUsableValue(r) ==
  \/ result[r] = "success"
  \/ result[r] = "failed" /\ failure[r] = "validation"

\* The reporting graph, references between the owners of deferred rules: what a
\* unit leads to is in every set that is closed under references.
RefersTo == {e \in Units \X Units : \A S \in SUBSET Units :
  Refs[e[1]] \cap Units \subseteq S /\ (\A w \in S : Refs[w] \cap Units \subseteq S)
    => e[2] \in S}

\* Faulty variant: the reporting order the other way round.
DependentsFirst(u) == \A w \in units : <<w, u>> \in RefersTo => <<u, w>> \in RefersTo

\* buildDeferredReportingPlan: components of the reporting graph in the order of
\* their references.
RootCauseFirst(u) == \A w \in units : <<u, w>> \in RefersTo => <<w, u>> \in RefersTo

\* One unit of runDeferredValidation.
Evaluate(u) ==
  /\ step = "deferred" /\ u \in units /\ RootCauseFirst(u)
  /\ units' = units \ {u}
  /\ \/ /\ ~HasUsableValue(u)
        /\ UNCHANGED <<deferredFailed, suppressed, evaluated>>
     \/ /\ HasUsableValue(u) /\ Refs[u] \cap deferredFailed # {}
        /\ suppressed' = suppressed \cup {u}
        /\ UNCHANGED <<deferredFailed, evaluated>>
     \/ /\ HasUsableValue(u) /\ Refs[u] \cap deferredFailed = {}
        /\ \E d \in Refs[u] : ~HasUsableValue(d)
        /\ deferredFailed' = deferredFailed \cup {u}
        /\ UNCHANGED <<suppressed, evaluated>>
     \/ /\ HasUsableValue(u) /\ Refs[u] \cap deferredFailed = {}
        /\ \A d \in Refs[u] : HasUsableValue(d)
        /\ evaluated' = evaluated \cup {u}
        /\ deferredFailed' \in {deferredFailed, deferredFailed \cup {u}}
        /\ UNCHANGED suppressed
  /\ UNCHANGED <<config, step, phase, expired, pc, verdict, result, failure, outcome,
                 shared, copy, attempts, tried, error>>

\* Faulty variant: an error of the phases only.
PhaseError == Failed # {}

ReturnedError == Failed # {} \/ deferredFailed # {}

Return ==
  /\ step = "deferred" /\ units = {}
  /\ step' = "done"
  /\ error' = ReturnedError
  /\ UNCHANGED <<config, phase, expired, pc, verdict, result, failure, outcome, shared,
                 copy, attempts, tried, deferred>>

Next ==
  \/ \E r \in Resolver :
       \/ CheckDeps(r) \/ Acquire(r) \/ TimeOut(r) \/ Decide(r) \/ TryFails(r)
       \/ TrackFailedAttempt(r) \/ TakeAttempts(r) \/ StoreResult(r) \/ Evaluate(r)
  \/ Expire \/ EndPhase \/ Return

\* The goroutines and Execute go on: providers return.  Nothing is assumed of the
\* phase's time.
Fairness ==
  /\ \A r \in Resolver :
       WF_vars(\/ CheckDeps(r) \/ Acquire(r) \/ TimeOut(r) \/ Decide(r)
               \/ TrackFailedAttempt(r) \/ TakeAttempts(r) \/ StoreResult(r))
  /\ WF_vars(EndPhase \/ Return \/ \E u \in Resolver : Evaluate(u))

Spec == Init /\ [][Next]_vars /\ Fairness

-----------------------------------------------------------------------------
(* Properties *)

\* Types: a goroutine beyond the current phase has not begun, and one that ended
\* has reported.
TypeOK ==
  /\ step \in {"phases", "deferred", "done"} /\ phase \in 1..Phases
  /\ expired \in BOOLEAN /\ error \in BOOLEAN
  /\ \A r \in Resolver :
       /\ pc[r] \in {"waiting", "queued", "running", "tracking", "recording", "storing", "done"}
       /\ PhaseOf[r] > phase => pc[r] = "waiting"
       /\ verdict[r] \in {None, "success", "skipped", "fatal", "validation"}
       /\ result[r] \in {None, "success", "failed"}
       /\ failure[r] \in {None, "fatal", "validation"}
       /\ outcome[r] \in {None, "success", "skipped", "dependency", "error"}
       /\ outcome[r] # None <=> pc[r] = "done"
       /\ failure[r] # None <=> outcome[r] \in {"dependency", "error"}
  /\ shared \subseteq tried /\ UNION {copy[r] \cup attempts[r] : r \in Resolver} \subseteq tried
  /\ units \cup deferredFailed \cup suppressed \cup evaluated \subseteq Units

\* The resolver's value is there, though a rule may have failed on it.
Valid(r) ==
  \/ outcome[r] = "success"
  \/ outcome[r] = "error" /\ failure[r] = "validation"

\* A resolver runs only when its dependencies have succeeded or have been skipped
\* by their own conditions; with non-fatal validation also on a value that a rule
\* rejected.
RunsOnUsable ==
  \A r \in Busy : \A d \in Deps[r] :
    \/ outcome[d] \in {"success", "skipped"}
    \/ policy = "non-fatal" /\ Valid(d)

\* Names that have a result before any resolver runs.
Preset == Shadowed \cup {r \in Resolver : given[r] # "none"}

\* What a resolver leaves is its own: one that did not run leaves nothing under
\* its name, unless a parameter, a mock or a seed was there, and with one slot the
\* failed attempts reported for a resolver are its own, all of them.
RecordsAreOwn ==
  \A r \in Resolver : pc[r] = "done" =>
    /\ (outcome[r] \in {"skipped", "dependency"} /\ r \notin Preset) => result[r] = None
    /\ limit = 1 => attempts[r] = tried \cap {r}

\* Deferred validation fails closed: a rule whose reference left no value fails or
\* is suppressed.  Root causes only: two failed units do not refer to one another,
\* but in a cycle.
DeferredVerdicts ==
  step = "done" /\ units = {} =>
    /\ \A u \in Units : Valid(u) =>
         \/ u \in deferredFailed \cup suppressed
         \/ \A d \in Refs[u] : Valid(d) \/ d \in Preset
    /\ \A u \in deferredFailed : \A d \in Refs[u] \cap deferredFailed : <<d, u>> \in RefersTo

\* Execute returns an error exactly when some resolver failed or could not run, or
\* a deferred rule failed; without one every resolver and every rule was looked at.
ReportsFailures ==
  step = "done" =>
    /\ error <=> \/ \E r \in Resolver : outcome[r] \in {"error", "dependency"}
                 \/ deferredFailed # {}
    /\ ~error => units = {} /\ \A r \in Resolver : pc[r] = "done"

\* Every run ends, without the help of a timeout, whatever fails or is skipped.
Terminates == <>(step = "done")
=================================================================================
