# scafctl: models, model checking and proofs

TLA+ modules that model the concurrent core of scafctl, the TLC configurations
that check them, and theorems about them that TLAPS checks. Paths are relative
to `src/`; line numbers are those of the modelled commit.

| module | models | checked by | proved |
|---|---|---|---|
| `ActionGraph` | `pkg/action/graph.go`: expansion, dependencies, phases, exclusive split, as operators | `action_graph` | lemmas in `ActionGraphProofs` |
| `GraphBuild` | `BuildGraph` on one section, and what it promises | `action_graph` | 5 theorems in `GraphBuildProofs` |
| `WorkflowExecutor` | `pkg/action/executor.go`, `retry.go`, `context.go`: a run of a workflow | `workflow`, `workflow_finally_cancelled`, `workflow_recheck` | 10 theorems in `WorkflowExecutorProofs` |
| `WorkflowRun` | `Execute` on a workflow as written: the executor on the graph `BuildGraph` made | `workflow` | 2 theorems in `WorkflowExecutorProofs` |
| `DagRun` | abstract: what a workflow run promises | `workflow` (as the property `ImplementsDagRun`) | refinement, safety part |
| `PluginPool` | `pkg/plugin/pool.go` with the parts of `pkg/provider/registry.go` it uses | `plugin_pool`, `plugin_pool_ping`, `plugin_pool_acquired`, `plugin_pool_shutdown` | 8 theorems in `PluginPoolProofs` |
| `VersionPool` | `pkg/plugin/versionpool.go` over `pkg/versionindex` and the external tier of the registry | `version_pool` | 5 theorems in `VersionPoolProofs` |
| `SecretStore` | `pkg/secrets/store.go`, `keyring.go`: secrets and the master key, shared by processes | `secrets` | 3 theorems in `SecretStoreProofs` |
| `RunState` | `pkg/state` and its use in `pkg/cmd/scafctl/run`: saved state around runs | `run_state` | 6 theorems in `RunStateProofs` |
| `ResolverExecutor` | `pkg/resolver/executor.go`, `deferred_validation.go`: a run of the resolvers | `resolver` | 6 theorems in `ResolverExecutorProofs` |

The modules whose names end in `MC` give the constants values for TLC. Definitions that a comment calls a *faulty variant* are not part
of a model: each replaces, in one mutation check, the definition next to it,
and shows that the property it is meant to break does notice.
`PROJECT.json` lists runs, mutants, the source lines of every definition, the
findings and the hazards.

## 1. Inventory

scafctl discovers and runs *solutions*: documents that declare resolvers
(values computed by providers) and a workflow of actions. A command
(`run solution`) or the API server prepares a solution (catalog, plugins,
authentication), loads its state, runs the resolvers, runs the workflow, and
saves the state. Providers are builtin or come from plugin processes.

| component | state | operations | what makes it hard | what makes it correct |
|---|---|---|---|---|
| action graph (`pkg/action/graph.go`) | none: a function of the workflow | `BuildGraph` | two passes (Kahn, greedy colouring) over names that forEach expands | phases respect dependencies, exclusive actions never share one, cycles and only cycles are rejected |
| workflow executor (`pkg/action/executor.go`, `retry.go`, `context.go`) | action records, the phase loop, a semaphore per phase, contexts | `Execute`, cancellation, timeouts, retry | goroutines of a phase against cancellation; retry against the deadline; final status from separately computed parts | an action runs only on good dependencies; hard failures stop the section; records are final; the run reports truthfully and always |
| plugin pool (`pkg/plugin/pool.go`) | map of entries, their refcount, state, client, providers; the shared registry | `EnsureAndAcquire`, `Release`, `Ping`, eviction, `Shutdown` | pointers used after an unlock; five actors that tear down; a spawn that outlives its requests | what is handed out is alive; killed once; registry agrees with the processes; requests return |
| versioned plugin pool (`versionpool.go`) | entries by plugin and version, an index of versions beside the store, pins on cached binaries | `EnsureAndAcquire` by version, range or latest, release, eviction, `Adopt`, `Shutdown` | fetch outside the lock, re-check under it; failed spawns clear the entry by key | index and store agree, capacity kept, counts exact, no process lost |
| provider registry (`pkg/provider/registry.go`) | name to provider, versions | `Register`, `Unregister`, `Has` | shared by pools and requests | names belong to who registered them |
| resolver executor (`pkg/resolver`) | results, failures, the failed attempts under one shared key, deferred units | phases, mocks and seeds, deferred validation | goroutines of a phase share a context map; policies decide who may run on a failure; cycles of deferred rules | who may run on what, records that are one's own, root causes only, the right error, always |
| run state (`pkg/state`, `run/solution.go`, `run/resolver.go`) | state documents, locks, persisted values | load and merge, checkpoint, save in two formats | runs that overlap, fail or crash between two targets; a document that hides that it had locks | immutables never change, actions of all runs agree, a failed run saves no parameters |
| secret store (`pkg/secrets`) | encrypted files, the key in a chain of keyrings | open, `Get`, `Set`, `Delete`, `Rotate` | a crash or failed write between files and keyring, other processes, an OS keyring that comes and goes | no secret becomes unreadable, nothing readable is destroyed |
| caches (`pkg/cache`) | disk entries with pins, TTL map, version index | get, put, pin, evict | callbacks after the unlock, check-then-delete | a pinned entry stays, the index names what exists |
| call memo (`pkg/call/memo.go`) | result per key and run | `Do` | concurrent first callers | computed once, errors included |

The remaining components (fingerprints, solution preparation, catalog, API, MCP
and LSP servers, expressions, lint, HTTP and login, commands) are listed with
the reason they are left out in section 10 and in `PROJECT.json`.

**Interactions.** `BuildGraph` hands the executor `ExecutionOrder`,
`FinallyOrder` and, per action, `Dependencies`; the executor calls providers
found in the registry; the pool fills and empties that registry from its own
goroutines while requests of the API server hold references; `Shutdown` is
called on server stop after the HTTP server drained, or timed out doing so. The
resolver and workflow executors share the call memo; state is loaded before the
resolvers, checkpointed before the workflow and saved after it. Pools and
executors are models of goroutines of one process; the secret store and the run
state are shared by processes, which nothing but single renames of files orders.
`WorkflowRun` composes the executor with the graph builder (`BuiltGraph`);
what a resolver run hands `RunState` (a value, or none, and whether it passed
validation, failed its own rule or a deferred one) is what `ResolverExecutor`
leaves in `result`, `failure` and `deferredFailed`.

## 2. ActionGraph

`ActionGraph` has the computations as operators and `GraphBuild` one step that
applies them to a section, with the properties. A section of the workflow is a record (`bases`, `expansion`, `refs`,
`exclusive`). `Dependencies` is `computeEffectiveDependencies`,
`ExpandedExclusive` is `computeExpandedExclusive`, `KahnRounds` with `Ready` and
`RemovePhase` is `computeExecutionPhases`, `ConflictsOf`, `Colours` and
`SplitPhase` are `splitPhaseForExclusive`, and `SectionOrder` is what
`BuildGraph` stores. Names are naturals whose order stands for the sort order.
`WellFormed` is what validation and the map of actions by name leave of a section; an
action with an implicit reference to itself is left out.
Aliases and the parsing of input expressions for `__actions` references are
abstracted to the set `refs`.

**Run `action_graph`** enumerates every section of three actions, one of them a
forEach over none, one or two items, with every reference relation (the other
section included) and every exclusion relation: 49152 states. Three actions are
the fewest with a cycle longer than two, a chain beside an independent action,
and an exclusion graph that greedy colouring can get wrong in either direction
(path and triangle); with the forEach a phase holds up to four expanded actions.

- `RejectsExactlyCycles`: rejection is equivalent to the existence of a set of
  actions that wait for each other (no reference to Kahn's algorithm).
- `PhasesAreLayers`: every action is in one phase, after all its dependencies
  and as early as that allows.
- `SplitSeparatesExclusive`, `SplitIsTight`: no sub-phase holds an excluded
  pair, whichever side declares it; the order still respects dependencies;
  nothing is lost or repeated; a phase is not cut more often than the conflicts
  of one action justify.
- `IterationsShareDependencies`: a reference to a forEach action means all its
  iterations; iterations do not wait for each other; the other section orders
  nothing.

### What is proved

`GraphBuildProofs`, for every set of well-formed sections (`SectionsAssumption`), of
any number of actions and iterations:

| theorem | statement |
|---|---|
| `CyclesRejected` | `Spec => []RejectsExactlyCycles` |
| `PhasesLayered` | `Spec => []PhasesAreLayers` |
| `SplitSeparates` | `Spec => []SplitSeparatesExclusive` |
| `SplitComplete` | `Spec => []SplitIsTight` |
| `IterationsShare` | `Spec => []IterationsShareDependencies` |

There is one step, so the work is in the operators, and their facts are the lemmas of
`ActionGraphProofs`. The loops of the code are recursive *functions* here. The induction
theorems of the library take an operator as a parameter, which the provers cannot
instantiate; the lemmas argue with *sets* instead: the rounds in which a fact about the
loop fails form a set of naturals, and its least element (`LeastOf`, from the
well-foundedness of `<`) is not the first round and has a predecessor without the fact.

- *Kahn's rounds.* `KahnInv` says that after each round the phases so far are disjoint,
  cover what has left `inDegree`, and are as early as dependencies allow, and that
  in-degrees count the dependencies still open (`CountsDown`). It holds for the first
  round (`FirstInv`) and is kept by each (`NextInv`). As every round with something
  ready removes an action, what is left after as many rounds as there are actions
  waits for itself (`LeftOverWaits`), which gives `RejectedAreCyclic`; conversely a set
  that waits for itself never has a first member to leave.
- *Colouring.* The least colour that coloured neighbours have not used exists and is at
  most their number (`LeastUnusedIs`); so neighbours differ (`ColoursAre`,
  `ColourFacts`), no colour below the greatest is unused, and the action with the
  greatest colour has a conflict for each sub-phase but its own (`SplitPhaseIs`).
- *Flattening.* `FlattenIs` places each sub-phase of each phase in the order, phase by
  phase (`Placing`), from which `OrderSeparates`, `OrderComplete` and `OrderTight` follow.

## 3. WorkflowExecutor

### Correspondence

| in the module | in the code |
|---|---|
| `section`, `phase`, `stage` | `Execute` between and inside its two calls of `executePhases`; `wait` is `wg.Wait()` in `executePhase`, `end` an early return |
| `ctx`, `detached`, `actx` | the run's context; `finallyCtx` being `context.Background()`; the `actionCtx` of `executeAction` |
| `errs`, `sectionErr` | `errChan` of the phase; `mainErr`, `finallyErr` |
| `status` | the action's record in `Context`, `skipped` split by `SkipReason` |
| `pc`, `attempts` | where the goroutine of an action is; calls made by `ExecuteWithRetry` |
| `StartPhase`, `EndPhase`, `AbandonSection` | the three ways through one turn of the `executePhases` loop |
| `EnterFinally`, `Report` | the rest of `Execute`, with `determineFinalStatus` |
| `AcquireSlot`, `CancelAtSemaphore` | the `select` on semaphore and `ctx.Done()`, either branch when both are ready |
| `SkipAction`, `FailPreparation`, `MarkRunning`, `TimeOut`, `Fail`, `Succeed` | the ways through `executeAction` |
| `RetryLoop`, `RetryDelay`, `ProviderReturns` | `ExecuteWithRetry` |
| `Cancel`, `Expire` | the caller, and the timers of the contexts |

Free choices: what conditions evaluate to, whether inputs resolve, whether
fingerprints match, what a provider returns, whether `retryIf` agrees, whether a
result fits its schema. `ContinueOn` is each action's `onError` and
`continueOnError` policy: the kinds of error after which it goes on. A provider's
error may be `"typed"` (an HTTP status, an exit code), and the goroutine asks the
policy with that error; the coordinator asks again after the phase
(`AllContinue`, executor.go:427) with an error made from the recorded message, so
that it sees the kind `"message"` whatever happened. An expression is taken to
depend on the error only: that a done context could change its answer is left
out. `attempts` and `actx` are reset when `executeAction` returns, which
is when the variables they stand for go out of scope. Progress callbacks, spans
and the dedup memo are left out.

### Properties

Invariants: `TypeOK` (with the bound on attempts), `RunsOnGoodDependencies`,
`HardFailureStopsSection`, `AccountsForAll`, `SuccessIsComplete`,
`PartialMeansMainCompleted`, `ExclusiveNeverOverlap` (of `WorkflowRun`: the executor
itself does not know exclusions). Action
property: `RecordsAreFinal`. Liveness: `RunReports`, `CleanupAfterCancel`.
Refinement: `ImplementsDagRun`.

`RunsOnGoodDependencies` deserves its run because the skip check of
`executePhase` looks only for failed or timed-out *direct* dependencies. That no
action starts beside a pending, running or cancelled dependency follows from the
phase barrier, the order `BuildGraph` computed and the early return on a done
context together, not from any one check.

**DagRun** states the promise without phases, goroutines or contexts: an action
becomes active only when its dependencies are over and did not block, cleanup
actions only when no other action is active, nothing runs twice, and the run
reports once when nothing is active. The refinement mapping `DagState` calls an
action active while its goroutine holds a semaphore slot. A skipped action
*passes*: its dependents run. Skipping is therefore not transitive in the code,
and `DagRun` says so.

### Instance and bounds

**Run `workflow`** (168605 states): main is `{1,3}, {2}, {4}` where 2 excludes 1
(so it gets a sub-phase of its own), 4 depends on 1, 3 is tried twice, any
failure of 1 is continued and one of 3 by its type; finally is `{5}, {6}` with 6 after 5. One
concurrency slot. `BuiltGraph`, an assumption of `WorkflowRun`, ties this order to what
`ActionGraph` computes for the workflow, and TLC evaluates it. The instance has the interesting
combinations: two goroutines contending for one slot while the context ends; a
hard and a soft failure in one phase; a phase that is left because all its
actions were skipped; a phase after a split; cancellation before, in and after
each section. Two attempts reach first call, retry and last call. More phases
or actions repeat these cases; the proofs cover every workflow.

### Fairness

Weak fairness of the coordinator and of every goroutine: the Go scheduler runs
them, and a provider call is assumed to return, since `wg.Wait` has no bound of
its own. There is no fairness for `Cancel` and `Expire`; a run need not be
cancelled and an action need not time out.

### What is proved

For every set of actions, every order and dependency function such that a
dependency lies in an earlier phase (`OrderAssumption`, `DepsAssumption`: what
`ActionGraph` computes, see `GraphFitsExecutor`), every policy and every number of attempts
and slots (`PolicyAssumption`, any `ContinueOn`):

| theorem | statement |
|---|---|
| `Invariance` | `Spec => []IInv` |
| `TypeCorrect` | `Spec => []TypeOK` |
| `DependenciesHold` | `Spec => []RunsOnGoodDependencies` |
| `HardFailureStops` | `Spec => []HardFailureStopsSection` |
| `RecordsStay` | `Spec => RecordsAreFinal` |
| `DagRefinement` | `Spec => Dag!Init /\ [][Dag!Next]_(Dag!vars)` |
| `ReportInvariance` | `Spec => []ReportInv` |
| `AccountsHold` | `Spec => []AccountsForAll` |
| `SuccessHolds` | `Spec => []SuccessIsComplete` |
| `PartialHolds` | `Spec => []PartialMeansMainCompleted` |
| `GraphFitsExecutor` | the orders `BuildGraph` makes of an accepted workflow are as the assumptions say |
| `ExclusionHolds` | `Spec => []ExclusiveNeverOverlap` |

`RunsOnGoodDependencies` is not inductive: it speaks of the records of other
actions, and a step of the coordinator could change those if a dependency were
in the current or a later phase. The strengthening `IInv` is the conjunction of

- `TypeOK` and `RetryInv`: a retry loop that may call again has attempts left;
- `WaitInv`, `LiveInv`: only goroutines of the phase that is waited for are
  alive, their actions have no settled record, and their dependencies have good
  ones;
- `SectionInv`: seen from phase `i` of the current section, earlier phases are
  settled, later ones untouched, cancelled records exist only under a done
  context, and a hard failure only at the phase that stops the section, where it
  has sent an error;
- `NotBegunInv`: nothing of finally has happened before finally is entered;
- `HardFailureStopsSection` itself, which at `EndPhase` follows from the part of
  `SectionInv` about hard failures.

Preservation is proved once for the goroutine actions (`Advance` for those that
move inside `executeAction`, `Returning` for those that write a record) and per
coordinator action (`StartPhaseStructure`, `EndPhaseStructure`,
`AbandonSectionStructure`, `EnterSection`). `RecordsStay` and `DagRefinement` use the
same invariant; the refinement also needs `FinalInv` (a run that has reported
waits for no goroutine).

What the run reports is decided at
its end from flags that were set while it ran, so `IInv` is extended by
`ReportInv`, which says what those flags mean for the records:

- `EndInv`: a section that was left early has its error set and, unless the run
  was cancelled, has a record for each of its actions (`EndPhase` marks the
  actions of later phases);
- `MainOverInv`: when finally is entered, main is accounted for, and without an
  error of main every failure in it is one to continue after;
- `BlameInv`: a `dependency-failed` record is owed to a failure, so that a run
  without failures has none of these to report;
- `ReportedInv`: nothing is reported between the two sections.

The last two compose the executor with the graph builder, for any workflow of
well-formed sections that `BuildGraph` accepts. By `GraphFitsExecutor` the assumptions
above are not a restriction: they follow from the lemmas of `ActionGraphProofs`.
`ExclusionHolds` needs both sides: by `IInv` the goroutines at work belong to one
sub-phase of one section, and by `OrderSeparates` no two actions of a sub-phase exclude
each other (`PhaseIsExclusive`). It holds for iterations of forEach actions too.

Only model-checked: liveness (`RunReports`, `CleanupAfterCancel`) and the fairness part
of `DagRun`, as `ENABLED` is out of the prover's reach.

## 4. PluginPool

### Correspondence

A step is one critical section of `Pool.mu` or of an entry's `mu`, one registry
operation, or one call to a plugin process. What a goroutine keeps across an
unlock is its own state.

| in the module | in the code |
|---|---|
| `entries`, `entry`, `process` | `Pool.entries`, the `poolEntry` objects by identity, the processes behind their clients |
| `caller`, `held` | a goroutine in `EnsureAndAcquire` with the entry pointer it read; the entry whose refcount it incremented |
| `LookUp`, `CreateEntry` | `ensureOne` under `Pool.mu` |
| `Validate`, `WaitFails`, `GiveUp`, `Abandon` | `waitAndValidate` and `waitForEntry` |
| `Finish`, `Release`, `Drop` | the release function: the lookup by *name*, then the decrement |
| `Fetch`, `GetProviders`, `RegisterProvider`, `Publish`, `Close` | `spawn` |
| `TeardownEntry`, `Unregister`, `Kill` | `teardownEntry`, by whoever runs it (`teardown[w]`) |
| `PassTimeout`, `Evict`, `EvictorTeardown` | the eviction loop; `lastUsed` is the flag `idle` |
| `Ping`, `Pong`, `PingTeardown` | `Ping` and `markDead` |
| `CancelContext`, `ClosePool`, `ShutdownTeardown` | `Shutdown` |

Left out: `Adopt`, `Acquire` and `Ensure` without a reference, `Stats`, versions
and the overwrite flag of the registry, and the base provider configuration. The
wrapper's call for a provider's descriptor and its registration are one step.

### Runs and bounds

The plugin `p` declares itself and `b`, a name the host already has; request c1
needs `b` and `p`, request c2 needs `p` and `q`, where `q` is not on the
allowlist, so that an error makes c2 release `p`.

- **`plugin_pool`** (631k states): c1 serves one request, c2 two, without pings.
  `TypeOK`, `RecordedIsOwn`, `KilledIsUnregistered`. Three requests are the
  fewest in which a stale waiter of a failed spawn removes the map entry of a
  newer one; three entries are one per request, and a request creates at most
  one, so the bound `Entries` never keeps a request from creating its entry.
- **`plugin_pool_ping`** (223k states): each caller serves one request and `p` is
  pinged. `MappedIsAlive`, `KilledOnce`, `DeferredIsFinished`, `EnsureReturns`.
- Two runs show disagreements, section 9.

`LongTimeout = TRUE` says that the idle timeout (minutes) is longer than the
time from `Publish` to the end of the spawn goroutine and from a request's lookup
to its validation. It removes only evictions inside those windows and is the
weaker environment for the violation runs: the defect of
`plugin_pool_acquired` does not need a short timeout, as the entry may be idle
already when it is looked up. The invariants of `plugin_pool_ping` were also
checked with `LongTimeout = FALSE` (942k states).

`CHECK_DEADLOCK FALSE`: a pool whose callers have served their requests stops.

**Fairness.** The goroutines of requests and spawns run: a spawn is bounded by
its timeout and by the pool's context, and `Kill` returns. Nothing makes a request
begin or stop working, a tick or a ping come, or the server stop, and
`EnsureReturns` needs none of these.

### Properties

`MappedIsAlive` relates map, reference counts and processes: no interleaving of
evictor, pings and failed requests leaves in the map a ready or referenced entry
whose process is gone. `KilledOnce`: the client is taken by one of at most five
goroutines. `DeferredIsFinished` is about the kill that a teardown leaves to the
last `Release`. As `Release` looks the entry up by name, having references is not
enough: a deferred entry is `Stranded` when the requests whose release will reach it
(`Owing`) are fewer than its references, or when it has none left. The property says
that no step strands an entry that is in the map, with one exception, and so that
its last `Release`, or `Shutdown`, does kill it. What the code does strand is in
section 9: an entry acquired after it left the map, and, the exception, one that a
waiter of another entry of that name takes out of the map. The run reaches both.
`RecordedIsOwn` and `KilledIsUnregistered` tie the registry to the entries: a
teardown removes only names the entry really registered (never the host's `b`), and
a wrapper around a killed process is about to be removed. `EnsureReturns` is the wait for an entry,
on every error path of `spawn`.

### What is proved

`PluginPoolProofs`, for any plugins and declared providers, any requests, callers,
allowlist and limit, with and without `LongTimeout`, from `PoolAssumption` (well-formed
constants; finitely many callers, none of them one of the three background goroutines):

| theorem | statement |
|---|---|
| `Invariance` | `Spec => []IInv` |
| `TypeCorrect` | `Spec => []TypeOK` |
| `OwnProvidersOnly` | `Spec => []RecordedIsOwn` |
| `NoStaleWrapper` | `Spec => []KilledIsUnregistered` |
| `MapServes` | `Spec => []MappedIsAlive` |
| `OneKill` | `Spec => []KilledOnce` |
| `Owed` | `Spec => [](IInv /\ DeferInv)` |
| `DeferredFinishes` | `Spec => DeferredIsFinished` |

None but the type invariant is inductive by itself; they need each other. `IInv` is
`TypeOK` with

- `EntryInv`: what the state of an entry says of its spawn goroutine, its client and
  its process. An unfinished entry is never referenced, which is why `spawn` may
  publish without looking at `refs`; a deferred teardown has already taken the
  providers, which is why `Drop` may kill without unregistering;
- `ClaimInv`: a registered provider is claimed by exactly one place: its entry, the
  goroutine that is registering it, or a teardown that is about to remove it. Both
  registry theorems read off this; `KilledIsUnregistered` adds that a killed process
  belongs to an entry without claims;
- `KillInv`: who is about to kill has taken the client out of the entry, alone;
- `MapInv`: an entry in the map is of the name it is found under, has its client if it
  is ready or referenced, and has a deferred teardown only if it is dead. The eviction
  and `Shutdown` may therefore tear down what they took out of the map, and a stale
  waiter that deletes by name deletes only entries of that name;
- `WorkerInv`: a goroutine is done with one teardown before it begins another, and what
  the evictor, `Shutdown` and an abandoning request are to tear down is off the map and
  stays off;
- `PendingInv`: entries are numbered as they are made, so that a new one is fresh.

`IInv` was checked by TLC on the instances of both passing runs first. Reference counts
may be negative in it: `Release` goes by name and may decrement an entry it does not
hold, and no theorem assumes otherwise.

`DeferredFinishes` needs `DeferInv` as well: `AskInv`, a request holds nothing of the
plugins it has still to ask for, so that what it acquires is one more release to come;
and `OwedInv`, an entry in the map has no more references than there are requests whose
release reaches it (`Reaching`): a stray release by name may take a reference from such
an entry, but none is left that nobody will release. `OwedStep` counts these finite sets
of callers action by action. A step can then strand an entry only by taking it from the
map. The evictor takes entries without references and `Shutdown` kills what it takes,
which leaves the waiters (`DroppedFromMap`).

Only model-checked: `EnsureReturns` (liveness).

## 5. VersionPool

The pool that serves several versions of a plugin at a time. Against
`PluginPool` it adds what is particular to versions: the key of an entry may be
unknown until a fetch, outside the pool's lock, has resolved it.

| in the module | in the code |
|---|---|
| `index`, `store` | `VersionPool.index` (a `versionindex.Index`) and `VersionPool.store`; `Search` is the index's binary search by its contract, `AddVersion`, `DeleteVersion`, `GetConstraints` are its operations |
| `entry`, `process`, `spawner` | the `poolEntry` objects, their processes, and the goroutines that spawn them with the pin they hold |
| `pins` | pins on binaries in the versioned cache |
| `LookUp`, `LoadVersion`, `ResolveLatest` | `ensureOneByVersion`, `ensureOneByConstraint`, `ensureOneByLatest` up to their first section under `mu` |
| `Fetch`, `Redundant`, `Commit` | `fetchResolveCommit` |
| `Validate`, `Abandon`, `CallerTeardown` | `waitAndValidate`, `waitForEntry` |
| `FetchBinary`, `StartProcess`, `RegisterProvider`, `Publish` | `spawnWithEntry`, `spawnFromResult`, `startAndRegister` |
| `ReleaseOne` | `releaseEntry`, of each entry of `EnsureAndAcquire`'s list |
| `Evict`, `EvictorTeardown`, `CancelContext`, `ClosePool`, `ShutdownTeardown`, `TeardownEntry` | the eviction loop, `Shutdown`, `teardownEntry` |
| `Init`, `Adopt` | the empty pool, and the calls of `Adopt` at start-up (`serve.go:705`), of which none looks at the capacity; requests begin after them (`StartedUp`) |

**Run `version_pool`** (1528226 states): a pool with room for two, version 2
adopted, versions 1 and 3 in the catalog. One caller asks twice for exactly
version 1, the other for the latest version and, holding it, for a range that 2
and 3 satisfy. With three versions and two places the pool is full in some
interleavings and not in others; the range can be served by the adopted version,
by what "latest" loaded, or by a fetch; an exact version can fail, be abandoned
and be loaded again. `Entries = 3` bounds the objects made after start-up to two;
a request that would need another does not go on, and the lost-entry scenarios
need no more. There is no assumption on the idle timeout: any ready entry without
references may be evicted at any time.

- `PoolIsConsistent` is what the file's own comments promise of index and store
  (same versions, descending order, never more than `MaxPlugins`), across fetches
  outside the lock. What was adopted at start-up may alone exceed `MaxPlugins`; the
  pool then loads nothing before it has shrunk below it.
- `CountsAreExact`: references equal holders and pins equal the requests and
  spawners that answer for them, on every error path.
- `AliveIsReachable`: no running plugin is lost. The exception `displaced` is the
  defect described in section 9.

`CHECK_DEADLOCK FALSE`: callers that have served their requests stop. No fairness
is stated; progress of waiters is checked in `PluginPool`, which has the same
ready channel.

### What is proved

`VersionPoolProofs`, for any plugins, versions, catalog and preloaded plugins, any
callers with any requests, and any capacity, from `VersionPoolAssumption`
(well-formed constants):

| theorem | statement |
|---|---|
| `Invariance` | `Spec => []IInv` |
| `TypeCorrect` | `Spec => []TypeOK` |
| `IndexAgrees` | `Spec => []PoolIsConsistent` |
| `CountsHold` | `Spec => []CountsAreExact` |
| `NoPluginLost` | `Spec => []AliveIsReachable` |

*The index.* Versions are kept in a sequence, so the proofs rest on what its
operations do to any sequence of versions: `Search` finds a position
(`SearchFinds`); in a descending sequence that position tells whether the version
is there (`HasIsMember`); insertion and removal at it change the set of versions by
exactly one and keep the order (`AddVersionKeepsOrder`, `DeleteVersionKeepsOrder`).
An eviction takes out several versions at once and leaves the others in order
(`InOrder`). That such a sequence exists for every finite set (`OrderExists`) would be
an induction on its size; it is shown instead by a least counterexample, since the
induction theorems of the library cannot be instantiated.

*The invariant.* `IInv` is the four properties with

- `MadeInv`: entries are numbered as they are made, the first being those adopted, so
  that a new one is fresh; no request begins before start-up has ended;
- `StoreInv`: a stored entry is under its own plugin and version. What evictions,
  failed spawns and failed requests delete by key is therefore at most one entry, and
  the index loses the same version;
- `CapacityInv`: the store is finite and no larger than the entries made. With
  `MadeInv` this bounds it during start-up, when capacity is not looked at;
- `EntryInv`: an entry in the hands of its spawner is starting, and a spawner has
  no pin before its fetch and none once it is done;
- `HoldInv`, `CommittingInv`: holders and requests with a pin are finite sets, so that
  their cardinalities count;
- `AliveInv`: `AliveIsReachable` is not inductive: a starting entry has no client yet
  and would be free to leave the store before it has one. An entry being spawned
  is in the store, and a running one is there or known to whoever is about to
  tear it down, again until `Shutdown` and but for displaced entries.

A reference count equals its holders because `acquired` grows at its end and is
released from its front: the holders after a release are those before it without the
first, every other moved by one place, and this bijection gives the cardinality
(`HoldsTail`). The pins move from a committing request to the spawner it starts, so
the sum of the two cardinalities stays while one set loses and the other gains
(`PinsStep`). `NoPluginLost` has `displaced` as its only exception, so in the model
the defect of section 9 is the only way to lose a plugin before `Shutdown`.

`IInv` was checked by TLC on the instance of `version_pool` as well.

## 6. SecretStore

Processes share a directory of encrypted files and a chain of keyrings (OS
keyring, environment, key file). The mutex of a store orders one process only,
so a process is sequential and processes interleave between any two accesses to
a file or a keyring.

| in the module | in the code |
|---|---|
| `Answer`, `Keep`, `Shadows` | `chainKeyring.Get` and `Set`; a key stored behind a backend that answers first |
| `Start`, `CheckOrphans`, `DeleteOrphan`, `CreateKey` | `newStore`, `initMasterKey` with and without `WithOrphanCleanup` |
| `GetFails`, `DeleteCorrupted` | `Get` of a secret that does not decrypt |
| `Set`, `Delete` | the same |
| `StartRotate`, `ReadOne`, `NewKey`, `WriteOne`, `SetKey`, `RollbackOne` | `Rotate`; each write may fail |
| `End` | the process ends, at any step |
| `ToggleOs`, `ResetOs` | the OS keyring becomes unavailable, or loses its key |
| `stored`, `causes` | ghosts: what the last acknowledged write left, and what has happened that may lose a secret |

**Run `secrets`** (2249106 states): two names, two values, two processes, of
which one cleans orphans, at most two master keys. Two secrets make a rotation
that is half done; two keys are what one rotation, or two first starts, need. The orphans
are the files the check has listed; the code lists them again to delete them.
Names and values are symmetric.

- `LossHasCause`: outside a rotation every secret has its last acknowledged value
  under the key the next process will find, unless one of the named causes has
  happened: a rotation cut short by the end of its process or by a write that
  failed during the rollback, a key stored behind an answering backend, a backend
  that was unavailable or lost its key, processes that start or rotate beside each
  other. A failed write or a failed keyring call alone is *not* a cause: that the
  rollback repairs these is what the property says of `Rotate`.
- `DestroysOnlyUnreadable`: `Get` and the deletion of orphans remove only files
  for whose key no backend has an answer, under the same reservations.

Both say which reservations are needed; each of them was found as a
counterexample to the property without it (section 9).

`CHECK_DEADLOCK FALSE`: when the bound on keys is used up, processes may be left
at `generate`; ending is a step, so only a run without processes can stop.

### What is proved

`SecretStoreProofs`, for any number of secrets, values, processes and keys, from
`StoreAssumption`:

| theorem | statement |
|---|---|
| `TypeCorrect` | `Spec => []TypeOK` |
| `NothingLost` | `Spec => []LossHasCause` |
| `OnlyUnreadableDestroyed` | `Spec => DestroysOnlyUnreadable` |

`LossHasCause` speaks of moments without a rotation; the invariant has to say what is
true in the middle of one. `LossInv` says that as long as no cause has happened the
store is `Unharmed`: every process has the key of the keyring, a rotation that runs is
alone and has read every secret as it was stored, the files it has written so far
(`Touched`; for a rollback, those not yet restored) are under its new key, and all
others under the keyring's. `DestroysOnlyUnreadable` holds under fewer reservations, also
after rotations that were cut short, so it has an invariant of its own: while nobody
interfered the store is `Undisturbed`, each file being under the master key or under a
key that no backend holds. Both rest on `KeysInv` (keys are numbered as they are made,
so a new key differs from every key in a file, a keyring or a process).

## 7. RunState

Runs of a solution share state documents. A run is a process; a step is one
read or one write of a document (a rename) or work of one process between two.

| in the module | in the code |
|---|---|
| `Load`, `MissingLocks`, `MergeParameters` | `Manager.Load`, `CheckMissingLocks`, `MergeParameters` |
| `Resolve`, `Differs`, `Persisted` | the run of the resolvers followed by `VerifyImmutables` and `PersistResolvers` |
| `Checkpoint`, `Save`, `Targets`, `WriteTarget`, `ProjectState` | `Manager.Checkpoint`, `Save`, `write`, `writeTarget`, `projectState` |
| `Validation` | what `executeValidatePhase` and deferred validation leave: a value that passed, one its own rule rejected (status failed, the value stays), one whose deferred rule failed (status success) |
| `Act`, `Sees` | the workflow, between checkpoint and save; only `run solution` and `run action` come here. Under `--on-validation-error warn` it runs with values that failed validation too |
| `Stop` | an error or a crash between any two steps |
| `acted`, `accepted`, `overlap`, `torn` | ghosts: the immutable value each run's actions saw and how it was validated, parameters of completed runs, runs that met another's writes, places left by a run that stopped |

**Run `run_state`** (1871045 states): three runs, two at the same time, over two
documents and five state blocks: the loaded document with a checkpoint; without one
and with a condition; after a full copy; in the lean (intent) format after a full
copy, with `--allow-missing-locks`; and no document to load. The documents found at
the start are absent, or the loaded one has parameters only. Three runs
are the fewest in which one leaves a document, a second fails over it and a third
acts on what both left.

- `LocksAreKept`: every way in which a saved immutable value may change or
  disappear. In the loaded document these are an overlapping run and a lean
  target, nothing else.
- `ActionsAgree`: if the loaded document is an unconditional full checkpoint
  target and no runs overlap, then once actions have run with an immutable value
  that passed validation, the actions of every later run see the same one, wherever
  runs fail or crash, and also in a `warn` run whose deferred validation fails. This
  is what the checkpoint is for. Two kinds of `warn` runs are left out, because the
  code does not bind them (section 9): a run whose value its own rule rejected may
  act on any value, and a run whose deferred rule failed before there is a lock does
  not bind the runs after it.
- `ParametersSucceeded`: no document holds a parameter of a run that did not come
  to its end.

`CHECK_DEADLOCK FALSE`: all runs end.

### What is proved

`RunStateProofs`, for any runs, documents, state blocks, values and any degree of
parallelism, from `RunStateAssumption` (well-formed state blocks; a checkpoint is
full; a document without a creation time has no lock, which is how `projectState`
writes them):

| theorem | statement |
|---|---|
| `Invariance` | `Spec => []Inv` |
| `TypeCorrect` | `Spec => []TypeOK` |
| `ParametersHold` | `Spec => []ParametersSucceeded` |
| `AgreementHolds` | `Spec => ActionsAgree` |
| `LoadedLocksHold` | `Spec => LoadedLocksAreKept` |
| `LocksHold` | `Spec => LocksAreKept`, given `SavesWhatItLoads` and `LocksAgree` |

None of the properties is inductive, as they speak of documents and of
finished actions and not of what runs have in memory. `Inv` adds

- `TypeInv`: a record type for runs;
- `ParamInv`: what a run has loaded has an accepted parameter (a checkpoint
  writes the *loaded* parameter, not the merged one);
- `LockInv`: an active run that met no write of another has in memory the lock of
  the loaded document;
- `AgreeInv`: a value that passed validation and that actions saw is locked in the
  loaded document, and a run that is about to act on one is `Secured`: its lock is
  there, or is still to be written by its checkpoint;
- `VerifiedInv`: a run past `VerifyImmutables` does not differ from the lock it has in
  memory, whether its deferred validation failed or not.

`LoadedLocksAreKept` is the part of `LocksAreKept` about the document runs load, and
holds for every state block. A lock in a *copy* is another matter: a run knows it only
by way of the document it loads. `LocksHold` therefore has two hypotheses, on the state
blocks and on the documents that are found. `SavesWhatItLoads`: there is nothing to load,
there are no copies, or every save rewrites the loaded document, in one format.
`LocksAgree`: a lock in a copy is in the loaded document too, or that one is lean and
shows no trace. `RunStateMC` states, as the assumption `LocksCanBeKept`, that its
instance satisfies both. Neither can be dropped: if the loaded document has a creation
time and no lock and is never saved, nothing keeps a run from replacing the lock in a
copy.

Under them `CopyInv` is inductive: as long as no runs overlap,

- `SettledAgree`: the lock of every document that no run left behind, or is about to,
  is in the loaded document, or that one is lean and has lost it (`Lost`);
- `KnowsLocks`: a run at work has in memory the locks of these documents and of those it
  has written itself, or was blind when it loaded;
- `WillSettle`: a run in its last writes has the loaded document still to write, or has
  it in agreement with its memory.

`BlindInv` adds that a run with nothing to load is blind. A run that loads gets
`KnowsLocks` from `SettledAgree` (`LoadCopies`), work in memory keeps a lock it has
(`WorkCopies`), and a last write gives `SettledAgree` back from the other two
(`WriteCopies`). All three parts were checked by TLC on the instance of `run_state`, and
on one where copies have locks from the start, before they were proved.

## 8. ResolverExecutor

One run of `Executor.Execute`. Values are not told apart; what providers,
conditions and rules answer is free.

| in the module | in the code |
|---|---|
| `PhaseOf`, `Group`, `Units` | `BuildPhasesWithCalls`: phases, resolvers with deferred rules |
| `CheckDeps`, `Acquire`, `TimeOut`, `Expire` | the head of a goroutine of `executePhase`, the phase's timeout |
| `TryFails`, `TrackFailedAttempt` | `trackFailedAttempt`: a load and a store of the shared list |
| `Decide`, `TakeAttempts`, `StoreResult` | `executeResolver` and its deferred function |
| `EndPhase`, `Evaluate`, `RootCauseFirst`, `Return` | `Execute`, `runDeferredValidation`, `buildDeferredReportingPlan` |
| `policy` | none, `validateAll`, `nonFatalValidation` |
| `given`, `Shadowed` | mocked and seeded results; a name that a parameter of the run has too |

**Run `resolver`** (435884 states): resolvers a, b, d and then c, which depends on
a and d; the deferred rules of b and c refer to each other and a's refers to b,
so that the reporting order has a cycle and a tail. Each policy, one or two
slots, c plain, mocked or seeded with a failure (not with a skipped result, which
the code passes on as it is), and the phase's timeout at any moment.

- `RunsOnUsable`: a resolver runs only on dependencies that succeeded, were
  skipped by their own condition or, under the non-fatal policy, left a value that
  a rule rejected. The code decides this from the kind of failure, which is
  recorded apart from the result.
- `RecordsAreOwn`: a resolver that did not run leaves nothing under its name
  (unless something was there before), and with one slot the failed attempts
  reported for it are its own.
- `DeferredVerdicts`: deferred validation fails closed, and no two failed units
  refer to each other outside a cycle.
- `ReportsFailures`: an error is returned exactly if something failed.
- `Terminates`: under weak fairness of each goroutine and of `Execute`. Providers
  are assumed to return (`wg.Wait` has no bound of its own) and goroutines to be
  scheduled; nothing is assumed of the phase's timeout or of failing sources.

`CHECK_DEADLOCK FALSE`: the run ends.

### What is proved

`ResolverExecutorProofs`, for every finite set of resolvers, every policy, number of
slots and set of given results, from `ResolverExecutorAssumption`. That dependencies are
acyclic is stated as the existence of an order that respects them, and `RefersTo`
(which the reporting plan reads from the strongly connected components) as the least
set of pairs closed under the references, so that neither needs recursion:

| theorem | statement |
|---|---|
| `Invariance` | `Spec => []IInv` |
| `TypeCorrect` | `Spec => []TypeOK` |
| `OnlyOnUsable` | `Spec => []RunsOnUsable` |
| `OwnRecords` | `Spec => []RecordsAreOwn` |
| `FailsClosed` | `Spec => []DeferredVerdicts` |
| `FailuresReported` | `Spec => []ReportsFailures` |

The invariant ties the four places where the code records a resolver's end to each
other (`RecordInv`), says that phases run one after the other and a goroutine past its
dependency check has dependencies it may run on (`PhaseInv`), whose failed attempts the
shared list holds when there is one slot (`AttemptsInv`), what the deferred units
evaluated so far have left (`DeferredInv`), and what `Execute` returns. `BlameInv` is what
makes `ReportsFailures` true: a resolver that could not run is owed to one that failed.
That the reporting order evaluates a unit before the units that refer to it, but for
cycles, is proved from the definition of `RootCauseFirst` (lemmas on `RefersTo`).
Only model-checked: `Terminates` (liveness).

## 9. Findings and observations

Violation runs, each with a TLC trace:

1. `workflow_finally_cancelled`: `docs/design/actions.md:1368` says finally
   actions always execute regardless of cancellation. `executor.go:350` detaches
   the finally section only if the run is cancelled at its entry; a cancellation
   a moment later cancels its pending actions. What does hold is
   `CleanupAfterCancel`: a cancellation during main leaves finally untouched.
2. `workflow_recheck`: `executor.go:440-442` says that the second evaluation of
   `continueOnError` matches the decision `executeAction` already made. It is
   given an error made from the message (`executor.go:427`), so
   `__error.statusCode` and `__error.exitCode` are 0: an action that decided to go
   on by its status code stops the section when another action of the phase
   returned an error, though that one may be continued too.
3. `plugin_pool_acquired`: `pool.go:344-350` says the acquisition excludes
   eviction. The entry pointer is read under `Pool.mu` at `pool.go:392` and used
   after the unlock; an idle entry evicted in between keeps its state `ready`,
   and the request works with a killed process.
4. `plugin_pool_shutdown`: `pool.go:942` says `Shutdown` kills all managed
   plugin processes. An entry that is still starting has no client when
   `Shutdown` looks; the spawn that completes afterwards leaves its process alive.

Observations without a run of their own.

*Workflow executor*

- `docs/design/actions.md:363` defines dependency-failed by `onError: fail`, and
  line 495 says that after a continued failure all remaining actions execute;
  `executor.go:557` skips the direct dependents of any failure. Dependents of a
  *skipped* action run: only failures and timeouts skip.
- `NewErrorContext` recognises `HTTPError` ("Providers can return this error
  type", `error_context.go:111`) and the `ExitError` of `os/exec`, but not that of
  `pkg/exitcode`: the typed errors of finding 2 come from providers that return or
  wrap one of the first two.
- A cancelled main section marks the current phase only; actions of later phases
  have no record, although `docs/design/actions.md:1360-1363` describes pending
  actions as cancelled. `AccountsForAll` is therefore about runs that were not
  cancelled.
- A failure in finally that may not be continued is reported as partial success
  when main returned no error; the comment in `determineFinalStatus` speaks of
  failures with `onError: continue` only. `PartialMeansMainCompleted` states what
  the status does guarantee.

*Plugin pool*

- An entry that was evicted after a request read its pointer, and that the request
  then acquires (finding 3), is not found by `Release`, which goes by name
  (`pool.go:645-650`). If the evictor tears it down while it is referenced, the kill is
  deferred (`pool.go:722-729`) to a release that never comes: the process outlives the
  pool. The same happens to an entry that a waiter of another entry of its name deletes
  from the map (`pool.go:452`). Both are the exceptions of `DeferredIsFinished`.

*Versioned plugin pool*

- `waitForEntry` deletes a failed entry by plugin and version
  (`versionpool.go:923`); a newer entry that has taken its place is lost to the
  pool and its process runs until the program ends (`displaced`).
- A request that read an entry just before its teardown acquires a ready entry
  without a client, as in finding 3; `Shutdown` misses entries whose spawn
  publishes later, as in finding 4.
- `closed` is read outside the lock: an entry may be inserted after `Shutdown`.
  Its spawn fails, as the pool's context has ended.
- A provider that cannot be configured stays registered without the entry knowing,
  and no teardown removes it; a new entry can then not register its own.
- Versions that differ in build metadata only are equal for the index and
  different for the store. `Adopt` overwrites an entry that is there.

*Secret store*

- `store.go:284-286` says of `Rotate` that it is atomic. It is not when the
  process ends between the first write and the keyring's, nor when a write of the
  rollback fails (it is logged and passed over), nor when the OS keyring is
  unavailable and the new key is stored behind a backend that answers first later
  (`keyring.go:381`).
- `initMasterKey` cannot tell an OS keyring that is unavailable from one without a
  key; the command line opens the store with orphan cleanup (`root.go:535`), so
  one start at such a moment may delete every secret.
- Two first starts may each make a key; the secrets of one of them are lost. A
  process with the key of before another's rotation deletes good secrets when it
  reads them.

*Run state*

- `docs/design/two-phase-validation.md:117` says of `--on-validation-error warn`
  that state persistence is skipped; `run solution` and `run action` under that
  mode go on to checkpoint and save. Lines 75-77 (an action never executes against
  a value that failed a cross-resolver check) do not hold under it either.
- In such a run actions see immutable values that nothing binds. A value rejected by
  its resolver's own rule has the status failed (`resolver/executor.go:936-947`) and
  is handed to actions all the same (`common.go:715-725`), but neither locked
  (`immutable.go:84-87`) nor compared with a lock that is there
  (`immutable.go:172-175`). A value whose deferred rule failed is compared, but not
  locked for the first time (`immutable.go:92-98`): the actions of a later run may see,
  and its checkpoint lock, another one.
- Overlapping runs lose locks: nothing locks a document between load and write. A
  run that stops between two targets leaves copies that disagree. A lean target on
  the loaded document removes its locks.
- Where a rename over an existing file fails, `store.go:79-87` removes the
  destination first: a crash in between leaves no document.

*Resolver executor*

- A resolver skipped by its condition "must be truly absent from `_`"
  (`executor.go:727-728`), but if a parameter of the run has its name, the
  parameter is there already, as a success. `PersistResolvers` then takes the raw
  parameter for the resolver's value and may lock it.
- Failed attempts of concurrent resolvers are collected under one key by a load
  and a store (`executor.go:2005`): they are lost or reported with another
  resolver. `RecordsAreOwn` holds for one slot only.
- `until` that evaluates to false does not make the chain go on to the next source
  (`executor.go:1232-1247`); `docs/design/resolvers.md:420` and 489 say it does.
- Suppression of deferred rules is not transitive: a rule that refers to a failed
  one through a rule that passed or was suppressed is evaluated.

*Plugin transport*: a first initialisation of a lazy auth wrapper that fails is
remembered by its `sync.Once` for the life of the process.

## 10. Not modelled

- `pkg/cache` (TTL map, disk cache, versioned cache): derived data that is fetched
  again when an eviction was wrong; the pins are counted in `VersionPool`, the
  version index is modelled there. The call memo is a singleflight with a map. The
  token caches read and delete as `DeleteCorrupted` of `SecretStore` does, on
  tokens that can be fetched again. The fetch cooldown is one map under one mutex.
  The forEach executor is exported but not used by the workflow executor.
- Data conversion and static analysis: plugin transport, expressions and
  templates, fingerprints, lint, refactoring, schema. Their results are free
  choices of the models.
- I/O without a protocol of its own: solution preparation, catalog, HTTP client,
  Kubernetes login, OAuth, commands, configuration, terminal, API, MCP and LSP
  front ends. The API server's requests and `Shutdown` are the environment of
  the pools.

Most of the repository's lines are in these parts: providers, commands, lint,
catalog, schema and documentation tooling, sequential code whose correctness is
about the data it produces. The models cover the parts that keep shared state or
run concurrently; by lines that is a small share of the whole.

## 11. Plan

Done: `ActionGraph` with `GraphBuild`, `WorkflowExecutor` with `DagRun` and
`WorkflowRun`, `PluginPool`, `VersionPool`, `SecretStore`, `RunState`,
`ResolverExecutor`, and a module of proofs for each (two for the graph builder). No module
uses a `RECURSIVE` operator.

Proved: every invariant and every action property of the passing runs, and the safety
part of the refinement of `DagRun`, for every value of the constants; `LocksAreKept`
under the two hypotheses of section 7.

Only model-checked: the liveness properties `RunReports`, `CleanupAfterCancel`,
`EnsureReturns`, `Terminates`, and the fairness part of `ImplementsDagRun`. They rest on
`ENABLED` of fair actions, which the prover does not handle.

Models: `DiskCache` with its pins and deferred eviction, composed with the pins of
`VersionPool`; the composition of `ResolverExecutor` and `RunState`, so that what
is locked is what a run of the resolvers left.
