------------------------------ MODULE VersionPool ------------------------------
(***************************************************************************)
(* The version-aware pool of plugin processes of pkg/plugin/versionpool.go *)
(* over the version index of pkg/versionindex and the external tier of the *)
(* provider registry.  Entries are keyed by plugin identity and version,   *)
(* requests name an exact version, a range or "latest", and a fetch that   *)
(* finds out the version runs outside the pool's lock.                     *)
(*                                                                         *)
(* Versions are numbers by semver precedence; versions that differ in      *)
(* build metadata only are left out.  A plugin has one provider.  A step   *)
(* is one section under VersionPool.mu or poolEntry.mu, one call of the    *)
(* fetcher, the registry or a process.                                     *)
(***************************************************************************)
EXTENDS Integers, Sequences, FiniteSets, SequencesExt

CONSTANTS
  Plugin,      \* plugin identities: catalog and name
  Version,     \* their versions, as numbers
  Catalog,     \* the versions of each plugin its catalog has
  Preloaded,   \* plugin and version of the processes started before the pool
  MaxPlugins,  \* WithVersionPoolMaxPlugins: 0 is unlimited
  Caller,      \* goroutines that serve requests
  Wants,       \* the dependencies of a caller's requests, in order
  Requests,    \* bound: requests each caller serves
  Entries,     \* bound: poolEntry objects made in a run
  None         \* nil

Entry == 1..Entries
Artifact == Plugin \X Version

Dependency == [plugin : Plugin, by : {"version", "constraint", "latest"},
               accepts : SUBSET Version]

ASSUME VersionPoolAssumption ==
  /\ Version \subseteq Nat /\ MaxPlugins \in Nat /\ Entries \in Nat
  /\ Catalog \in [Plugin -> SUBSET Version]
  /\ Preloaded \in Seq(Artifact) /\ Len(Preloaded) <= Entries /\ IsInjective(Preloaded)
  /\ Wants \in [Caller -> Seq(Dependency)] /\ \A c \in Caller : Wants[c] # <<>>
  /\ \A c \in Caller : \A i \in DOMAIN Wants[c] :
       /\ Wants[c][i].by = "latest" => Wants[c][i].accepts = Version
       /\ Wants[c][i].by = "version" => \E v \in Version : Wants[c][i].accepts = {v}
  /\ Requests \in [Caller -> Nat]
  /\ None \notin Nat

VARIABLES
  closed,     \* VersionPool.closed
  cancelled,  \* the pool's context ended
  index,      \* VersionPool.index: the versions of each plugin, in its order
  store,      \* VersionPool.store: the entry under each plugin and version
  entry,      \* the poolEntry objects
  process,    \* the process behind the entry's client
  spawner,    \* the goroutine that spawns the entry, and its cache pin
  registry,   \* the external providers: the entry behind each wrapper
  pins,       \* pins on cached binaries
  caller,     \* where a request is, its entry pointer, the version it resolved
  acquired,   \* EnsureAndAcquire's list of entries
  served,     \* requests begun by each caller
  teardown,   \* what a goroutine still has to unregister and to kill
  victims,    \* entries the evictor and Shutdown took out of the store
  displaced   \* entries whose place a request that waited for another cleared

vars == <<closed, cancelled, index, store, entry, process, spawner, registry, pins,
          caller, acquired, served, teardown, victims, displaced>>

-----------------------------------------------------------------------------
(* The version index: versions in descending order, without duplicates. *)

\* search: the first position whose version is not greater.
Search(vs, v) ==
  CHOOSE i \in 1..Len(vs) + 1 :
    /\ \A j \in 1..i - 1 : vs[j] > v
    /\ i <= Len(vs) => vs[i] <= v

HasVersion(vs, v) == Search(vs, v) <= Len(vs) /\ vs[Search(vs, v)] = v

AddVersion(vs, v) == IF HasVersion(vs, v) THEN vs ELSE InsertAt(vs, Search(vs, v), v)

DeleteVersion(vs, v) == IF HasVersion(vs, v) THEN RemoveAt(vs, Search(vs, v)) ELSE vs

\* The versions of a finite set in the index's order: what several deletions leave.
Descending(vs) == \A i, j \in DOMAIN vs : i < j => vs[i] > vs[j]
InOrder(S) == CHOOSE vs \in [1..Cardinality(S) -> S] : Descending(vs) /\ Range(vs) = S

\* The first that satisfies the constraint, None if none does.
GetConstraints(vs, accepts) ==
  LET ok == {i \in DOMAIN vs : vs[i] \in accepts}
  IN IF ok = {} THEN None ELSE vs[Min(ok)]

-----------------------------------------------------------------------------

NoEntry == [plugin |-> None, version |-> None, state |-> "unused", refs |-> 0,
            client |-> FALSE, pendingKill |-> FALSE, provider |-> FALSE]

NewEntry(p, v) == [NoEntry EXCEPT !.plugin = p, !.version = v, !.state = "starting"]

Key(e) == <<entry[e].plugin, entry[e].version>>
Stored == {a \in Artifact : store[a] # None}
Made   == {e \in Entry : entry[e].state # "unused"}
Fresh  == Cardinality(Made) + 1

Worker == Caller \cup {"evictor", "shutdown"}
NoTeardown == [unregister |-> None, kill |-> None]
Idle(w) == teardown[w] = NoTeardown

Init ==
  /\ closed = FALSE /\ cancelled = FALSE
  /\ index = [p \in Plugin |-> <<>>]
  /\ store = [a \in Artifact |-> None]
  /\ entry = [e \in Entry |-> NoEntry]
  /\ process = [e \in Entry |-> "none"]
  /\ spawner = [e \in Entry |-> [pc |-> "off", pin |-> FALSE, registered |-> FALSE]]
  /\ registry = [a \in Artifact |-> None]
  /\ pins = 0
  /\ caller = [c \in Caller |-> [pc |-> "idle", at |-> 1, ptr |-> None, version |-> None]]
  /\ acquired = [c \in Caller |-> <<>>]
  /\ served = [c \in Caller |-> 0]
  /\ teardown = [w \in Worker |-> NoTeardown]
  /\ victims = [w \in {"evictor", "shutdown"} |-> {}]
  /\ displaced = {}

-----------------------------------------------------------------------------
(* insert, delete and checkCapacity, under VersionPool.mu. *)

\* Faulty variant: one plugin too many.
LateFull == MaxPlugins > 0 /\ Cardinality(Stored) > MaxPlugins

Full == MaxPlugins > 0 /\ Cardinality(Stored) >= MaxPlugins

Insert(p, v, e) ==
  /\ index' = [index EXCEPT ![p] = AddVersion(@, v)]
  /\ store' = [store EXCEPT ![<<p, v>>] = e]

Forget(p, v) ==
  /\ index' = [index EXCEPT ![p] = DeleteVersion(@, v)]
  /\ store' = [store EXCEPT ![<<p, v>>] = None]

\* GetByVersion and GetByConstraint; None when the pool has nothing.
Found(p, v) == IF v # None /\ HasVersion(index[p], v) THEN store[<<p, v>>] ELSE None

-----------------------------------------------------------------------------
(* Start-up: the plugins loaded before the pool, with their providers, are *)
(* adopted one by one, whatever the capacity; then requests are served.    *)

StartedUp == Cardinality(Made) >= Len(Preloaded)

Adopt ==
  /\ ~StartedUp /\ ~closed
  /\ LET p == Preloaded[Fresh][1]
         v == Preloaded[Fresh][2]
     IN /\ Insert(p, v, Fresh)
        /\ entry' = [entry EXCEPT ![Fresh] = [NewEntry(p, v) EXCEPT
                       !.state = "ready", !.client = TRUE, !.provider = TRUE]]
        /\ registry' = [registry EXCEPT ![<<p, v>>] = Fresh]
  /\ process' = [process EXCEPT ![Fresh] = "alive"]
  /\ spawner' = [spawner EXCEPT ![Fresh].pc = "done"]
  /\ UNCHANGED <<closed, cancelled, pins, caller, acquired, served, teardown, victims,
                 displaced>>

-----------------------------------------------------------------------------
(* Requests: EnsureAndAcquire over ensureOne, the work, the release. *)

Want(c) == Wants[c][caller[c].at]
Goto(c, loc) == caller' = [caller EXCEPT ![c].pc = loc]
WaitFor(c, e) == caller' = [caller EXCEPT ![c].pc = "wait", ![c].ptr = e, ![c].version = None]

\* Faulty variant: a request that failed still has its entry and its version.
FailsOnly(c) == Goto(c, "release")

Fails(c) == caller' = [caller EXCEPT ![c].pc = "release", ![c].ptr = None, ![c].version = None]

\* ensureOne begins with a look at closed, and goes on outside any lock: the look
\* is taken with the step before it, or with the one after (Reject).
Admitted == IF closed THEN "release" ELSE "ensure"

Begin(c) ==
  /\ StartedUp
  /\ caller[c].pc = "idle" /\ served[c] < Requests[c]
  /\ served' = [served EXCEPT ![c] = @ + 1]
  /\ Goto(c, Admitted)
  /\ UNCHANGED <<closed, cancelled, index, store, entry, process, spawner, registry,
                 pins, acquired, teardown, victims, displaced>>

\* The new entry, with its spawner at the given place.
Spawning(p, v, loc, pinned) ==
  /\ Fresh \in Entry
  /\ Insert(p, v, Fresh)
  /\ entry' = [entry EXCEPT ![Fresh] = NewEntry(p, v)]
  /\ spawner' = [spawner EXCEPT ![Fresh] = [pc |-> loc, pin |-> pinned, registered |-> FALSE]]

\* ensureOne rejects; ensureOneByLatest resolves the version, or fails.
Reject(c) ==
  /\ caller[c].pc = "ensure"
  /\ closed \/ Want(c).by = "latest"
  /\ Fails(c)
  /\ UNCHANGED <<closed, cancelled, index, store, entry, process, spawner, registry,
                 pins, acquired, served, teardown, victims, displaced>>

\* What the fetcher may resolve: a published version, not always the newest,
\* since it remembers resolutions for a while.
Resolvable(c) == Catalog[Want(c).plugin] \cap Want(c).accepts

ResolveLatest(c) ==
  /\ caller[c].pc = "ensure" /\ Want(c).by = "latest"
  /\ \E v \in Resolvable(c) :
       caller' = [caller EXCEPT ![c].pc = "look up", ![c].version = v]
  /\ UNCHANGED <<closed, cancelled, index, store, entry, process, spawner, registry,
                 pins, acquired, served, teardown, victims, displaced>>

\* What the pool has for the request: by the version of an exact pin or of
\* "latest", or the highest indexed version of a range.
Pinned(c) == CHOOSE v \in Want(c).accepts : TRUE

InPool(c) ==
  LET p == Want(c).plugin IN
  CASE Want(c).by = "latest"     -> Found(p, caller[c].version)
    [] Want(c).by = "version"    -> Found(p, Pinned(c))
    [] Want(c).by = "constraint" -> Found(p, GetConstraints(index[p], Want(c).accepts))

LookingUp(c) ==
  \/ caller[c].pc = "look up"
  \/ caller[c].pc = "ensure" /\ Want(c).by # "latest"

\* The first section under the lock: a hit, a full pool, a fetch to come ...
LookUp(c) ==
  /\ LookingUp(c)
  /\ \/ InPool(c) # None /\ WaitFor(c, InPool(c))
     \/ InPool(c) = None /\ Full /\ Fails(c)
     \/ InPool(c) = None /\ ~Full /\ Want(c).by # "version" /\ Goto(c, "fetch")
  /\ UNCHANGED <<closed, cancelled, index, store, entry, process, spawner, registry,
                 pins, acquired, served, teardown, victims, displaced>>

\* ... or, for an exact version, the entry.
LoadVersion(c) ==
  /\ LookingUp(c) /\ InPool(c) = None /\ ~Full /\ Want(c).by = "version"
  /\ Spawning(Want(c).plugin, Pinned(c), "fetch", FALSE)
  /\ WaitFor(c, Fresh)
  /\ UNCHANGED <<closed, cancelled, process, registry, pins, acquired, served,
                 teardown, victims, displaced>>

\* fetchResolveCommit: the fetch resolves the version and pins the binary ...
Fetch(c) ==
  /\ caller[c].pc = "fetch"
  /\ \/ Fails(c) /\ UNCHANGED pins
     \/ /\ \E v \in Resolvable(c) :
             caller' = [caller EXCEPT ![c].pc = "commit", ![c].version = v]
        /\ pins' = pins + 1
  /\ UNCHANGED <<closed, cancelled, index, store, entry, process, spawner, registry,
                 acquired, served, teardown, victims, displaced>>

\* Faulty variant: the version is not looked up again after the fetch.
NoSecondLook(c) == None

PooledMeanwhile(c) == Found(Want(c).plugin, caller[c].version)

\* Faulty variant: a fetch that came too late keeps its pin.
KeepPin == pins

ReleasePin == pins - 1

\* ... and the second section under the lock takes what is there by now, finds
\* the pool full, or commits the entry.
Redundant(c) ==
  /\ caller[c].pc = "commit"
  /\ \/ PooledMeanwhile(c) # None /\ WaitFor(c, PooledMeanwhile(c))
     \/ PooledMeanwhile(c) = None /\ Full /\ Fails(c)
  /\ pins' = ReleasePin
  /\ UNCHANGED <<closed, cancelled, index, store, entry, process, spawner, registry,
                 acquired, served, teardown, victims, displaced>>

Commit(c) ==
  /\ caller[c].pc = "commit" /\ PooledMeanwhile(c) = None /\ ~Full
  /\ Spawning(Want(c).plugin, caller[c].version, "start", TRUE)
  /\ WaitFor(c, Fresh)
  /\ UNCHANGED <<closed, cancelled, process, registry, pins, acquired, served,
                 teardown, victims, displaced>>

\* waitAndValidate: the reference is taken under entry.mu, and the next dependency
\* is up.
IsLast(c) == caller[c].at = Len(Wants[c])

Validate(c) ==
  LET e == caller[c].ptr IN
  /\ caller[c].pc = "wait" /\ entry[e].state = "ready"
  /\ entry' = [entry EXCEPT ![e].refs = @ + 1]
  /\ acquired' = [acquired EXCEPT ![c] = Append(@, e)]
  /\ caller' = [caller EXCEPT ![c].pc = IF IsLast(c) THEN "using" ELSE Admitted,
                              ![c].at = IF IsLast(c) THEN @ ELSE @ + 1,
                              ![c].ptr = None]
  /\ UNCHANGED <<closed, cancelled, index, store, process, spawner, registry, pins,
          served, teardown, victims, displaced>>

\* waitForEntry after an error, the entry's or the request's own: whatever entry
\* is under a dead entry's plugin and version goes.
Abandon(c) ==
  LET e == caller[c].ptr IN
  /\ caller[c].pc = "wait"
  /\ IF entry[e].state = "dead" /\ entry[e].refs = 0
     THEN /\ Forget(entry[e].plugin, entry[e].version)
          /\ displaced' = displaced \cup ({store[Key(e)]} \ {None, e})
          /\ Goto(c, "teardown")
     ELSE Fails(c) /\ UNCHANGED <<index, store, displaced>>
  /\ UNCHANGED <<closed, cancelled, entry, process, spawner, registry, pins,
                 acquired, served, teardown, victims>>

\* releaseEntry, on the entry itself; the last reference finishes a deferred
\* teardown.
Released(c) == Head(acquired[c])

Drains(e) == entry[e].refs <= 1 /\ entry[e].pendingKill

ReleaseOne(c) ==
  /\ caller[c].pc \in {"using", "release"} /\ Idle(c)
  /\ IF acquired[c] = <<>>
     THEN /\ caller' = [caller EXCEPT ![c] = [pc |-> "idle", at |-> 1, ptr |-> None,
                                              version |-> None]]
          /\ UNCHANGED <<entry, acquired, teardown>>
     ELSE /\ LET e == Released(c) IN
             /\ entry' = [entry EXCEPT ![e].refs = @ - 1,
                                       ![e].client = @ /\ ~Drains(e),
                                       ![e].pendingKill = @ /\ ~Drains(e)]
             /\ teardown' = [teardown EXCEPT ![c].kill =
                               IF Drains(e) /\ entry[e].client THEN e ELSE None]
          /\ acquired' = [acquired EXCEPT ![c] = Tail(@)]
          /\ Goto(c, "release")
  /\ UNCHANGED <<closed, cancelled, index, store, process, spawner, registry, pins,
          served, victims, displaced>>

-----------------------------------------------------------------------------
(* The spawner of an entry: spawnWithEntry, spawnFromResult, startAndRegister. *)

Unpinned(e) == pins - (IF spawner[e].pin THEN 1 ELSE 0)
SpawnerAt(e, loc) == [spawner EXCEPT ![e].pc = loc]
SpawnerDone(e) == [spawner EXCEPT ![e].pc = "done", ![e].pin = FALSE]

\* failWith, and the deferred release of the pin and close(entry.ready).
SpawnFails(e) ==
  /\ entry' = [entry EXCEPT ![e].state = "dead"]
  /\ spawner' = SpawnerDone(e)
  /\ pins' = Unpinned(e)

\* For an exact version the binary is fetched by the spawner.
FetchBinary(e) ==
  /\ spawner[e].pc = "fetch"
  /\ \/ SpawnFails(e)
     \/ /\ entry[e].version \in Catalog[entry[e].plugin] /\ ~cancelled
        /\ spawner' = [spawner EXCEPT ![e].pc = "start", ![e].pin = TRUE]
        /\ pins' = pins + 1
        /\ UNCHANGED entry
  /\ UNCHANGED <<closed, cancelled, index, store, process, registry, caller, acquired,
                 served, teardown, victims, displaced>>

\* The process starts or does not, and GetProviders answers or it is killed.
StartProcess(e) ==
  /\ spawner[e].pc = "start"
  /\ \/ SpawnFails(e) /\ process' \in {process, [process EXCEPT ![e] = "killed"]}
     \/ /\ ~cancelled
        /\ process' = [process EXCEPT ![e] = "alive"]
        /\ spawner' = SpawnerAt(e, "register")
        /\ UNCHANGED <<entry, pins>>
  /\ UNCHANGED <<closed, cancelled, index, store, registry, caller, acquired, served,
                 teardown, victims, displaced>>

\* A provider that is registered already, or cannot be wrapped, is left out; one
\* that cannot be configured stays in the registry without a record.
RegisterProvider(e) ==
  /\ spawner[e].pc = "register"
  /\ \/ UNCHANGED registry /\ spawner' = SpawnerAt(e, "publish")
     \/ /\ registry[Key(e)] = None
        /\ registry' = [registry EXCEPT ![Key(e)] = e]
        /\ \E configured \in BOOLEAN :
             spawner' = [spawner EXCEPT ![e].pc = "publish", ![e].registered = configured]
  /\ UNCHANGED <<closed, cancelled, index, store, entry, process, pins, caller, acquired,
                 served, teardown, victims, displaced>>

\* The entry is ready; then the pin is released and ready is closed.
Publish(e) ==
  /\ spawner[e].pc = "publish"
  /\ entry' = [entry EXCEPT ![e].state = "ready", ![e].client = TRUE,
                            ![e].provider = spawner[e].registered]
  /\ spawner' = [SpawnerDone(e) EXCEPT ![e].registered = FALSE]
  /\ pins' = Unpinned(e)
  /\ UNCHANGED <<closed, cancelled, index, store, process, registry, caller, acquired,
                 served, teardown, victims, displaced>>

-----------------------------------------------------------------------------
(* teardownEntry; the eviction loop; Shutdown. *)

Deferred(e) == entry[e].client /\ entry[e].refs > 0

TeardownEntry(w, e) ==
  /\ entry' = [entry EXCEPT ![e].provider = FALSE,
                            ![e].pendingKill = @ \/ Deferred(e),
                            ![e].client = Deferred(e)]
  /\ teardown' = [teardown EXCEPT ![w] =
       [unregister |-> IF entry[e].provider THEN Key(e) ELSE None,
        kill |-> IF entry[e].client /\ ~Deferred(e) THEN e ELSE None]]

\* The registry and the process, after the unlock.
FinishTeardown(w) ==
  /\ ~Idle(w)
  /\ registry' = [a \in Artifact |-> IF a = teardown[w].unregister THEN None ELSE registry[a]]
  /\ process' = [e \in Entry |-> IF e = teardown[w].kill THEN "killed" ELSE process[e]]
  /\ teardown' = [teardown EXCEPT ![w] = NoTeardown]
  /\ UNCHANGED <<closed, cancelled, index, store, entry, spawner, pins, caller, acquired,
                 served, victims, displaced>>

CallerTeardown(c) ==
  /\ caller[c].pc = "teardown"
  /\ TeardownEntry(c, caller[c].ptr)
  /\ Fails(c)
  /\ UNCHANGED <<closed, cancelled, index, store, process, spawner, registry, pins,
                 acquired, served, victims, displaced>>

\* evict under VersionPool.mu walks the index: dead entries, and those that are
\* idle for long enough.  The teardowns come later.
Evictable(e, state) == entry[e].refs = 0 /\ entry[e].state = state

Evict ==
  /\ ~cancelled /\ Idle("evictor") /\ victims["evictor"] = {}
  /\ \E long \in SUBSET Made :
       LET chosen == {a \in Stored : /\ HasVersion(index[a[1]], a[2])
                                     /\ \/ Evictable(store[a], "dead")
                                        \/ Evictable(store[a], "ready") /\ store[a] \in long}
       IN /\ chosen # {}
          /\ victims' = [victims EXCEPT !["evictor"] = {store[a] : a \in chosen}]
          /\ store' = [a \in Artifact |-> IF a \in chosen THEN None ELSE store[a]]
          /\ index' = [p \in Plugin |->
               InOrder({v \in Range(index[p]) : <<p, v>> \notin chosen})]
  /\ UNCHANGED <<closed, cancelled, entry, process, spawner, registry, pins, caller,
                 acquired, served, teardown, displaced>>

EvictorTeardown ==
  /\ Idle("evictor")
  /\ \E e \in victims["evictor"] :
       /\ TeardownEntry("evictor", e)
       /\ victims' = [victims EXCEPT !["evictor"] = @ \ {e}]
  /\ UNCHANGED <<closed, cancelled, index, store, process, spawner, registry, pins,
                 caller, acquired, served, displaced>>

CancelContext ==
  /\ ~cancelled /\ cancelled' = TRUE
  /\ UNCHANGED <<closed, index, store, entry, process, spawner, registry, pins, caller,
                 acquired, served, teardown, victims, displaced>>

ClosePool ==
  /\ StartedUp /\ cancelled /\ ~closed /\ closed' = TRUE
  /\ victims' = [victims EXCEPT !["shutdown"] = {store[a] : a \in Stored}]
  /\ index' = [p \in Plugin |-> <<>>]
  /\ store' = [a \in Artifact |-> None]
  /\ UNCHANGED <<cancelled, entry, process, spawner, registry, pins, caller, acquired,
                 served, teardown, displaced>>

\* Whoever uses the plugin, its client is taken and killed.
ShutdownTeardown ==
  /\ Idle("shutdown")
  /\ \E e \in victims["shutdown"] :
       /\ entry' = [entry EXCEPT ![e].provider = FALSE, ![e].client = FALSE]
       /\ teardown' = [teardown EXCEPT !["shutdown"] =
                         [unregister |-> IF entry[e].provider THEN Key(e) ELSE None,
                          kill |-> IF entry[e].client THEN e ELSE None]]
       /\ victims' = [victims EXCEPT !["shutdown"] = @ \ {e}]
  /\ UNCHANGED <<closed, cancelled, index, store, process, spawner, registry, pins,
                 caller, acquired, served, displaced>>

-----------------------------------------------------------------------------

Next ==
  \/ \E c \in Caller :
       \/ Begin(c) \/ Reject(c) \/ ResolveLatest(c) \/ LookUp(c) \/ LoadVersion(c)
       \/ Fetch(c) \/ Redundant(c) \/ Commit(c) \/ Validate(c) \/ Abandon(c)
       \/ ReleaseOne(c) \/ CallerTeardown(c)
  \/ \E e \in Entry :
       FetchBinary(e) \/ StartProcess(e) \/ RegisterProvider(e) \/ Publish(e)
  \/ \E w \in Worker : FinishTeardown(w)
  \/ Adopt \/ Evict \/ EvictorTeardown \/ CancelContext \/ ClosePool \/ ShutdownTeardown

Spec == Init /\ [][Next]_vars

-----------------------------------------------------------------------------
(* Properties *)

EntryRecord ==
  [plugin : Plugin \cup {None}, version : Version \cup {None},
   state : {"unused", "starting", "ready", "dead"}, refs : Nat,
   client : BOOLEAN, pendingKill : BOOLEAN, provider : BOOLEAN]
SpawnerRecord ==
  [pc : {"off", "fetch", "start", "register", "publish", "done"},
   pin : BOOLEAN, registered : BOOLEAN]
CallerRecord ==
  [pc : {"idle", "ensure", "look up", "fetch", "commit", "wait", "teardown", "using",
         "release"},
   at : Nat, ptr : Entry \cup {None}, version : Version \cup {None}]
TeardownRecord == [unregister : Artifact \cup {None}, kill : Entry \cup {None}]

\* Types: a request has an entry while it waits for one and a version while it
\* looks one up.
TypeOK ==
  /\ closed \in BOOLEAN /\ cancelled \in BOOLEAN
  /\ index \in [Plugin -> Seq(Version)]
  /\ store \in [Artifact -> Entry \cup {None}]
  /\ entry \in [Entry -> EntryRecord]
  /\ \A e \in Made : Key(e) \in Artifact
  /\ process \in [Entry -> {"none", "alive", "killed"}]
  /\ spawner \in [Entry -> SpawnerRecord]
  /\ registry \in [Artifact -> Entry \cup {None}]
  /\ pins \in Nat
  /\ caller \in [Caller -> CallerRecord]
  /\ \A c \in Caller :
       /\ caller[c].at \in DOMAIN Wants[c]
       /\ (caller[c].ptr # None) <=> caller[c].pc \in {"wait", "teardown"}
       /\ caller[c].ptr # None => caller[c].ptr \in Made
       /\ caller[c].version # None => caller[c].pc \in {"look up", "fetch", "commit"}
       /\ caller[c].pc = "commit" => caller[c].version # None
  /\ acquired \in [Caller -> Seq(Made)]
  /\ served \in [Caller -> Nat]
  /\ teardown \in [Worker -> TeardownRecord]
  /\ victims \in [{"evictor", "shutdown"} -> SUBSET Made]
  /\ displaced \subseteq Made

\* Every indexed version of a plugin has an entry, every entry an indexed version,
\* and the index is in descending order without duplicates, so that the first
\* that satisfies a range is the highest.
IndexMatchesStore ==
  \A p \in Plugin :
    /\ Range(index[p]) = {v \in Version : store[<<p, v>>] # None}
    /\ Descending(index[p])

\* The pool holds no more plugins than it may, or than it adopted.
WithinCapacity ==
  MaxPlugins > 0 => \/ Cardinality(Stored) <= MaxPlugins
                    \/ Cardinality(Stored) <= Len(Preloaded)

\* However requests that fetch outside the lock, failed spawns and evictions
\* interleave, the index and the store agree as the file's own invariants say, and
\* the pool is never overfull.
PoolIsConsistent == IndexMatchesStore /\ WithinCapacity

\* An entry's count is the number of its holders, and a deferred kill has one to
\* finish it.  Shutdown takes the client whatever the count.
Holds(e) == UNION {{c} \X {i \in DOMAIN acquired[c] : acquired[c][i] = e} : c \in Caller}

RefsAreHeld ==
  \A e \in Entry :
    /\ entry[e].refs = Cardinality(Holds(e))
    /\ entry[e].pendingKill => entry[e].refs > 0

\* A pin on a cached binary belongs to a request that fetched it or to a spawner
\* that has still to start it; otherwise the binary could never be evicted.
PinsAreAccounted ==
  pins = Cardinality({c \in Caller : caller[c].pc = "commit"})
       + Cardinality({e \in Entry : spawner[e].pin})

\* References and pins are counted without loss on every path of a request and of
\* a spawn: no plugin in use is evicted, and none is kept for ever.
CountsAreExact == RefsAreHeld /\ PinsAreAccounted

\* Until Shutdown a running plugin is in the store, or someone is about to tear
\* it down, or its last user is: except an entry whose place a failed request
\* cleared, taking it for its own.
AliveIsReachable ==
  \A e \in Entry :
    entry[e].client /\ ~cancelled /\ e \notin displaced =>
      \/ store[Key(e)] = e
      \/ e \in victims["evictor"]
      \/ entry[e].pendingKill
      \/ \E c \in Caller : caller[c].pc = "teardown" /\ caller[c].ptr = e
=============================================================================
