------------------------------ MODULE PluginPool ------------------------------
(***************************************************************************)
(* The pool of plugin processes of pkg/plugin/pool.go.  Requests (callers) *)
(* ensure the plugins they need and hold a reference to each while they    *)
(* work; a goroutine per new entry spawns the process; the eviction loop,  *)
(* Ping and Shutdown tear entries down.                                    *)
(*                                                                         *)
(* A step is one section under Pool.mu or poolEntry.mu, one operation of   *)
(* the provider registry, or one call to a plugin process.  What a         *)
(* goroutine read under a lock and uses after the unlock is its own state: *)
(* the entry pointer of a caller, the list of the evictor, the providers   *)
(* and the client a teardown took.                                         *)
(***************************************************************************)
EXTENDS Integers, Sequences, FiniteSets

CONSTANTS
  Name,        \* plugin names, the keys of Pool.entries
  Provider,    \* provider names, Name among them: Has is asked with a plugin name
  Declares,    \* the providers each plugin's GetProviders returns, in order
  Builtin,     \* providers of the host itself
  Allowed,     \* WithAllowedPlugins; empty under WithDisableExternal
  MaxPlugins,  \* WithMaxPlugins: 0 is unlimited
  Caller,      \* goroutines that serve requests
  Wants,       \* the plugins a request of the caller needs, in order
  Pinged,      \* plugins whose health is probed with Ping
  Requests,    \* bound: requests each caller serves
  LongTimeout, \* requests take less than the idle timeout from lookup to validation
  Entries,     \* bound: poolEntry objects made in a run
  None,        \* nil, and no entry
  Host         \* what stands behind a builtin provider

Entry == 1..Entries

ASSUME PoolAssumption ==
  /\ Name \subseteq Provider
  /\ Declares \in [Name -> Seq(Provider)] /\ Builtin \subseteq Provider
  /\ Allowed \subseteq Name /\ Pinged \subseteq Name
  /\ MaxPlugins \in Nat
  /\ Wants \in [Caller -> Seq(Name)] /\ Requests \in [Caller -> Nat]
  /\ \A c \in Caller : Wants[c] # <<>> /\ \A i, j \in DOMAIN Wants[c] : i # j => Wants[c][i] # Wants[c][j]
  /\ IsFiniteSet(Caller)
  /\ Caller \cap {"evictor", "pinger", "shutdown"} = {}
  /\ LongTimeout \in BOOLEAN /\ Entries \in Nat
  /\ None \notin Nat /\ Host \notin Nat /\ Host # None

VARIABLES
  closed,     \* Pool.closed
  cancelled,  \* the pool-lifetime context ended
  entries,    \* Pool.entries; None where there is no key
  entry,      \* the poolEntry objects
  process,    \* the plugin process behind the entry's client
  spawner,    \* the goroutine of spawn: where it is, what it has registered
  registry,   \* the shared provider registry: entry behind each wrapper
  caller,     \* where a request is, the index of its current plugin, its entry pointer
  held,       \* the entry on which a request took its reference, per plugin
  served,     \* requests begun by each caller
  teardown,   \* what a goroutine still has to unregister and to kill
  victims,    \* entries the evictor and Shutdown took out of the map
  pinged,     \* the entry pointer of Ping, None when it does not run
  down        \* Shutdown: "up", "stopping" after cancel, "killing" after clearing

background == {"evictor", "pinger", "shutdown"}
Worker == Caller \cup background
vars == <<closed, cancelled, entries, entry, process, spawner, registry,
          caller, held, served, teardown, victims, pinged, down>>
requests == <<caller, held, served>>

-----------------------------------------------------------------------------

NoEntry == [dep |-> None, state |-> "unused", refs |-> 0, client |-> FALSE,
            pendingKill |-> FALSE, providers |-> {}, ready |-> FALSE, idle |-> FALSE]

NoTeardown == [unregister |-> {}, kill |-> None]

Idle(w) == teardown[w] = NoTeardown
Mapped  == {n \in Name : entries[n] # None}
Pending == {e \in Entry : entry[e].state # "unused"}

Init ==
  /\ closed = FALSE /\ cancelled = FALSE /\ down = "up" /\ pinged = None
  /\ entries = [n \in Name |-> None]
  /\ entry = [e \in Entry |-> NoEntry]
  /\ process = [e \in Entry |-> "none"]
  /\ registry = [p \in Provider |-> IF p \in Builtin THEN Host ELSE None]
  /\ spawner = [e \in Entry |-> [pc |-> "off", left |-> <<>>, registered |-> {}]]
  /\ caller = [c \in Caller |-> [pc |-> "idle", at |-> 1, ptr |-> None]]
  /\ held = [c \in Caller |-> [n \in Name |-> None]]
  /\ served = [c \in Caller |-> 0]
  /\ teardown = [w \in Worker |-> NoTeardown]
  /\ victims = [w \in {"evictor", "shutdown"} |-> {}]

-----------------------------------------------------------------------------
(* teardownEntry, by any goroutine: one section under entry.mu decides, the *)
(* registry operations and the kill come after it.                          *)

\* Faulty variant: a teardown kills the client whoever uses it.
NeverDeferred(e) == entry[e].client /\ entry[e].refs < 0

Deferred(e) == entry[e].client /\ entry[e].refs > 0

\* Faulty variant: the client stays for the next teardown to kill again.
KeepsClient(e) ==
  [entry[e] EXCEPT !.providers = {}, !.pendingKill = Deferred(e) \/ entry[e].pendingKill]

TornDown(e) ==
  [entry[e] EXCEPT !.providers = {},
                   !.pendingKill = Deferred(e) \/ entry[e].pendingKill,
                   !.client = Deferred(e)]

\* Faulty variant: the kill of a client forgets its providers.
TakesClientOnly(e) ==
  [unregister |-> IF Deferred(e) THEN entry[e].providers ELSE {},
   kill |-> IF entry[e].client /\ ~Deferred(e) THEN e ELSE None]

TakenFrom(e) ==
  [unregister |-> entry[e].providers,
   kill |-> IF entry[e].client /\ ~Deferred(e) THEN e ELSE None]

TeardownEntry(w, e) ==
  /\ entry' = [entry EXCEPT ![e] = TornDown(e)]
  /\ teardown' = [teardown EXCEPT ![w] = TakenFrom(e)]

Unregister(w) ==
  /\ \E p \in teardown[w].unregister :
       /\ registry' = [registry EXCEPT ![p] = None]
       /\ teardown' = [teardown EXCEPT ![w].unregister = @ \ {p}]
  /\ UNCHANGED <<closed, cancelled, entries, entry, process, spawner, requests,
                 victims, pinged, down>>

Kill(w) ==
  /\ teardown[w].unregister = {} /\ teardown[w].kill # None
  /\ process' = [process EXCEPT ![teardown[w].kill] = "killed"]
  /\ teardown' = [teardown EXCEPT ![w] = NoTeardown]
  /\ UNCHANGED <<closed, cancelled, entries, entry, spawner, registry, requests,
                 victims, pinged, down>>

-----------------------------------------------------------------------------
(* Requests: EnsureAndAcquire, the work, and the release function. *)

Plugin(c) == Wants[c][caller[c].at]
MoveTo(c, loc, e) == [caller EXCEPT ![c].pc = loc, ![c].ptr = e]

WorkBegins(c)   == [pc |-> "using", at |-> caller[c].at, ptr |-> None]
EnsureAt(i)     == [pc |-> "ensure", at |-> i, ptr |-> None]

\* Faulty variant: the loop over the plugins runs past the last one.
NextPluginLate(c) ==
  [caller EXCEPT ![c] = IF @.at > Len(Wants[c]) THEN WorkBegins(c) ELSE EnsureAt(@.at + 1)]

\* The next plugin of the request, or the work once all are there.
NextPlugin(c) ==
  [caller EXCEPT ![c] = IF @.at = Len(Wants[c]) THEN WorkBegins(c) ELSE EnsureAt(@.at + 1)]

Begin(c) ==
  /\ caller[c].pc = "idle" /\ served[c] < Requests[c]
  /\ caller' = [caller EXCEPT ![c] = EnsureAt(1)]
  /\ served' = [served EXCEPT ![c] = @ + 1]
  /\ UNCHANGED <<closed, cancelled, entries, entry, process, spawner, registry, held,
                 teardown, victims, pinged, down>>

\* ensureOne under Pool.mu: an entry is waited for, a registered provider needs
\* none, and an error makes EnsureAndAcquire release what it took.
Registered(n) == registry[n] # None
Full == MaxPlugins > 0 /\ Cardinality(Mapped) >= MaxPlugins

LookUp(c) ==
  /\ caller[c].pc = "ensure"
  /\ LET n == Plugin(c) IN
     \/ closed /\ caller' = MoveTo(c, "release", None)
     \/ ~closed /\ n \in Mapped /\ caller' = MoveTo(c, "wait", entries[n])
     \/ ~closed /\ n \notin Mapped /\ Registered(n) /\ caller' = NextPlugin(c)
     \/ /\ ~closed /\ n \notin Mapped /\ ~Registered(n) /\ (n \notin Allowed \/ Full)
        /\ caller' = MoveTo(c, "release", None)
  /\ UNCHANGED <<closed, cancelled, entries, entry, process, spawner, registry, held,
                 served, teardown, victims, pinged, down>>

\* The placeholder goes into the map and spawn starts.
CreateEntry(c) ==
  LET n == Plugin(c)
      e == Cardinality(Pending) + 1
  IN /\ caller[c].pc = "ensure" /\ e \in Entry
     /\ ~closed /\ n \notin Mapped /\ ~Registered(n) /\ n \in Allowed /\ ~Full
     /\ entries' = [entries EXCEPT ![n] = e]
     /\ entry' = [entry EXCEPT ![e].dep = n, ![e].state = "starting"]
     /\ spawner' = [spawner EXCEPT ![e].pc = "fetch"]
     /\ caller' = MoveTo(c, "wait", e)
     /\ UNCHANGED <<closed, cancelled, process, registry, held, served, teardown,
                    victims, pinged, down>>

\* waitAndValidate, once ready is closed: the reference is taken under entry.mu.
Validate(c) ==
  LET e == caller[c].ptr IN
  /\ caller[c].pc = "wait" /\ entry[e].ready /\ entry[e].state # "dead"
  /\ entry' = [entry EXCEPT ![e].refs = @ + 1, ![e].idle = FALSE]
  /\ held' = [held EXCEPT ![c][Plugin(c)] = e]
  /\ caller' = NextPlugin(c)
  /\ UNCHANGED <<closed, cancelled, entries, process, spawner, registry, served,
                 teardown, victims, pinged, down>>

\* waitForEntry after an error: a dead unreferenced entry leaves the map by its
\* name, whatever the map holds under that name by now.
Abandon(c) ==
  LET e == caller[c].ptr IN
  /\ IF entry[e].state = "dead" /\ entry[e].refs = 0
     THEN /\ entries' = [entries EXCEPT ![Plugin(c)] = None]
          /\ caller' = MoveTo(c, "teardown", e)
     ELSE caller' = MoveTo(c, "release", None) /\ UNCHANGED entries
  /\ UNCHANGED <<closed, cancelled, entry, process, spawner, registry, held, served,
                 teardown, victims, pinged, down>>

\* The entry is dead, or the context of the request ends first.
WaitFails(c) == /\ caller[c].pc = "wait"
                /\ entry[caller[c].ptr].ready /\ entry[caller[c].ptr].state = "dead"
                /\ Abandon(c)

GiveUp(c) == caller[c].pc = "wait" /\ Abandon(c)

CallerTeardown(c) ==
  /\ caller[c].pc = "teardown"
  /\ TeardownEntry(c, caller[c].ptr)
  /\ caller' = MoveTo(c, "release", None)
  /\ UNCHANGED <<closed, cancelled, entries, process, spawner, registry, held, served,
                 victims, pinged, down>>

Acquired(c) == {n \in Name : held[c][n] # None}

\* Release(name): the lookup under Pool.mu, by name and not by entry ...
ReleaseLookUp(c) ==
  /\ \/ /\ Acquired(c) = {}
        /\ caller' = [caller EXCEPT ![c] = [pc |-> "idle", at |-> 1, ptr |-> None]]
        /\ UNCHANGED held
     \/ \E n \in Acquired(c) :
          /\ held' = [held EXCEPT ![c][n] = None]
          /\ caller' = IF n \in Mapped THEN MoveTo(c, "drop", entries[n])
                       ELSE MoveTo(c, "release", None)
  /\ UNCHANGED <<closed, cancelled, entries, entry, process, spawner, registry, served,
                 teardown, victims, pinged, down>>

Finish(c)  == caller[c].pc = "using" /\ ReleaseLookUp(c)
Release(c) == caller[c].pc = "release" /\ Idle(c) /\ ReleaseLookUp(c)

\* Faulty variant: the last reference does not finish the deferred teardown.
DrainsBelow(e) == entry[e].refs <= 0 /\ entry[e].pendingKill

\* ... and the decrement under entry.mu, which finishes a deferred teardown.
Drains(e) == entry[e].refs <= 1 /\ entry[e].pendingKill

Drop(c) ==
  LET e == caller[c].ptr IN
  /\ caller[c].pc = "drop"
  /\ entry' = [entry EXCEPT ![e].refs = @ - 1,
                            ![e].client = @ /\ ~Drains(e),
                            ![e].pendingKill = @ /\ ~Drains(e)]
  /\ teardown' = [teardown EXCEPT ![c].kill = IF Drains(e) /\ entry[e].client
                                              THEN e ELSE None]
  /\ caller' = MoveTo(c, "release", None)
  /\ UNCHANGED <<closed, cancelled, entries, process, spawner, registry, held, served,
                 victims, pinged, down>>

-----------------------------------------------------------------------------
(* spawn, in the goroutine of the entry, under the pool-lifetime context. *)

Spawns(e, loc) == [spawner EXCEPT ![e].pc = loc]

Fetch(e) ==
  /\ spawner[e].pc = "fetch"
  /\ \/ /\ process' = [process EXCEPT ![e] = "alive"]
        /\ spawner' = Spawns(e, "providers")
        /\ UNCHANGED entry
     \/ /\ entry' = [entry EXCEPT ![e].state = "dead"]
        /\ spawner' = Spawns(e, "close")
        /\ UNCHANGED process
  /\ UNCHANGED <<closed, cancelled, entries, registry, requests, teardown, victims,
                 pinged, down>>

\* A call to the process fails once the pool's context ended.
GetProviders(e) ==
  /\ spawner[e].pc = "providers"
  /\ \/ /\ ~cancelled
        /\ spawner' = [spawner EXCEPT ![e].pc = "register",
                                      ![e].left = Declares[entry[e].dep]]
        /\ UNCHANGED <<entry, process>>
     \/ /\ process' = [process EXCEPT ![e] = "killed"]
        /\ entry' = [entry EXCEPT ![e].state = "dead"]
        /\ spawner' = Spawns(e, "close")
  /\ UNCHANGED <<closed, cancelled, entries, registry, requests, teardown, victims,
                 pinged, down>>

\* One provider: Register refuses a name that is taken, and a wrapper whose
\* descriptor cannot be read is left out.
RegisterProvider(e) ==
  /\ spawner[e].pc = "register"
  /\ spawner[e].left # <<>>
  /\ LET p == Head(spawner[e].left) IN
       \/ /\ registry[p] = None /\ ~cancelled
          /\ registry' = [registry EXCEPT ![p] = e]
          /\ spawner' = [spawner EXCEPT ![e].left = Tail(@),
                                        ![e].registered = @ \cup {p}]
       \/ /\ spawner' = [spawner EXCEPT ![e].left = Tail(@)]
          /\ UNCHANGED registry
  /\ UNCHANGED <<closed, cancelled, entries, entry, process, requests, teardown,
                 victims, pinged, down>>

\* Faulty variant: the entry claims every provider its plugin declares.
ClaimAll(e) ==
  {Declares[entry[e].dep][i] : i \in DOMAIN Declares[entry[e].dep]}

OwnProviders(e) == spawner[e].registered

Publish(e) ==
  /\ spawner[e].pc = "register" /\ spawner[e].left = <<>>
  /\ entry' = [entry EXCEPT ![e].state = "ready", ![e].client = TRUE,
                            ![e].providers = OwnProviders(e)]
  /\ spawner' = [spawner EXCEPT ![e].pc = "close", ![e].registered = {}]
  /\ UNCHANGED <<closed, cancelled, entries, process, registry, requests, teardown,
                 victims, pinged, down>>

\* Faulty variant: a failed spawn does not wake the waiters.
CloseWhenReady(e) ==
  /\ spawner[e].pc = "close"
  /\ entry' = [entry EXCEPT ![e].ready = entry[e].state = "ready"]
  /\ spawner' = Spawns(e, "done")
  /\ UNCHANGED <<closed, cancelled, entries, process, registry, requests, teardown,
                 victims, pinged, down>>

\* The deferred close(entry.ready).
Close(e) ==
  /\ spawner[e].pc = "close"
  /\ entry' = [entry EXCEPT ![e].ready = TRUE]
  /\ spawner' = Spawns(e, "done")
  /\ UNCHANGED <<closed, cancelled, entries, process, registry, requests, teardown,
                 victims, pinged, down>>

Spawn(e) == Fetch(e) \/ GetProviders(e) \/ RegisterProvider(e) \/ Publish(e) \/ Close(e)

-----------------------------------------------------------------------------
(* The eviction loop, Ping and Shutdown. *)

\* More than the idle timeout has passed since lastUsed.
PassTimeout(e) ==
  /\ entry[e].state = "ready" /\ ~entry[e].idle
  /\ LongTimeout => /\ spawner[e].pc = "done"
                    /\ \A c \in Caller : caller[c].ptr # e
  /\ entry' = [entry EXCEPT ![e].idle = TRUE]
  /\ UNCHANGED <<closed, cancelled, entries, process, spawner, registry, requests,
                 teardown, victims, pinged, down>>

Evictable(e) ==
  /\ entry[e].refs = 0
  /\ \/ entry[e].state = "ready" /\ entry[e].idle
     \/ entry[e].state = "dead"

\* evict, under Pool.mu: the entries leave the map; their teardown comes later.
Evict ==
  LET names == {n \in Mapped : Evictable(entries[n])} IN
  /\ Idle("evictor") /\ victims["evictor"] = {} /\ names # {}
  /\ victims' = [victims EXCEPT !["evictor"] = {entries[n] : n \in names}]
  /\ entries' = [n \in Name |-> IF n \in names THEN None ELSE entries[n]]
  /\ UNCHANGED <<closed, cancelled, entry, process, spawner, registry, requests,
                 teardown, pinged, down>>

EvictorTeardown ==
  /\ Idle("evictor")
  /\ \E e \in victims["evictor"] :
       /\ TeardownEntry("evictor", e)
       /\ victims' = [victims EXCEPT !["evictor"] = @ \ {e}]
  /\ UNCHANGED <<closed, cancelled, entries, process, spawner, registry, requests,
                 pinged, down>>

Ping(n) ==
  /\ Idle("pinger") /\ pinged = None
  /\ n \in Mapped /\ entry[entries[n]].state = "ready"
  /\ pinged' = entries[n]
  /\ UNCHANGED <<closed, cancelled, entries, entry, process, spawner, registry,
                 requests, teardown, victims, down>>

\* The probe answers, or fails and markDead marks an entry that is not dead yet.
Pong ==
  /\ pinged # None /\ entry[pinged].state = "ready"
  /\ \/ pinged' = None /\ UNCHANGED entry
     \/ entry' = [entry EXCEPT ![pinged].state = "dead"] /\ UNCHANGED pinged
  /\ UNCHANGED <<closed, cancelled, entries, process, spawner, registry, requests,
                 teardown, victims, down>>

PingTeardown ==
  /\ pinged # None /\ entry[pinged].state = "dead"
  /\ TeardownEntry("pinger", pinged)
  /\ pinged' = None
  /\ UNCHANGED <<closed, cancelled, entries, process, spawner, registry, requests,
                 victims, down>>

CancelContext ==
  /\ down = "up"
  /\ down' = "stopping" /\ cancelled' = TRUE
  /\ UNCHANGED <<closed, entries, entry, process, spawner, registry, requests,
                 teardown, victims, pinged>>

ClosePool ==
  /\ down = "stopping"
  /\ down' = "killing" /\ closed' = TRUE
  /\ victims' = [victims EXCEPT !["shutdown"] = {entries[n] : n \in Mapped}]
  /\ entries' = [n \in Name |-> None]
  /\ UNCHANGED <<cancelled, entry, process, spawner, registry, requests, teardown,
                 pinged>>

\* Whoever uses the plugin, its client is taken and killed.
ShutdownTeardown ==
  /\ down = "killing" /\ Idle("shutdown")
  /\ \E e \in victims["shutdown"] :
       /\ entry' = [entry EXCEPT ![e].providers = {}, ![e].client = FALSE]
       /\ teardown' = [teardown EXCEPT !["shutdown"] =
                         [unregister |-> entry[e].providers,
                          kill |-> IF entry[e].client THEN e ELSE None]]
       /\ victims' = [victims EXCEPT !["shutdown"] = @ \ {e}]
  /\ UNCHANGED <<closed, cancelled, entries, process, spawner, registry, requests,
                 pinged, down>>

Down == down = "killing" /\ victims["shutdown"] = {} /\ Idle("shutdown")

-----------------------------------------------------------------------------

Request(c) == \/ LookUp(c) \/ CreateEntry(c) \/ Validate(c) \/ WaitFails(c)
              \/ CallerTeardown(c) \/ Release(c) \/ Drop(c)

Teardown(w) == Unregister(w) \/ Kill(w)

Next ==
  \/ \E c \in Caller : Begin(c) \/ Request(c) \/ GiveUp(c) \/ Finish(c)
  \/ \E w \in Worker : Teardown(w)
  \/ \E e \in Entry : Spawn(e)
  \/ (\E e \in Entry : PassTimeout(e)) \/ Evict \/ EvictorTeardown
  \/ (\E n \in Pinged : Ping(n)) \/ Pong \/ PingTeardown
  \/ CancelContext \/ ClosePool \/ ShutdownTeardown

\* The goroutines of requests and spawns run; a spawn is bounded by its timeout
\* and by the pool's context, and Kill returns.  Nothing makes a request stop
\* working or a tick come, and no request waits for a background teardown.
Fairness ==
  /\ \A c \in Caller : WF_vars(Request(c) \/ Teardown(c))
  /\ \A e \in Entry : WF_vars(Spawn(e))

Spec == Init /\ [][Next]_vars /\ Fairness

-----------------------------------------------------------------------------
(* Properties *)

EntryOrNone == Entry \cup {None}

EntryRecord ==
  [dep : Name \cup {None}, state : {"unused", "starting", "ready", "dead"}, refs : Int,
   client : BOOLEAN, pendingKill : BOOLEAN, providers : SUBSET Provider, ready : BOOLEAN,
   idle : BOOLEAN]

CallerRecord(c) ==
  [pc : {"idle", "ensure", "wait", "teardown", "using", "release", "drop"},
   at : 1..Len(Wants[c]), ptr : EntryOrNone]

SpawnerRecord ==
  [pc : {"off", "fetch", "providers", "register", "close", "done"}, left : Seq(Provider),
   registered : SUBSET Provider]

TeardownRecord == [unregister : SUBSET Provider, kill : EntryOrNone]

\* Types: a nil entry, client or provider appears only where the code allows it.
TypeOK ==
  /\ closed \in BOOLEAN /\ cancelled \in BOOLEAN
  /\ down \in {"up", "stopping", "killing"}
  /\ entries \in [Name -> EntryOrNone]
  /\ entry \in [Entry -> EntryRecord]
  /\ process \in [Entry -> {"none", "alive", "killed"}]
  /\ spawner \in [Entry -> SpawnerRecord]
  /\ registry \in [Provider -> EntryOrNone \cup {Host}]
  /\ DOMAIN caller = Caller /\ \A c \in Caller : caller[c] \in CallerRecord(c)
  /\ held \in [Caller -> [Name -> EntryOrNone]]
  /\ DOMAIN served = Caller /\ \A c \in Caller : served[c] \in 0..Requests[c]
  /\ teardown \in [Worker -> TeardownRecord]
  /\ victims \in [{"evictor", "shutdown"} -> SUBSET Entry]
  /\ pinged \in EntryOrNone

\* What the map hands out lives: an entry in the map that is ready, or that
\* someone references, has its process, whatever evictor, Ping and failed
\* requests tear down meanwhile.
MappedIsAlive ==
  \A n \in Mapped :
    LET e == entries[n] IN
    entry[e].state = "ready" \/ entry[e].refs > 0 => process[e] = "alive"

\* The provider registry is not left with a wrapper around a process the pool
\* has killed: if a lookup can still find one, a teardown is about to remove it.
KilledIsUnregistered ==
  \A p \in Provider :
    registry[p] \in Entry /\ process[registry[p]] = "killed" =>
      \E w \in Worker : p \in teardown[w].unregister

\* The providers an entry records are in the registry and are its own, so that
\* its teardown removes no other plugin's provider.
RecordedIsOwn ==
  \A e \in Entry : \A p \in entry[e].providers : registry[p] = e

\* A process is killed once: of all the goroutines that may tear its entry down
\* at most one is about to kill it, and it has not been killed yet.
KilledOnce ==
  \A w \in Worker :
    teardown[w].kill # None =>
      /\ process[teardown[w].kill] = "alive"
      /\ \A v \in Worker \ {w} : teardown[v].kill # teardown[w].kill

\* The requests whose Release will reach the entry: it looks the entry up by name,
\* and decrements what it found.
Owing(e) ==
  {c \in Caller : \/ caller[c].pc = "drop" /\ caller[c].ptr = e
                  \/ entries[entry[e].dep] = e /\ held[c][entry[e].dep] = e}

\* A deferred kill that no Release will bring about, nor Shutdown.
Stranded(e) ==
  /\ entry[e].pendingKill /\ entry[e].client /\ e \notin victims["shutdown"]
  /\ entry[e].refs \notin 1..Cardinality(Owing(e))

\* A deferred teardown leaves the kill to the last Release, and that comes: as many
\* releases will reach the entry as it has references, but for an entry that is not
\* in the map.  Such an entry has a reference that was taken after it was evicted,
\* by a request that still had the pointer, or a waiter of another entry of the same
\* name has removed it; Release does not find it, and the process is never killed.
DeferredIsFinished ==
  [][\A e \in Entry : Stranded(e)' =>
       \/ Stranded(e) \/ entries[entry[e].dep] # e
       \/ \E c \in Caller : /\ caller[c].pc = "wait" /\ caller[c].ptr # e
                            /\ Plugin(c) = entry[e].dep /\ entries'[Plugin(c)] = None]_vars

\* A request gets its plugins or an error: the wait for an entry ends, for a
\* failed spawn as for a good one.
EnsureReturns ==
  \A c \in Caller :
    caller[c].pc \in {"ensure", "wait", "teardown"} ~> caller[c].pc \in {"using", "idle"}

-----------------------------------------------------------------------------
(* What comments say and the pool does not do. *)

\* EnsureAndAcquire acquires the plugins, "preventing idle eviction for the
\* duration of the caller's work".
AcquiredIsAlive ==
  \A c \in Caller : caller[c].pc = "using" /\ down = "up" =>
    \A n \in Acquired(c) : process[held[c][n]] = "alive"

\* "Shutdown kills all managed plugin processes."  The work of the goroutines
\* that run when it returns is let finish first.
ShutdownKillsAll ==
  (/\ Down
   /\ \A w \in Worker : Idle(w)
   /\ victims["evictor"] = {} /\ pinged = None
   /\ \A c \in Caller : caller[c].pc = "idle"
   /\ \A e \in Entry : spawner[e].pc \in {"off", "done"})
    => \A e \in Entry : process[e] # "alive"
=============================================================================
