--------------------------- MODULE PluginPoolProofs ---------------------------
(***************************************************************************)
(* Proofs about PluginPool, for every set of plugins, callers and requests *)
(* and every allowlist and limit: TypeOK, RecordedIsOwn,                    *)
(* KilledIsUnregistered, MappedIsAlive, KilledOnce, DeferredIsFinished.     *)
(***************************************************************************)
EXTENDS PluginPool, FiniteSetTheorems, SequenceTheorems, TLAPS

Used(e)     == entry[e].state # "unused"
Finished(e) == entry[e].state \in {"ready", "dead"}
OffMap(e)   == \A n \in Name : entries[n] # e

\* An entry and the goroutine that spawns it.
EntryInv(e) ==
  /\ Used(e) <=> spawner[e].pc # "off"
  /\ entry[e].state = "starting" <=> spawner[e].pc \in {"fetch", "providers", "register"}
  /\ Used(e) => entry[e].dep \in Name
  /\ entry[e].ready => spawner[e].pc = "done"
  /\ entry[e].client => Finished(e) /\ process[e] = "alive"
  /\ entry[e].providers # {} => Finished(e)
  /\ ~Finished(e) => entry[e].refs <= 0
  /\ entry[e].pendingKill => entry[e].refs > 0 /\ entry[e].providers = {}
  /\ spawner[e].registered # {} => spawner[e].pc = "register"
  /\ spawner[e].pc \in {"providers", "register"} => process[e] = "alive"
  /\ spawner[e].pc \in {"off", "fetch"} => process[e] = "none"
  /\ process[e] = "killed" => entry[e].providers = {} /\ Finished(e)

\* A client is killed by the one that took it, after its providers were taken.
KillInv ==
  \A w \in Worker : teardown[w].kill # None =>
    LET e == teardown[w].kill IN
    /\ process[e] = "alive" /\ Finished(e) /\ ~entry[e].client /\ entry[e].providers = {}
    /\ \A v \in Worker \ {w} : teardown[v].kill # e

\* A registered provider is claimed once: by its entry, by the goroutine that
\* registers it, or by the teardown that is about to remove it.
Claims(e) == entry[e].providers \cup spawner[e].registered

ClaimInv ==
  /\ \A e \in Entry : \A p \in Claims(e) : registry[p] = e
  /\ \A w \in Worker : \A p \in teardown[w].unregister :
       /\ registry[p] \in Entry /\ p \notin Claims(registry[p])
       /\ \A v \in Worker \ {w} : p \notin teardown[v].unregister
  /\ \A p \in Provider : registry[p] \in Entry =>
       p \in Claims(registry[p]) \/ \E w \in Worker : p \in teardown[w].unregister

\* What goroutines point at; a teardown is over before the next one begins.
CallerInv(c) ==
  /\ caller[c].pc # "release" => Idle(c)
  /\ caller[c].pc \in {"wait", "teardown", "drop"} =>
       caller[c].ptr \in Entry /\ Used(caller[c].ptr)
  /\ caller[c].pc \in {"wait", "teardown"} => entry[caller[c].ptr].dep = Plugin(c)
  /\ caller[c].pc = "teardown" => OffMap(caller[c].ptr)

WorkerInv ==
  /\ \A c \in Caller : CallerInv(c)
  /\ pinged # None => Used(pinged) /\ Idle("pinger")
  /\ \A w \in {"evictor", "shutdown"} : \A e \in victims[w] : Used(e) /\ OffMap(e)

\* What the map holds under a name is an entry of that name with its client.
Serves(e) ==
  /\ entry[e].state = "ready" \/ entry[e].refs > 0 => entry[e].client
  /\ entry[e].pendingKill => entry[e].state = "dead"

MapInv ==
  \A n \in Mapped :
    Used(entries[n]) /\ entry[entries[n]].dep = n /\ Serves(entries[n])

\* Entries are numbered in the order they are made.
PendingInv == Pending = 1..Cardinality(Pending)

IInv ==
  /\ TypeOK /\ PendingInv /\ (\A e \in Entry : EntryInv(e)) /\ KillInv /\ ClaimInv
  /\ WorkerInv /\ MapInv
-----------------------------------------------------------------------------
(* Proofs of the lemmas: types. *)

LEMMA Nothings == None \notin Entry /\ Host \notin Entry /\ Host # None /\ Entries \in Nat
BY PoolAssumption DEF Entry

LEMMA IInvParts ==
  IInv => /\ TypeOK /\ PendingInv /\ (\A e \in Entry : EntryInv(e)) /\ KillInv /\ ClaimInv
          /\ WorkerInv /\ MapInv
BY DEF IInv

\* The fields of what the variables hold.
LEMMA EntryTypes ==
  ASSUME TypeOK, NEW e \in Entry
  PROVE  /\ entry[e].dep \in Name \cup {None}
         /\ entry[e].state \in {"unused", "starting", "ready", "dead"}
         /\ entry[e].refs \in Int /\ entry[e].client \in BOOLEAN
         /\ entry[e].pendingKill \in BOOLEAN /\ entry[e].providers \in SUBSET Provider
         /\ entry[e].ready \in BOOLEAN /\ entry[e].idle \in BOOLEAN
BY DEF TypeOK, EntryRecord

LEMMA SpawnerTypes ==
  ASSUME TypeOK, NEW e \in Entry
  PROVE  /\ spawner[e].pc \in {"off", "fetch", "providers", "register", "close", "done"}
         /\ spawner[e].left \in Seq(Provider) /\ spawner[e].registered \in SUBSET Provider
         /\ process[e] \in {"none", "alive", "killed"}
BY DEF TypeOK, SpawnerRecord

LEMMA CallerTypes ==
  ASSUME TypeOK, NEW c \in Caller
  PROVE  /\ caller[c].pc \in {"idle", "ensure", "wait", "teardown", "using", "release", "drop"}
         /\ caller[c].at \in 1..Len(Wants[c]) /\ caller[c].ptr \in EntryOrNone
         /\ Len(Wants[c]) \in Nat /\ Len(Wants[c]) >= 1 /\ Plugin(c) \in Name
<1>1. Wants[c] \in Seq(Name) /\ Wants[c] # <<>>
  BY PoolAssumption
<1>2. Len(Wants[c]) \in Nat /\ Len(Wants[c]) >= 1
  BY <1>1
<1>3. caller[c].at \in 1..Len(Wants[c])
  BY DEF TypeOK, CallerRecord
<1>4. Plugin(c) \in Name
  BY <1>1, <1>3 DEF Plugin
<1>. QED  BY <1>2, <1>3, <1>4 DEF TypeOK, CallerRecord

LEMMA TeardownTypes ==
  ASSUME TypeOK, NEW w \in Worker
  PROVE  /\ teardown[w].unregister \in SUBSET Provider /\ teardown[w].kill \in EntryOrNone
         /\ Idle(w) <=> teardown[w].unregister = {} /\ teardown[w].kill = None
<1>1. teardown[w] \in TeardownRecord
  BY DEF TypeOK
<1>2. teardown[w].unregister = {} /\ teardown[w].kill = None => teardown[w] = NoTeardown
  BY <1>1 DEF NoTeardown, TeardownRecord
<1>. QED  BY <1>1, <1>2 DEF Idle, NoTeardown, TeardownRecord

\* A caller's place, as the operators of PluginPool compute it.
LEMMA Moves ==
  ASSUME TypeOK, NEW c \in Caller, NEW loc, NEW e, caller' = MoveTo(c, loc, e)
  PROVE  /\ DOMAIN caller' = Caller /\ \A d \in Caller \ {c} : caller'[d] = caller[d]
         /\ caller'[c].pc = loc /\ caller'[c].ptr = e /\ caller'[c].at = caller[c].at
         /\ caller'[c] = [pc |-> loc, at |-> caller[c].at, ptr |-> e]
<1>1. caller[c] \in CallerRecord(c)
  BY DEF TypeOK
<1>2. DOMAIN caller = Caller
  BY DEF TypeOK
<1>. QED  BY <1>1, <1>2 DEF MoveTo, CallerRecord

LEMMA Advances ==
  ASSUME TypeOK, NEW c \in Caller, caller' = NextPlugin(c)
  PROVE  /\ DOMAIN caller' = Caller /\ \A d \in Caller \ {c} : caller'[d] = caller[d]
         /\ caller'[c].pc \in {"using", "ensure"}
         /\ caller'[c] \in CallerRecord(c)
<1>1. caller[c].at \in 1..Len(Wants[c]) /\ Len(Wants[c]) \in Nat /\ DOMAIN caller = Caller
  BY CallerTypes DEF TypeOK
<1>2. caller'[c] = IF caller[c].at = Len(Wants[c]) THEN WorkBegins(c) ELSE EnsureAt(caller[c].at + 1)
  BY <1>1 DEF NextPlugin
<1>3. DOMAIN caller' = Caller /\ \A d \in Caller \ {c} : caller'[d] = caller[d]
  BY <1>1 DEF NextPlugin
<1>4. CASE caller[c].at = Len(Wants[c])
  BY <1>1, <1>2, <1>3, <1>4 DEF WorkBegins, EntryOrNone, CallerRecord
<1>5. CASE caller[c].at # Len(Wants[c])
  BY <1>1, <1>2, <1>3, <1>5 DEF EnsureAt, EntryOrNone, CallerRecord
<1>. QED  BY <1>4, <1>5

-----------------------------------------------------------------------------
(* What each step leaves of the entry it changes. *)

OnlyEntry(e) == \A f \in Entry \ {e} : entry'[f] = entry[f]

LEMMA EntryStep ==
  ASSUME TypeOK, NEW e \in Entry, NEW s \in EntryRecord, entry' = [entry EXCEPT ![e] = s]
  PROVE  entry' \in [Entry -> EntryRecord] /\ entry'[e] = s /\ OnlyEntry(e)
BY DEF TypeOK, OnlyEntry

LEMMA CreateEffect ==
  ASSUME TypeOK, NEW c \in Caller, CreateEntry(c), NEW e, e = Cardinality(Pending) + 1
  PROVE  /\ e \in Entry /\ entry' \in [Entry -> EntryRecord] /\ OnlyEntry(e)
         /\ entry'[e].dep = Plugin(c) /\ entry'[e].state = "starting"
         /\ entry'[e].refs = entry[e].refs /\ entry'[e].client = entry[e].client
         /\ entry'[e].pendingKill = entry[e].pendingKill
         /\ entry'[e].providers = entry[e].providers /\ entry'[e].ready = entry[e].ready
<1>. DEFINE s == [entry[e] EXCEPT !.dep = Plugin(c), !.state = "starting"]
<1>1. e \in Entry
  BY DEF CreateEntry
<1>2. entry[e] \in EntryRecord /\ Plugin(c) \in Name
  BY <1>1, CallerTypes DEF TypeOK
<1>3. /\ s \in EntryRecord /\ s.dep = Plugin(c) /\ s.state = "starting"
      /\ s.refs = entry[e].refs /\ s.client = entry[e].client
      /\ s.pendingKill = entry[e].pendingKill
      /\ s.providers = entry[e].providers /\ s.ready = entry[e].ready
  BY <1>2 DEF EntryRecord
<1>4. entry' = [entry EXCEPT ![e] = s]
  BY DEF CreateEntry
<1>. HIDE DEF s
<1>. QED  BY <1>1, <1>3, <1>4, EntryStep

LEMMA DropEffect ==
  ASSUME TypeOK, NEW c \in Caller, Drop(c), NEW e \in Entry, e = caller[c].ptr
  PROVE  /\ entry' \in [Entry -> EntryRecord] /\ OnlyEntry(e)
         /\ entry'[e].refs = entry[e].refs - 1
         /\ entry'[e].client <=> entry[e].client /\ ~Drains(e)
         /\ entry'[e].pendingKill <=> entry[e].pendingKill /\ ~Drains(e)
         /\ entry'[e].dep = entry[e].dep /\ entry'[e].state = entry[e].state
         /\ entry'[e].providers = entry[e].providers /\ entry'[e].ready = entry[e].ready
<1>. DEFINE cl == entry[e].client /\ ~Drains(e)
            pk == entry[e].pendingKill /\ ~Drains(e)
            rf == entry[e].refs - 1
            s == [entry[e] EXCEPT !.refs = rf, !.client = cl, !.pendingKill = pk]
<1>1. entry[e] \in EntryRecord /\ rf \in Int /\ cl \in BOOLEAN /\ pk \in BOOLEAN
  BY EntryTypes DEF TypeOK
<1>2. entry' = [entry EXCEPT ![e] = s]
  BY DEF Drop
<1>3. (cl <=> entry[e].client /\ ~Drains(e)) /\ (pk <=> entry[e].pendingKill /\ ~Drains(e))
      /\ rf = entry[e].refs - 1
  OBVIOUS
<1>. HIDE DEF cl, pk, rf
<1>4. /\ s \in EntryRecord /\ s.refs = rf /\ s.client = cl /\ s.pendingKill = pk
      /\ s.dep = entry[e].dep /\ s.state = entry[e].state
      /\ s.providers = entry[e].providers /\ s.ready = entry[e].ready
  BY <1>1 DEF EntryRecord
<1>. HIDE DEF s
<1>5. /\ entry' \in [Entry -> EntryRecord] /\ OnlyEntry(e) /\ entry'[e] = s
  BY <1>2, <1>4, EntryStep
<1>. QED  BY <1>3, <1>4, <1>5

LEMMA ValidateEffect ==
  ASSUME TypeOK, NEW c \in Caller, Validate(c), NEW e \in Entry, e = caller[c].ptr
  PROVE  /\ entry' \in [Entry -> EntryRecord] /\ OnlyEntry(e)
         /\ entry'[e].refs = entry[e].refs + 1
         /\ entry'[e].client = entry[e].client /\ entry'[e].pendingKill = entry[e].pendingKill
         /\ entry'[e].dep = entry[e].dep /\ entry'[e].state = entry[e].state
         /\ entry'[e].providers = entry[e].providers /\ entry'[e].ready = entry[e].ready
<1>. DEFINE rf == entry[e].refs + 1
            s == [entry[e] EXCEPT !.refs = rf, !.idle = FALSE]
<1>1. entry[e] \in EntryRecord /\ rf \in Int
  BY EntryTypes DEF TypeOK
<1>2. entry' = [entry EXCEPT ![e] = s]
  BY DEF Validate
<1>3. rf = entry[e].refs + 1
  OBVIOUS
<1>. HIDE DEF rf
<1>4. /\ s \in EntryRecord /\ s.refs = rf
      /\ s.client = entry[e].client /\ s.pendingKill = entry[e].pendingKill
      /\ s.dep = entry[e].dep /\ s.state = entry[e].state
      /\ s.providers = entry[e].providers /\ s.ready = entry[e].ready
  BY <1>1 DEF EntryRecord
<1>. HIDE DEF s
<1>. QED  BY <1>2, <1>3, <1>4, EntryStep

\* teardownEntry defers the kill of a client that is referenced.
LEMMA TeardownEffect ==
  ASSUME TypeOK, NEW w \in Worker, NEW e \in Entry, TeardownEntry(w, e)
  PROVE  /\ entry' \in [Entry -> EntryRecord] /\ OnlyEntry(e)
         /\ entry'[e].client <=> Deferred(e)
         /\ entry'[e].pendingKill <=> Deferred(e) \/ entry[e].pendingKill
         /\ entry'[e].providers = {} /\ entry'[e].refs = entry[e].refs
         /\ entry'[e].dep = entry[e].dep /\ entry'[e].state = entry[e].state
         /\ entry'[e].ready = entry[e].ready
         /\ teardown' \in [Worker -> TeardownRecord]
         /\ \A v \in Worker \ {w} : teardown'[v] = teardown[v]
         /\ teardown'[w].unregister = entry[e].providers
         /\ teardown'[w].kill = IF entry[e].client /\ ~Deferred(e) THEN e ELSE None
<1>. DEFINE cl == Deferred(e)
            pk == Deferred(e) \/ entry[e].pendingKill
            s == [entry[e] EXCEPT !.providers = {}, !.pendingKill = pk, !.client = cl]
<1>1. entry[e] \in EntryRecord /\ cl \in BOOLEAN /\ pk \in BOOLEAN
  BY EntryTypes DEF TypeOK, Deferred
<1>2. entry' = [entry EXCEPT ![e] = s]
  BY DEF TeardownEntry, TornDown
<1>3. (cl <=> Deferred(e)) /\ (pk <=> Deferred(e) \/ entry[e].pendingKill)
  OBVIOUS
<1>. HIDE DEF cl, pk
<1>4. /\ s \in EntryRecord /\ s.providers = {} /\ s.client = cl /\ s.pendingKill = pk
      /\ s.dep = entry[e].dep /\ s.state = entry[e].state
      /\ s.refs = entry[e].refs /\ s.ready = entry[e].ready
  BY <1>1 DEF EntryRecord
<1>. HIDE DEF s
<1>5. /\ entry' \in [Entry -> EntryRecord] /\ OnlyEntry(e) /\ entry'[e] = s
  BY <1>2, <1>4, EntryStep
<1>6. TakenFrom(e) \in TeardownRecord
  BY EntryTypes DEF TakenFrom, EntryOrNone, TeardownRecord
<1>7. teardown' = [teardown EXCEPT ![w] = TakenFrom(e)] /\ teardown \in [Worker -> TeardownRecord]
  BY DEF TeardownEntry, TypeOK
<1>8. /\ teardown' \in [Worker -> TeardownRecord] /\ teardown'[w] = TakenFrom(e)
      /\ \A v \in Worker \ {w} : teardown'[v] = teardown[v]
  BY <1>6, <1>7
<1>9. /\ TakenFrom(e).unregister = entry[e].providers
      /\ TakenFrom(e).kill = IF entry[e].client /\ ~Deferred(e) THEN e ELSE None
  BY DEF TakenFrom
<1>. QED  BY <1>3, <1>4, <1>5, <1>8, <1>9

\* Shutdown takes the client whoever uses it.
LEMMA ShutdownEffect ==
  ASSUME TypeOK, NEW e \in Entry,
         entry' = [entry EXCEPT ![e].providers = {}, ![e].client = FALSE],
         teardown' = [teardown EXCEPT !["shutdown"] =
                         [unregister |-> entry[e].providers,
                          kill |-> IF entry[e].client THEN e ELSE None]]
  PROVE  /\ entry' \in [Entry -> EntryRecord] /\ OnlyEntry(e)
         /\ entry'[e].client = FALSE /\ entry'[e].providers = {}
         /\ entry'[e].pendingKill = entry[e].pendingKill /\ entry'[e].refs = entry[e].refs
         /\ entry'[e].dep = entry[e].dep /\ entry'[e].state = entry[e].state
         /\ entry'[e].ready = entry[e].ready
         /\ teardown' \in [Worker -> TeardownRecord]
         /\ \A v \in Worker \ {"shutdown"} : teardown'[v] = teardown[v]
         /\ teardown'["shutdown"].unregister = entry[e].providers
         /\ teardown'["shutdown"].kill = IF entry[e].client THEN e ELSE None
<1>. DEFINE s == [entry[e] EXCEPT !.providers = {}, !.client = FALSE]
            k == IF entry[e].client THEN e ELSE None
            t == [unregister |-> entry[e].providers, kill |-> k]
<1>1. entry[e] \in EntryRecord /\ k \in EntryOrNone /\ entry[e].providers \in SUBSET Provider
  BY EntryTypes DEF TypeOK, EntryOrNone
<1>2. entry' = [entry EXCEPT ![e] = s]
  OBVIOUS
<1>3. /\ s \in EntryRecord /\ s.providers = {} /\ s.client = FALSE
      /\ s.pendingKill = entry[e].pendingKill
      /\ s.dep = entry[e].dep /\ s.state = entry[e].state
      /\ s.refs = entry[e].refs /\ s.ready = entry[e].ready
  BY <1>1 DEF EntryRecord
<1>4. t \in TeardownRecord /\ t.unregister = entry[e].providers /\ t.kill = k
  BY <1>1 DEF TeardownRecord
<1>5. teardown' = [teardown EXCEPT !["shutdown"] = t] /\ teardown \in [Worker -> TeardownRecord]
      /\ "shutdown" \in Worker
  BY DEF TypeOK, Worker, background
<1>6. k = IF entry[e].client THEN e ELSE None
  OBVIOUS
<1>. HIDE DEF s, t, k
<1>7. /\ entry' \in [Entry -> EntryRecord] /\ OnlyEntry(e) /\ entry'[e] = s
  BY <1>2, <1>3, EntryStep
<1>8. /\ teardown' \in [Worker -> TeardownRecord] /\ teardown'["shutdown"] = t
      /\ \A v \in Worker \ {"shutdown"} : teardown'[v] = teardown[v]
  BY <1>4, <1>5
<1>. QED  BY <1>3, <1>4, <1>6, <1>7, <1>8

\* A state, nothing else.
LEMMA StateEffect ==
  ASSUME TypeOK, NEW e \in Entry, NEW st \in {"starting", "ready", "dead"},
         entry' = [entry EXCEPT ![e].state = st]
  PROVE  /\ entry' \in [Entry -> EntryRecord] /\ OnlyEntry(e)
         /\ entry'[e].state = st /\ entry'[e].dep = entry[e].dep
         /\ entry'[e].refs = entry[e].refs /\ entry'[e].client = entry[e].client
         /\ entry'[e].pendingKill = entry[e].pendingKill
         /\ entry'[e].providers = entry[e].providers /\ entry'[e].ready = entry[e].ready
<1>. DEFINE s == [entry[e] EXCEPT !.state = st]
<1>1. entry[e] \in EntryRecord
  BY DEF TypeOK
<1>2. /\ s \in EntryRecord /\ s.state = st /\ s.dep = entry[e].dep
      /\ s.refs = entry[e].refs /\ s.client = entry[e].client
      /\ s.pendingKill = entry[e].pendingKill
      /\ s.providers = entry[e].providers /\ s.ready = entry[e].ready
  BY <1>1 DEF EntryRecord
<1>3. entry' = [entry EXCEPT ![e] = s]
  OBVIOUS
<1>. HIDE DEF s
<1>. QED  BY <1>2, <1>3, EntryStep

LEMMA PublishEffect ==
  ASSUME TypeOK, NEW e \in Entry, Publish(e)
  PROVE  /\ entry' \in [Entry -> EntryRecord] /\ OnlyEntry(e)
         /\ entry'[e].state = "ready" /\ entry'[e].client = TRUE
         /\ entry'[e].providers = spawner[e].registered
         /\ entry'[e].dep = entry[e].dep /\ entry'[e].refs = entry[e].refs
         /\ entry'[e].pendingKill = entry[e].pendingKill /\ entry'[e].ready = entry[e].ready
<1>. DEFINE pr == spawner[e].registered
            s == [entry[e] EXCEPT !.state = "ready", !.client = TRUE, !.providers = pr]
<1>1. entry[e] \in EntryRecord /\ pr \in SUBSET Provider
  BY SpawnerTypes DEF TypeOK
<1>2. entry' = [entry EXCEPT ![e] = s]
  BY DEF Publish, OwnProviders
<1>3. pr = spawner[e].registered
  OBVIOUS
<1>. HIDE DEF pr
<1>4. /\ s \in EntryRecord /\ s.state = "ready" /\ s.client = TRUE /\ s.providers = pr
      /\ s.dep = entry[e].dep /\ s.refs = entry[e].refs
      /\ s.pendingKill = entry[e].pendingKill /\ s.ready = entry[e].ready
  BY <1>1 DEF EntryRecord
<1>. HIDE DEF s
<1>. QED  BY <1>2, <1>3, <1>4, EntryStep

LEMMA CloseEffect ==
  ASSUME TypeOK, NEW e \in Entry, Close(e)
  PROVE  /\ entry' \in [Entry -> EntryRecord] /\ OnlyEntry(e)
         /\ entry'[e].state = entry[e].state /\ entry'[e].client = entry[e].client
         /\ entry'[e].providers = entry[e].providers
         /\ entry'[e].dep = entry[e].dep /\ entry'[e].refs = entry[e].refs
         /\ entry'[e].pendingKill = entry[e].pendingKill
<1>. DEFINE s == [entry[e] EXCEPT !.ready = TRUE]
<1>1. entry[e] \in EntryRecord
  BY DEF TypeOK
<1>2. entry' = [entry EXCEPT ![e] = s]
  BY DEF Close
<1>3. /\ s \in EntryRecord /\ s.state = entry[e].state /\ s.client = entry[e].client
      /\ s.providers = entry[e].providers
      /\ s.dep = entry[e].dep /\ s.refs = entry[e].refs
      /\ s.pendingKill = entry[e].pendingKill
  BY <1>1 DEF EntryRecord
<1>. HIDE DEF s
<1>. QED  BY <1>2, <1>3, EntryStep

LEMMA IdleEffect ==
  ASSUME TypeOK, NEW e \in Entry, PassTimeout(e)
  PROVE  /\ entry' \in [Entry -> EntryRecord] /\ OnlyEntry(e)
         /\ entry'[e].state = entry[e].state /\ entry'[e].client = entry[e].client
         /\ entry'[e].providers = entry[e].providers
         /\ entry'[e].dep = entry[e].dep /\ entry'[e].refs = entry[e].refs
         /\ entry'[e].pendingKill = entry[e].pendingKill /\ entry'[e].ready = entry[e].ready
<1>. DEFINE s == [entry[e] EXCEPT !.idle = TRUE]
<1>1. entry[e] \in EntryRecord
  BY DEF TypeOK
<1>2. entry' = [entry EXCEPT ![e] = s]
  BY DEF PassTimeout
<1>3. /\ s \in EntryRecord /\ s.state = entry[e].state /\ s.client = entry[e].client
      /\ s.providers = entry[e].providers
      /\ s.dep = entry[e].dep /\ s.refs = entry[e].refs
      /\ s.pendingKill = entry[e].pendingKill /\ s.ready = entry[e].ready
  BY <1>1 DEF EntryRecord
<1>. HIDE DEF s
<1>. QED  BY <1>2, <1>3, EntryStep

OnlySpawner(e) == \A f \in Entry \ {e} : spawner'[f] = spawner[f]

LEMMA SpawnerStep ==
  ASSUME TypeOK, NEW e \in Entry, NEW s \in SpawnerRecord, spawner' = [spawner EXCEPT ![e] = s]
  PROVE  spawner' \in [Entry -> SpawnerRecord] /\ spawner'[e] = s /\ OnlySpawner(e)
BY DEF TypeOK, OnlySpawner

LEMMA SpawnsEffect ==
  ASSUME TypeOK, NEW e \in Entry,
         NEW loc \in {"off", "fetch", "providers", "register", "close", "done"},
         spawner' = [spawner EXCEPT ![e].pc = loc]
  PROVE  /\ spawner' \in [Entry -> SpawnerRecord] /\ OnlySpawner(e)
         /\ spawner'[e].pc = loc /\ spawner'[e].registered = spawner[e].registered
<1>. DEFINE s == [spawner[e] EXCEPT !.pc = loc]
<1>1. spawner[e] \in SpawnerRecord
  BY DEF TypeOK
<1>2. s \in SpawnerRecord /\ s.pc = loc /\ s.registered = spawner[e].registered
  <2>. DEFINE S == Seq(Provider)
  <2>1. spawner[e] \in [pc : {"off", "fetch", "providers", "register", "close", "done"},
                        left : S, registered : SUBSET Provider]
    BY <1>1 DEF SpawnerRecord
  <2>. HIDE DEF S
  <2>2. s \in [pc : {"off", "fetch", "providers", "register", "close", "done"},
               left : S, registered : SUBSET Provider]
    BY <2>1
  <2>. QED  BY <2>1, <2>2 DEF SpawnerRecord, S
<1>3. spawner' = [spawner EXCEPT ![e] = s]
  OBVIOUS
<1>. HIDE DEF s
<1>. QED  BY <1>2, <1>3, SpawnerStep

LEMMA RegisterEffect ==
  ASSUME TypeOK, NEW e \in Entry, RegisterProvider(e)
  PROVE  /\ spawner' \in [Entry -> SpawnerRecord] /\ OnlySpawner(e)
         /\ spawner'[e].pc = "register"
         /\ \/ \E p \in Provider :
                 /\ registry[p] = None /\ ~cancelled
                 /\ registry' = [registry EXCEPT ![p] = e]
                 /\ spawner'[e].registered = spawner[e].registered \cup {p}
            \/ registry' = registry /\ spawner'[e].registered = spawner[e].registered
<1>. DEFINE q == Tail(spawner[e].left)
            p == Head(spawner[e].left)
            s(R) == [spawner[e] EXCEPT !.pc = "register", !.left = q, !.registered = R]
<1>1. /\ spawner[e] \in SpawnerRecord /\ spawner[e].pc = "register"
      /\ spawner[e].left \in Seq(Provider) /\ spawner[e].left # <<>>
      /\ spawner[e].registered \in SUBSET Provider
  BY SpawnerTypes DEF RegisterProvider, TypeOK
<1>2. q \in Seq(Provider) /\ p \in Provider
  BY <1>1
<1>3. ASSUME NEW R \in SUBSET Provider
      PROVE  s(R) \in SpawnerRecord /\ s(R).pc = "register" /\ s(R).registered = R
  <2>. DEFINE S == Seq(Provider)
  <2>1. /\ q \in S
        /\ spawner[e] \in [pc : {"off", "fetch", "providers", "register", "close", "done"},
                           left : S, registered : SUBSET Provider]
    BY <1>1, <1>2 DEF SpawnerRecord
  <2>. HIDE DEF S, q
  <2>2. /\ s(R) \in [pc : {"off", "fetch", "providers", "register", "close", "done"},
                     left : S, registered : SUBSET Provider]
        /\ s(R).pc = "register" /\ s(R).registered = R
    BY <2>1
  <2>. HIDE DEF s
  <2>. QED  BY <2>2 DEF SpawnerRecord, S
<1>4. CASE /\ registry[p] = None /\ ~cancelled /\ registry' = [registry EXCEPT ![p] = e]
           /\ spawner' = [spawner EXCEPT ![e].left = q, ![e].registered = @ \cup {p}]
  <2>. DEFINE R == spawner[e].registered \cup {p}
  <2>1. R \in SUBSET Provider
    BY <1>1, <1>2
  <2>2. s(R) = [spawner[e] EXCEPT !.left = q, !.registered = R]
    BY <1>1 DEF SpawnerRecord
  <2>3. spawner' = [spawner EXCEPT ![e] = s(R)]
    BY <1>4, <2>2
  <2>4. s(R) \in SpawnerRecord /\ s(R).pc = "register" /\ s(R).registered = R
    BY <1>3, <2>1
  <2>. HIDE DEF s
  <2>5. spawner' \in [Entry -> SpawnerRecord] /\ spawner'[e] = s(R) /\ OnlySpawner(e)
    BY <2>3, <2>4, SpawnerStep
  <2>. QED  BY <1>2, <1>4, <2>4, <2>5
<1>5. CASE spawner' = [spawner EXCEPT ![e].left = q] /\ registry' = registry
  <2>. DEFINE R == spawner[e].registered
  <2>2. s(R) = [spawner[e] EXCEPT !.left = q]
    BY <1>1 DEF SpawnerRecord
  <2>3. spawner' = [spawner EXCEPT ![e] = s(R)]
    BY <1>5, <2>2
  <2>4. s(R) \in SpawnerRecord /\ s(R).pc = "register" /\ s(R).registered = R
    BY <1>1, <1>3
  <2>. HIDE DEF s
  <2>5. spawner' \in [Entry -> SpawnerRecord] /\ spawner'[e] = s(R) /\ OnlySpawner(e)
    BY <2>3, <2>4, SpawnerStep
  <2>. QED  BY <1>5, <2>4, <2>5
<1>. QED  BY <1>4, <1>5 DEF RegisterProvider

\* The goroutine has its list of providers, or has claimed them for its entry.
LEMMA ListedEffect ==
  ASSUME TypeOK, NEW e \in Entry, NEW q \in Seq(Provider),
         spawner' = [spawner EXCEPT ![e].pc = "register", ![e].left = q]
  PROVE  /\ spawner' \in [Entry -> SpawnerRecord] /\ OnlySpawner(e)
         /\ spawner'[e].pc = "register" /\ spawner'[e].registered = spawner[e].registered
<1>. DEFINE S == Seq(Provider)
            s == [spawner[e] EXCEPT !.pc = "register", !.left = q]
<1>1. /\ q \in S
      /\ spawner[e] \in [pc : {"off", "fetch", "providers", "register", "close", "done"},
                         left : S, registered : SUBSET Provider]
  BY DEF TypeOK, SpawnerRecord
<1>2. spawner' = [spawner EXCEPT ![e] = s]
  OBVIOUS
<1>. HIDE DEF S
<1>3. /\ s \in [pc : {"off", "fetch", "providers", "register", "close", "done"},
                left : S, registered : SUBSET Provider]
      /\ s.pc = "register" /\ s.registered = spawner[e].registered
  BY <1>1
<1>4. s \in SpawnerRecord
  BY <1>3 DEF SpawnerRecord, S
<1>. HIDE DEF s
<1>. QED  BY <1>2, <1>3, <1>4, SpawnerStep

LEMMA ClaimedEffect ==
  ASSUME TypeOK, NEW e \in Entry, Publish(e)
  PROVE  /\ spawner' \in [Entry -> SpawnerRecord] /\ OnlySpawner(e)
         /\ spawner'[e].pc = "close" /\ spawner'[e].registered = {}
<1>. DEFINE S == Seq(Provider)
            s == [spawner[e] EXCEPT !.pc = "close", !.registered = {}]
<1>1. spawner[e] \in [pc : {"off", "fetch", "providers", "register", "close", "done"},
                      left : S, registered : SUBSET Provider]
  BY DEF TypeOK, SpawnerRecord
<1>2. spawner' = [spawner EXCEPT ![e] = s]
  BY DEF Publish
<1>. HIDE DEF S
<1>3. /\ s \in [pc : {"off", "fetch", "providers", "register", "close", "done"},
                left : S, registered : SUBSET Provider]
      /\ s.pc = "close" /\ s.registered = {}
  BY <1>1
<1>4. s \in SpawnerRecord
  BY <1>3 DEF SpawnerRecord, S
<1>. HIDE DEF s
<1>. QED  BY <1>2, <1>3, <1>4, SpawnerStep

-----------------------------------------------------------------------------
(* Types hold. *)

LEMMA HeldStep ==
  ASSUME TypeOK, NEW c \in Caller, NEW n \in Name, NEW e \in EntryOrNone,
         held' = [held EXCEPT ![c][n] = e]
  PROVE  held' \in [Caller -> [Name -> EntryOrNone]]
<1>. DEFINE h == [held[c] EXCEPT ![n] = e]
<1>1. h \in [Name -> EntryOrNone]
  BY DEF TypeOK
<1>2. held' = [held EXCEPT ![c] = h]
  OBVIOUS
<1>. HIDE DEF h
<1>. QED  BY <1>1, <1>2 DEF TypeOK

LEMMA InitIInv == Init => IInv
<1>. SUFFICES ASSUME Init PROVE IInv
  OBVIOUS
<1>. USE Nothings
<1>1. ASSUME NEW e \in Entry
      PROVE  /\ entry[e] = NoEntry /\ process[e] = "none"
             /\ spawner[e] = [pc |-> "off", left |-> <<>>, registered |-> {}]
  BY DEF Init
<1>2. ASSUME NEW w \in Worker PROVE teardown[w] = NoTeardown
  BY DEF Init
<1>3. TypeOK
  <2>1. /\ entry \in [Entry -> EntryRecord]
        /\ process \in [Entry -> {"none", "alive", "killed"}]
    BY DEF Init, NoEntry, EntryRecord
  <2>2. spawner \in [Entry -> SpawnerRecord]
    BY DEF Init, SpawnerRecord
  <2>3. /\ registry \in [Provider -> EntryOrNone \cup {Host}]
        /\ entries \in [Name -> EntryOrNone] /\ held \in [Caller -> [Name -> EntryOrNone]]
    BY DEF Init, EntryOrNone
  <2>4. /\ DOMAIN caller = Caller
        /\ \A c \in Caller :
             caller[c] \in CallerRecord(c)
    <3>1. ASSUME NEW c \in Caller PROVE 1 \in 1..Len(Wants[c])
      BY PoolAssumption
    <3>. QED  BY <3>1 DEF Init, EntryOrNone, CallerRecord
  <2>5. DOMAIN served = Caller /\ \A c \in Caller : served[c] \in 0..Requests[c]
    BY PoolAssumption DEF Init
  <2>6. teardown \in [Worker -> TeardownRecord]
    BY DEF Init, NoTeardown, EntryOrNone, TeardownRecord
  <2>7. victims \in [{"evictor", "shutdown"} -> SUBSET Entry] /\ pinged \in EntryOrNone
    BY DEF Init, EntryOrNone
  <2>8. closed \in BOOLEAN /\ cancelled \in BOOLEAN /\ down \in {"up", "stopping", "killing"}
    BY DEF Init
  <2>. QED  BY <2>1, <2>2, <2>3, <2>4, <2>5, <2>6, <2>7, <2>8 DEF TypeOK
<1>4. PendingInv
  <2>1. Pending = {}
    BY <1>1 DEF Pending, NoEntry
  <2>. QED  BY <2>1, FS_EmptySet DEF PendingInv
<1>5. \A e \in Entry : EntryInv(e)
  BY <1>1 DEF EntryInv, Used, Finished, NoEntry
<1>6. KillInv
  BY <1>2 DEF KillInv, NoTeardown
<1>7. ClaimInv
  <2>1. \A p \in Provider : registry[p] \notin Entry
    BY DEF Init
  <2>. QED  BY <1>1, <1>2, <2>1 DEF ClaimInv, Claims, NoEntry, NoTeardown
<1>8. WorkerInv
  <2>1. \A c \in Caller : Idle(c) /\ caller[c].pc = "idle"
    BY <1>2 DEF Init, Idle, Worker
  <2>2. pinged = None /\ \A w \in {"evictor", "shutdown"} : victims[w] = {}
    BY DEF Init
  <2>. QED  BY <2>1, <2>2 DEF WorkerInv, CallerInv
<1>9. MapInv
  BY DEF Init, MapInv, Serves, Mapped
<1>. QED  BY <1>3, <1>4, <1>5, <1>6, <1>7, <1>8, <1>9 DEF IInv

LEMMA TypeCaller ==
  ASSUME IInv, NEW c \in Caller, Begin(c) \/ Request(c) \/ GiveUp(c) \/ Finish(c)
  PROVE  TypeOK'
<1>0. TypeOK
  BY DEF IInv
<1>. USE Nothings DEF requests
\* Where the caller goes.
<1>1. ASSUME DOMAIN caller' = Caller, caller'[c] \in CallerRecord(c),
             \A d \in Caller \ {c} : caller'[d] = caller[d]
      PROVE  DOMAIN caller' = Caller /\ \A d \in Caller : caller'[d] \in CallerRecord(d)
  BY <1>0, <1>1 DEF TypeOK
<1>2. ASSUME NEW loc \in {"idle", "ensure", "wait", "teardown", "using", "release", "drop"},
             NEW e \in EntryOrNone, caller' = MoveTo(c, loc, e)
      PROVE  DOMAIN caller' = Caller /\ \A d \in Caller : caller'[d] \in CallerRecord(d)
  <2>1. caller[c].at \in 1..Len(Wants[c])
    BY <1>0, CallerTypes
  <2>2. [pc |-> loc, at |-> caller[c].at, ptr |-> e] \in CallerRecord(c)
    BY <2>1 DEF CallerRecord
  <2>. QED  BY <1>0, <1>1, <1>2, <2>2, Moves
<1>3. ASSUME caller' = NextPlugin(c)
      PROVE  DOMAIN caller' = Caller /\ \A d \in Caller : caller'[d] \in CallerRecord(d)
  BY <1>0, <1>1, <1>3, Advances
<1>4. None \in EntryOrNone /\ \A n \in Name : entries[n] \in EntryOrNone
  BY <1>0 DEF EntryOrNone, TypeOK
<1>5. Plugin(c) \in Name /\ caller[c].ptr \in EntryOrNone
  BY <1>0, CallerTypes
<1>6. 1 \in 1..Len(Wants[c])
  BY <1>0, CallerTypes
<1>7. CASE Begin(c)
  <2>1. caller' = [caller EXCEPT ![c] = EnsureAt(1)] /\ EnsureAt(1) \in CallerRecord(c)
    BY <1>4, <1>6, <1>7 DEF Begin, EnsureAt, CallerRecord
  <2>2. DOMAIN caller' = Caller /\ \A d \in Caller : caller'[d] \in CallerRecord(d)
    BY <1>0, <1>1, <2>1 DEF TypeOK
  <2>3. DOMAIN served' = Caller /\ \A d \in Caller : served'[d] \in 0..Requests[d]
    <3>1. served' = [served EXCEPT ![c] = served[c] + 1] /\ served[c] < Requests[c]
      BY <1>7 DEF Begin
    <3>2. DOMAIN served = Caller /\ \A d \in Caller : served[d] \in 0..Requests[d]
      BY <1>0 DEF TypeOK
    <3>3. \A d \in Caller : Requests[d] \in Nat
      BY PoolAssumption
    <3>. QED  BY <3>1, <3>2, <3>3
  <2>. QED  BY <1>0, <1>7, <2>2, <2>3 DEF Begin, TypeOK
<1>8. CASE LookUp(c)
  <2>1. DOMAIN caller' = Caller /\ \A d \in Caller : caller'[d] \in CallerRecord(d)
    BY <1>2, <1>3, <1>4, <1>5, <1>8 DEF LookUp
  <2>. QED  BY <1>0, <1>8, <2>1 DEF LookUp, TypeOK
<1>9. CASE CreateEntry(c)
  <2>. DEFINE e == Cardinality(Pending) + 1
  <2>1. e \in Entry /\ caller' = MoveTo(c, "wait", e)
    BY <1>9 DEF CreateEntry
  <2>. HIDE DEF e
  <2>2. DOMAIN caller' = Caller /\ \A d \in Caller : caller'[d] \in CallerRecord(d)
    BY <1>2, <2>1 DEF EntryOrNone
  <2>3. /\ entries' = [entries EXCEPT ![Plugin(c)] = e]
        /\ spawner' = [spawner EXCEPT ![e].pc = "fetch"]
        /\ UNCHANGED <<closed, cancelled, process, registry, held, served, teardown,
                    victims, pinged, down>>
    BY <1>9 DEF CreateEntry, e
  <2>4. entries' \in [Name -> EntryOrNone]
    BY <1>0, <1>5, <2>1, <2>3 DEF TypeOK, EntryOrNone
  <2>5. spawner' \in [Entry -> SpawnerRecord]
    BY <1>0, <2>1, <2>3, SpawnsEffect
  <2>6. entry' \in [Entry -> EntryRecord]
    BY <1>0, <1>9, CreateEffect DEF e
  <2>. QED  BY <1>0, <2>2, <2>3, <2>4, <2>5, <2>6 DEF TypeOK
<1>10. CASE Validate(c)
  <2>1. DOMAIN caller' = Caller /\ \A d \in Caller : caller'[d] \in CallerRecord(d)
    BY <1>3, <1>10 DEF Validate
  <2>2. caller[c].ptr \in Entry
    BY <1>10 DEF IInv, WorkerInv, CallerInv, Validate
  <2>3. held' \in [Caller -> [Name -> EntryOrNone]]
    BY <1>0, <1>5, <1>10, HeldStep DEF Validate
  <2>4. entry' \in [Entry -> EntryRecord]
    BY <1>0, <1>10, <2>2, ValidateEffect
  <2>. QED  BY <1>0, <1>10, <2>1, <2>3, <2>4 DEF Validate, TypeOK
<1>11. CASE WaitFails(c) \/ GiveUp(c)
  <2>1. DOMAIN caller' = Caller /\ \A d \in Caller : caller'[d] \in CallerRecord(d)
    BY <1>2, <1>4, <1>5, <1>11 DEF WaitFails, GiveUp, Abandon
  <2>2. entries' \in [Name -> EntryOrNone]
    BY <1>0, <1>4, <1>11 DEF WaitFails, GiveUp, Abandon, TypeOK
  <2>. QED  BY <1>0, <1>11, <2>1, <2>2 DEF WaitFails, GiveUp, Abandon, TypeOK
<1>12. CASE CallerTeardown(c)
  <2>1. DOMAIN caller' = Caller /\ \A d \in Caller : caller'[d] \in CallerRecord(d)
    BY <1>2, <1>4, <1>12 DEF CallerTeardown
  <2>2. caller[c].ptr \in Entry /\ c \in Worker
    BY <1>12 DEF IInv, WorkerInv, CallerInv, CallerTeardown, Worker
  <2>3. /\ entry' \in [Entry -> EntryRecord]
        /\ teardown' \in [Worker -> TeardownRecord]
    BY <1>0, <1>12, <2>2, TeardownEffect DEF CallerTeardown
  <2>. QED  BY <1>0, <1>12, <2>1, <2>3 DEF CallerTeardown, TypeOK
<1>13. CASE Finish(c) \/ Release(c)
  <2>1. ReleaseLookUp(c)
    BY <1>13 DEF Finish, Release
  <2>2. DOMAIN caller' = Caller /\ \A d \in Caller : caller'[d] \in CallerRecord(d)
    <3>1. CASE caller' = [caller EXCEPT ![c] = [pc |-> "idle", at |-> 1, ptr |-> None]]
      BY <1>0, <1>1, <1>4, <1>6, <3>1 DEF TypeOK, CallerRecord
    <3>2. CASE \E n \in Name : caller' = IF n \in Mapped THEN MoveTo(c, "drop", entries[n])
                                         ELSE MoveTo(c, "release", None)
      BY <1>2, <1>4, <3>2
    <3>. QED  BY <2>1, <3>1, <3>2 DEF ReleaseLookUp, Acquired
  <2>3. held' \in [Caller -> [Name -> EntryOrNone]]
    BY <1>0, <1>4, <2>1, HeldStep DEF ReleaseLookUp, Acquired, TypeOK
  <2>. QED  BY <1>0, <2>1, <2>2, <2>3 DEF ReleaseLookUp, TypeOK
<1>14. CASE Drop(c)
  <2>1. DOMAIN caller' = Caller /\ \A d \in Caller : caller'[d] \in CallerRecord(d)
    BY <1>2, <1>4, <1>14 DEF Drop
  <2>2. caller[c].ptr \in Entry /\ c \in Worker
    BY <1>14 DEF IInv, WorkerInv, CallerInv, Drop, Worker
  <2>3. teardown' \in [Worker -> TeardownRecord]
    <3>. DEFINE k == IF Drains(caller[c].ptr) /\ entry[caller[c].ptr].client
                     THEN caller[c].ptr ELSE None
    <3>1. k \in EntryOrNone
      BY <2>2 DEF EntryOrNone
    <3>2. teardown' = [teardown EXCEPT ![c].kill = k]
      BY <1>14 DEF Drop
    <3>. HIDE DEF k
    <3>. QED  BY <1>0, <2>2, <3>1, <3>2 DEF TypeOK, TeardownRecord
  <2>4. entry' \in [Entry -> EntryRecord]
    BY <1>0, <1>14, <2>2, DropEffect
  <2>. QED  BY <1>0, <1>14, <2>1, <2>3, <2>4 DEF Drop, TypeOK
<1>. QED  BY <1>7, <1>8, <1>9, <1>10, <1>11, <1>12, <1>13, <1>14 DEF Request

LEMMA TypeSpawn ==
  ASSUME IInv, NEW e \in Entry, Spawn(e)
  PROVE  TypeOK'
<1>0. TypeOK /\ EntryInv(e)
  BY DEF IInv
<1>. USE Nothings DEF requests, Spawns
<1>1. ASSUME /\ entry' \in [Entry -> EntryRecord] /\ process' \in [Entry -> {"none", "alive", "killed"}]
             /\ spawner' \in [Entry -> SpawnerRecord]
             /\ registry' \in [Provider -> EntryOrNone \cup {Host}]
             /\ UNCHANGED <<closed, cancelled, entries, requests, teardown, victims, pinged, down>>
      PROVE  TypeOK'
  BY <1>0, <1>1 DEF TypeOK
<1>2. /\ entry \in [Entry -> EntryRecord] /\ process \in [Entry -> {"none", "alive", "killed"}]
      /\ spawner \in [Entry -> SpawnerRecord]
      /\ registry \in [Provider -> EntryOrNone \cup {Host}]
  BY <1>0 DEF TypeOK
<1>3. CASE Fetch(e)
  <2>1. spawner' \in [Entry -> SpawnerRecord]
    BY <1>0, <1>3, SpawnsEffect DEF Fetch
  <2>2. entry' \in [Entry -> EntryRecord]
    BY <1>0, <1>2, <1>3, StateEffect DEF Fetch
  <2>. QED  BY <1>1, <1>2, <1>3, <2>1, <2>2 DEF Fetch
<1>4. CASE GetProviders(e)
  <2>1. entry[e].dep \in Name
    BY <1>0, <1>4, EntryTypes DEF GetProviders, EntryInv
  <2>2. Declares[entry[e].dep] \in Seq(Provider)
    BY <2>1, PoolAssumption
  <2>3. spawner' \in [Entry -> SpawnerRecord]
    BY <1>0, <1>4, <2>2, SpawnsEffect, ListedEffect DEF GetProviders
  <2>4. entry' \in [Entry -> EntryRecord]
    BY <1>0, <1>2, <1>4, StateEffect DEF GetProviders
  <2>. QED  BY <1>1, <1>2, <1>4, <2>3, <2>4 DEF GetProviders
<1>5. CASE RegisterProvider(e)
  <2>1. spawner' \in [Entry -> SpawnerRecord]
    BY <1>0, <1>5, RegisterEffect
  <2>2. registry' \in [Provider -> EntryOrNone \cup {Host}]
    BY <1>0, <1>2, <1>5, RegisterEffect DEF EntryOrNone
  <2>. QED  BY <1>1, <1>2, <1>5, <2>1, <2>2 DEF RegisterProvider
<1>6. CASE Publish(e)
  BY <1>0, <1>1, <1>2, <1>6, PublishEffect, ClaimedEffect DEF Publish
<1>7. CASE Close(e)
  BY <1>0, <1>1, <1>2, <1>7, CloseEffect, SpawnsEffect DEF Close
<1>. QED  BY <1>3, <1>4, <1>5, <1>6, <1>7 DEF Spawn

LEMMA TypeTeardown ==
  ASSUME IInv, NEW w \in Worker, Teardown(w)
  PROVE  TypeOK'
<1>0. TypeOK
  BY DEF IInv
<1>. USE Nothings DEF requests
<1>1. teardown[w] \in TeardownRecord
  BY <1>0 DEF TypeOK
<1>2. CASE Unregister(w)
  <2>1. PICK p \in teardown[w].unregister :
          /\ registry' = [registry EXCEPT ![p] = None]
          /\ teardown' = [teardown EXCEPT ![w].unregister = @ \ {p}]
    BY <1>2 DEF Unregister
  <2>2. p \in Provider
    BY <1>1, <2>1 DEF TeardownRecord
  <2>3. registry' \in [Provider -> EntryOrNone \cup {Host}]
    BY <1>0, <2>1, <2>2 DEF TypeOK, EntryOrNone
  <2>4. teardown' \in [Worker -> TeardownRecord]
    BY <1>0, <2>1 DEF TypeOK, TeardownRecord
  <2>. QED  BY <1>0, <1>2, <2>3, <2>4 DEF Unregister, TypeOK
<1>3. CASE Kill(w)
  <2>1. NoTeardown \in TeardownRecord
    BY DEF NoTeardown, TeardownRecord, EntryOrNone
  <2>2. teardown' \in [Worker -> TeardownRecord]
    BY <1>0, <1>3, <2>1 DEF Kill, TypeOK
  <2>3. process' \in [Entry -> {"none", "alive", "killed"}]
    BY <1>0, <1>3 DEF Kill, TypeOK
  <2>. QED  BY <1>0, <1>3, <2>2, <2>3 DEF Kill, TypeOK
<1>. QED  BY <1>2, <1>3 DEF Teardown

\* The eviction loop, Ping, Shutdown and the passing of time.
Background ==
  \/ \E e \in Entry : PassTimeout(e)
  \/ Evict \/ EvictorTeardown \/ (\E n \in Pinged : Ping(n)) \/ Pong \/ PingTeardown
  \/ CancelContext \/ ClosePool \/ ShutdownTeardown

LEMMA TypeBackground ==
  ASSUME IInv, Background
  PROVE  TypeOK'
<1>0. TypeOK /\ \A w \in {"evictor", "shutdown"} : victims[w] \in SUBSET Entry
  BY DEF IInv, TypeOK
<1>. USE Nothings DEF requests
<1>1. ASSUME /\ entry' \in [Entry -> EntryRecord] /\ teardown' \in [Worker -> TeardownRecord]
             /\ victims' \in [{"evictor", "shutdown"} -> SUBSET Entry]
             /\ pinged' \in EntryOrNone /\ entries' \in [Name -> EntryOrNone]
             /\ closed' \in BOOLEAN /\ cancelled' \in BOOLEAN
             /\ down' \in {"up", "stopping", "killing"}
             /\ UNCHANGED <<process, spawner, registry, requests>>
      PROVE  TypeOK'
  BY <1>0, <1>1 DEF TypeOK
<1>2. /\ entry \in [Entry -> EntryRecord] /\ teardown \in [Worker -> TeardownRecord]
      /\ victims \in [{"evictor", "shutdown"} -> SUBSET Entry]
      /\ pinged \in EntryOrNone /\ entries \in [Name -> EntryOrNone]
      /\ closed \in BOOLEAN /\ cancelled \in BOOLEAN /\ down \in {"up", "stopping", "killing"}
      /\ None \in EntryOrNone
  BY <1>0 DEF TypeOK, EntryOrNone
<1>3. \A n \in Mapped : entries[n] \in Entry
  BY <1>2 DEF Mapped, EntryOrNone
<1>4. {"evictor", "pinger", "shutdown"} \subseteq Worker
  BY DEF Worker, background
<1>5. ASSUME NEW e \in Entry, PassTimeout(e) PROVE TypeOK'
  BY <1>0, <1>1, <1>2, <1>5, IdleEffect DEF PassTimeout
<1>6. CASE Evict
  <2>1. {entries[n] : n \in {m \in Mapped : Evictable(entries[m])}} \in SUBSET Entry
    BY <1>3
  <2>. DEFINE names == {n \in Mapped : Evictable(entries[n])}
  <2>2. entries' = [n \in Name |-> IF n \in names THEN None ELSE entries[n]]
    BY <1>6 DEF Evict
  <2>3. entries' \in [Name -> EntryOrNone]
    <3>. HIDE DEF names
    <3>. QED  BY <1>2, <2>2
  <2>4. victims' \in [{"evictor", "shutdown"} -> SUBSET Entry]
    BY <1>2, <1>6, <2>1 DEF Evict
  <2>. QED  BY <1>1, <1>2, <1>6, <2>3, <2>4 DEF Evict
<1>7. CASE EvictorTeardown
  <2>1. PICK e \in victims["evictor"] :
          /\ TeardownEntry("evictor", e)
          /\ victims' = [victims EXCEPT !["evictor"] = @ \ {e}]
    BY <1>7 DEF EvictorTeardown
  <2>2. e \in Entry /\ victims' \in [{"evictor", "shutdown"} -> SUBSET Entry]
    BY <1>0, <1>2, <2>1
  <2>. QED  BY <1>0, <1>1, <1>2, <1>4, <1>7, <2>1, <2>2, TeardownEffect DEF EvictorTeardown
<1>8. ASSUME NEW n \in Pinged, Ping(n) PROVE TypeOK'
  <2>1. pinged' \in EntryOrNone
    BY <1>2, <1>3, <1>8 DEF Ping, EntryOrNone
  <2>. QED  BY <1>1, <1>2, <1>8, <2>1 DEF Ping
<1>9. pinged # None => pinged \in Entry
  BY <1>2 DEF EntryOrNone
<1>10. CASE Pong
  BY <1>0, <1>1, <1>2, <1>9, <1>10, StateEffect DEF Pong
<1>11. CASE PingTeardown
  BY <1>0, <1>1, <1>2, <1>4, <1>9, <1>11, TeardownEffect DEF PingTeardown
<1>12. CASE CancelContext
  BY <1>1, <1>2, <1>12 DEF CancelContext
<1>13. CASE ClosePool
  <2>1. {entries[n] : n \in Mapped} \in SUBSET Entry
    BY <1>3
  <2>2. victims' \in [{"evictor", "shutdown"} -> SUBSET Entry]
    BY <1>2, <1>13, <2>1 DEF ClosePool
  <2>. QED  BY <1>1, <1>2, <1>13, <2>2 DEF ClosePool
<1>14. CASE ShutdownTeardown
  <2>1. PICK e \in victims["shutdown"] :
          /\ entry' = [entry EXCEPT ![e].providers = {}, ![e].client = FALSE]
          /\ teardown' = [teardown EXCEPT !["shutdown"] =
                         [unregister |-> entry[e].providers,
                          kill |-> IF entry[e].client THEN e ELSE None]]
          /\ victims' = [victims EXCEPT !["shutdown"] = @ \ {e}]
    BY <1>14 DEF ShutdownTeardown
  <2>2. e \in Entry /\ victims' \in [{"evictor", "shutdown"} -> SUBSET Entry]
    BY <1>0, <1>2, <2>1
  <2>. QED  BY <1>0, <1>1, <1>2, <1>14, <2>1, <2>2, ShutdownEffect DEF ShutdownTeardown
<1>. QED  BY <1>5, <1>6, <1>7, <1>8, <1>10, <1>11, <1>12, <1>13, <1>14 DEF Background

LEMMA NextCases ==
  ASSUME [Next]_vars
  PROVE  \/ \E c \in Caller : Begin(c) \/ Request(c) \/ GiveUp(c) \/ Finish(c)
         \/ \E w \in Worker : Teardown(w)
         \/ \E e \in Entry : Spawn(e)
         \/ Background \/ UNCHANGED vars
BY DEF Next, Background

LEMMA TypeStep ==
  ASSUME IInv, [Next]_vars
  PROVE  TypeOK'
<1>1. CASE UNCHANGED vars
  BY <1>1 DEF IInv, vars, TypeOK
<1>. QED  BY <1>1, NextCases, TypeCaller, TypeSpawn, TypeTeardown, TypeBackground

LEMMA PendingFinite == IsFiniteSet(Pending) /\ Cardinality(Pending) \in Nat
<1>1. IsFiniteSet(Entry)
  BY Nothings, FS_Interval DEF Entry
<1>2. Pending \subseteq Entry
  BY DEF Pending
<1>3. IsFiniteSet(Pending)
  BY <1>1, <1>2, FS_Subset
<1>. QED  BY <1>3, FS_CardinalityType

\* Entries are made in order: the next one is fresh.
LEMMA FreshEntry ==
  ASSUME IInv, Cardinality(Pending) + 1 \in Entry
  PROVE  ~Used(Cardinality(Pending) + 1)
<1>2. Cardinality(Pending) \in Nat
  BY PendingFinite
<1>3. Cardinality(Pending) + 1 \notin 1..Cardinality(Pending)
  BY <1>2
<1>4. Cardinality(Pending) + 1 \notin Pending
  BY <1>3 DEF IInv, PendingInv
<1>. QED  BY <1>4 DEF Pending, Used

-----------------------------------------------------------------------------
(* Entries, and the goroutines that spawn them. *)

LEMMA EntryKept ==
  ASSUME NEW f \in Entry, EntryInv(f), entry'[f] = entry[f], spawner'[f] = spawner[f],
         process'[f] = process[f]
  PROVE  EntryInv(f)'
BY DEF EntryInv, Used, Finished

LEMMA EntryCreated ==
  ASSUME IInv, NEW c \in Caller, CreateEntry(c), NEW f \in Entry
  PROVE  EntryInv(f)'
<1>. DEFINE e == Cardinality(Pending) + 1
<1>0. TypeOK /\ EntryInv(f)
  BY DEF IInv
<1>1. /\ e \in Entry /\ OnlyEntry(e)
      /\ entry'[e].dep = Plugin(c) /\ entry'[e].state = "starting"
      /\ entry'[e].refs = entry[e].refs /\ entry'[e].client = entry[e].client
      /\ entry'[e].pendingKill = entry[e].pendingKill
      /\ entry'[e].providers = entry[e].providers /\ entry'[e].ready = entry[e].ready
  BY <1>0, CreateEffect
<1>2. OnlySpawner(e) /\ spawner'[e].pc = "fetch" /\ spawner'[e].registered = spawner[e].registered
  BY <1>0, <1>1, SpawnsEffect DEF CreateEntry
<1>3. process' = process
  BY DEF CreateEntry
<1>4. ~Used(e)
  BY <1>1, FreshEntry
<1>5. Plugin(c) \in Name
  BY <1>0, CallerTypes
<1>. HIDE DEF e
<1>6. CASE f = e
  BY <1>0, <1>1, <1>2, <1>3, <1>4, <1>5, <1>6 DEF EntryInv, Used, Finished
<1>7. CASE f # e
  <2>1. entry'[f] = entry[f] /\ spawner'[f] = spawner[f]
    BY <1>1, <1>2, <1>7 DEF OnlyEntry, OnlySpawner
  <2>. QED  BY <1>0, <1>3, <2>1, EntryKept
<1>. QED  BY <1>6, <1>7

\* A step that touches no more than the references, the client and the providers.
LEMMA EntryWeighed ==
  ASSUME TypeOK, NEW f \in Entry, EntryInv(f), NEW e \in Entry, OnlyEntry(e),
         spawner' = spawner, process' = process,
         entry'[e].dep = entry[e].dep, entry'[e].state = entry[e].state,
         entry'[e].ready = entry[e].ready,
         entry'[e].client => entry[e].client,
         entry'[e].providers \subseteq entry[e].providers,
         ~Finished(e) => entry'[e].refs <= 0,
         entry'[e].pendingKill => entry'[e].refs > 0 /\ entry'[e].providers = {}
  PROVE  EntryInv(f)'
<1>1. CASE f = e
  BY <1>1 DEF EntryInv, Used, Finished
<1>2. CASE f # e
  <2>1. entry'[f] = entry[f]
    BY <1>2 DEF OnlyEntry
  <2>. QED  BY <2>1, EntryKept
<1>. QED  BY <1>1, <1>2

LEMMA EntryValidated ==
  ASSUME IInv, NEW c \in Caller, Validate(c), NEW f \in Entry
  PROVE  EntryInv(f)'
<1>. DEFINE e == caller[c].ptr
<1>0. TypeOK /\ EntryInv(f)
  BY DEF IInv
<1>1. e \in Entry
  BY DEF IInv, WorkerInv, CallerInv, Validate
<1>2. EntryInv(e) /\ entry[e].ready /\ entry[e].state # "dead" /\ entry[e].refs \in Int
  BY <1>0, <1>1, EntryTypes DEF IInv, Validate
<1>3. /\ OnlyEntry(e) /\ entry'[e].refs = entry[e].refs + 1
      /\ entry'[e].client = entry[e].client /\ entry'[e].pendingKill = entry[e].pendingKill
      /\ entry'[e].dep = entry[e].dep /\ entry'[e].state = entry[e].state
      /\ entry'[e].providers = entry[e].providers /\ entry'[e].ready = entry[e].ready
  BY <1>0, <1>1, ValidateEffect
<1>4. spawner' = spawner /\ process' = process
  BY DEF Validate
<1>5. spawner[e].pc = "done" /\ Finished(e)
  <2>1. spawner[e].pc = "done"
    BY <1>2 DEF EntryInv
  <2>2. Used(e) /\ entry[e].state # "starting"
    BY <1>2, <2>1 DEF EntryInv
  <2>. QED  BY <1>0, <1>1, <2>1, <2>2, EntryTypes DEF Used, Finished
<1>6. entry[e].pendingKill => entry[e].refs > 0 /\ entry[e].providers = {}
  BY <1>2 DEF EntryInv
<1>7. entry'[e].pendingKill => entry'[e].refs > 0 /\ entry'[e].providers = {}
  BY <1>2, <1>3, <1>6
<1>. HIDE DEF e
<1>. QED  BY <1>0, <1>1, <1>3, <1>4, <1>5, <1>7, EntryWeighed

LEMMA EntryDropped ==
  ASSUME IInv, NEW c \in Caller, Drop(c), NEW f \in Entry
  PROVE  EntryInv(f)'
<1>. DEFINE e == caller[c].ptr
<1>0. TypeOK /\ EntryInv(f)
  BY DEF IInv
<1>1. e \in Entry
  BY DEF IInv, WorkerInv, CallerInv, Drop
<1>2. EntryInv(e) /\ entry[e].refs \in Int
  BY <1>0, <1>1, EntryTypes DEF IInv
<1>3. /\ OnlyEntry(e) /\ entry'[e].refs = entry[e].refs - 1
      /\ entry'[e].client => entry[e].client
      /\ entry'[e].pendingKill <=> entry[e].pendingKill /\ ~Drains(e)
      /\ entry'[e].dep = entry[e].dep /\ entry'[e].state = entry[e].state
      /\ entry'[e].providers = entry[e].providers /\ entry'[e].ready = entry[e].ready
  BY <1>0, <1>1, DropEffect
<1>4. spawner' = spawner /\ process' = process
  BY DEF Drop
<1>5. entry'[e].pendingKill => entry'[e].refs > 0 /\ entry'[e].providers = {}
  <2>1. entry'[e].pendingKill => entry'[e].refs > 0
    BY <1>2, <1>3 DEF Drains
  <2>2. entry[e].pendingKill => entry[e].providers = {}
    BY <1>2 DEF EntryInv
  <2>. QED  BY <1>3, <2>1, <2>2
<1>6. ~Finished(e) => entry'[e].refs <= 0
  BY <1>2, <1>3 DEF EntryInv
<1>. HIDE DEF e
<1>. QED  BY <1>0, <1>1, <1>3, <1>4, <1>5, <1>6, EntryWeighed

LEMMA EntryTornDown ==
  ASSUME IInv, NEW w \in Worker, NEW e \in Entry, TeardownEntry(w, e), NEW f \in Entry,
         spawner' = spawner, process' = process
  PROVE  EntryInv(f)'
<1>0. TypeOK /\ EntryInv(f) /\ EntryInv(e)
  BY DEF IInv
<1>1. /\ OnlyEntry(e) /\ (entry'[e].client <=> Deferred(e))
      /\ (entry'[e].pendingKill <=> Deferred(e) \/ entry[e].pendingKill)
      /\ entry'[e].providers = {} /\ entry'[e].refs = entry[e].refs
      /\ entry'[e].dep = entry[e].dep /\ entry'[e].state = entry[e].state
      /\ entry'[e].ready = entry[e].ready
  BY <1>0, TeardownEffect
<1>2. entry'[e].client => entry[e].client
  BY <1>1 DEF Deferred
<1>3. entry'[e].pendingKill => entry'[e].refs > 0 /\ entry'[e].providers = {}
  BY <1>0, <1>1 DEF Deferred, EntryInv
<1>4. ~Finished(e) => entry'[e].refs <= 0
  BY <1>0, <1>1 DEF EntryInv
<1>. QED  BY <1>0, <1>1, <1>2, <1>3, <1>4, EntryWeighed

LEMMA ListedDeclared ==
  ASSUME IInv, NEW e \in Entry, GetProviders(e),
         spawner' = [spawner EXCEPT ![e].pc = "register", ![e].left = Declares[entry[e].dep]]
  PROVE  /\ OnlySpawner(e) /\ spawner'[e].pc = "register"
         /\ spawner'[e].registered = spawner[e].registered
<1>1. TypeOK /\ EntryInv(e)
  BY DEF IInv
<1>2. entry[e].dep \in Name
  BY <1>1 DEF GetProviders, EntryInv
<1>3. Declares[entry[e].dep] \in Seq(Provider)
  BY <1>2, PoolAssumption
<1>. QED  BY <1>1, <1>3, ListedEffect

LEMMA EntrySpawned ==
  ASSUME IInv, NEW e \in Entry, Spawn(e), NEW f \in Entry
  PROVE  EntryInv(f)'
<1>0. TypeOK /\ EntryInv(e) /\ EntryInv(f)
  BY DEF IInv
<1>1. entry[e].state \in {"unused", "starting", "ready", "dead"} /\ entry[e].refs \in Int
  BY <1>0, EntryTypes
\* Another entry is left alone.
<1>2. CASE f # e
  <2>1. OnlySpawner(e)
    BY <1>0, SpawnsEffect, ListedDeclared, RegisterEffect, ClaimedEffect
       DEF Spawn, Spawns, Fetch, GetProviders, Close
  <2>2. entry'[f] = entry[f]
    <3>1. ASSUME Fetch(e) \/ GetProviders(e) \/ RegisterProvider(e) PROVE OnlyEntry(e)
      BY <1>0, <3>1, StateEffect DEF Fetch, GetProviders, RegisterProvider, OnlyEntry
    <3>2. ASSUME Publish(e) \/ Close(e) PROVE OnlyEntry(e)
      BY <1>0, <3>2, PublishEffect, CloseEffect
    <3>. QED  BY <1>2, <3>1, <3>2 DEF Spawn, OnlyEntry
  <2>3. process'[f] = process[f]
    BY <1>0, <1>2 DEF Spawn, Fetch, GetProviders, RegisterProvider, Publish, Close, TypeOK
  <2>4. spawner'[f] = spawner[f]
    BY <1>2, <2>1 DEF OnlySpawner
  <2>. QED  BY <1>0, <2>2, <2>3, <2>4, EntryKept
<1>3. CASE f = e
  <2>. USE <1>0, <1>1, <1>3
  <2>1. CASE Fetch(e)
    <3>1. spawner[e].pc = "fetch"
      BY <2>1 DEF Fetch
    <3>2. CASE process' = [process EXCEPT ![e] = "alive"] /\ spawner' = Spawns(e, "providers") /\ entry' = entry
      <4>1. spawner'[e].pc = "providers" /\ spawner'[e].registered = spawner[e].registered
        BY <3>2, SpawnsEffect DEF Spawns
      <4>2. process'[e] = "alive"
        BY <3>2 DEF TypeOK
      <4>. QED  BY <3>1, <3>2, <4>1, <4>2 DEF EntryInv, Used, Finished
    <3>3. CASE /\ entry' = [entry EXCEPT ![e].state = "dead"] /\ spawner' = Spawns(e, "close")
               /\ process' = process
      <4>1. spawner'[e].pc = "close" /\ spawner'[e].registered = spawner[e].registered
        BY <3>3, SpawnsEffect DEF Spawns
      <4>2. /\ entry'[e].state = "dead" /\ entry'[e].dep = entry[e].dep
            /\ entry'[e].refs = entry[e].refs /\ entry'[e].client = entry[e].client
            /\ entry'[e].pendingKill = entry[e].pendingKill
            /\ entry'[e].providers = entry[e].providers /\ entry'[e].ready = entry[e].ready
        BY <3>3, StateEffect
      <4>. QED  BY <3>1, <3>3, <4>1, <4>2 DEF EntryInv, Used, Finished
    <3>. QED  BY <2>1, <3>2, <3>3 DEF Fetch
  <2>2. CASE GetProviders(e)
    <3>1. spawner[e].pc = "providers"
      BY <2>2 DEF GetProviders
    <3>2. CASE /\ spawner' = [spawner EXCEPT ![e].pc = "register", ![e].left = Declares[entry[e].dep]]
               /\ entry' = entry /\ process' = process
      <4>1. spawner'[e].pc = "register" /\ spawner'[e].registered = spawner[e].registered
        BY <2>2, <3>2, ListedDeclared
      <4>. QED  BY <3>1, <3>2, <4>1 DEF EntryInv, Used, Finished
    <3>3. CASE /\ process' = [process EXCEPT ![e] = "killed"]
               /\ entry' = [entry EXCEPT ![e].state = "dead"] /\ spawner' = Spawns(e, "close")
      <4>1. spawner'[e].pc = "close" /\ spawner'[e].registered = spawner[e].registered
        BY <3>3, SpawnsEffect DEF Spawns
      <4>2. /\ entry'[e].state = "dead" /\ entry'[e].dep = entry[e].dep
            /\ entry'[e].refs = entry[e].refs /\ entry'[e].client = entry[e].client
            /\ entry'[e].pendingKill = entry[e].pendingKill
            /\ entry'[e].providers = entry[e].providers /\ entry'[e].ready = entry[e].ready
        BY <3>3, StateEffect
      <4>3. process'[e] = "killed"
        BY <3>3 DEF TypeOK
      <4>. QED  BY <3>1, <4>1, <4>2, <4>3 DEF EntryInv, Used, Finished
    <3>. QED  BY <2>2, <3>2, <3>3 DEF GetProviders
  <2>3. CASE RegisterProvider(e)
    <3>1. spawner[e].pc = "register" /\ entry' = entry /\ process' = process
      BY <2>3 DEF RegisterProvider
    <3>2. spawner'[e].pc = "register"
      BY <2>3, RegisterEffect
    <3>. QED  BY <3>1, <3>2 DEF EntryInv, Used, Finished
  <2>4. CASE Publish(e)
    <3>1. spawner[e].pc = "register" /\ process' = process
      BY <2>4 DEF Publish
    <3>2. spawner'[e].pc = "close" /\ spawner'[e].registered = {}
      BY <2>4, ClaimedEffect
    <3>3. /\ entry'[e].state = "ready" /\ entry'[e].client = TRUE
          /\ entry'[e].dep = entry[e].dep /\ entry'[e].refs = entry[e].refs
          /\ entry'[e].pendingKill = entry[e].pendingKill /\ entry'[e].ready = entry[e].ready
      BY <2>4, PublishEffect
    <3>. QED  BY <3>1, <3>2, <3>3 DEF EntryInv, Used, Finished
  <2>5. CASE Close(e)
    <3>1. spawner[e].pc = "close" /\ process' = process
      BY <2>5 DEF Close
    <3>2. spawner'[e].pc = "done" /\ spawner'[e].registered = spawner[e].registered
      BY <2>5, SpawnsEffect DEF Close, Spawns
    <3>3. /\ entry'[e].state = entry[e].state /\ entry'[e].client = entry[e].client
          /\ entry'[e].providers = entry[e].providers
          /\ entry'[e].dep = entry[e].dep /\ entry'[e].refs = entry[e].refs
          /\ entry'[e].pendingKill = entry[e].pendingKill
      BY <2>5, CloseEffect
    <3>. QED  BY <3>1, <3>2, <3>3 DEF EntryInv, Used, Finished
  <2>. QED  BY <2>1, <2>2, <2>3, <2>4, <2>5 DEF Spawn
<1>. QED  BY <1>2, <1>3

LEMMA EntryKilled ==
  ASSUME IInv, NEW w \in Worker, Teardown(w), NEW f \in Entry
  PROVE  EntryInv(f)'
<1>0. TypeOK /\ EntryInv(f)
  BY DEF IInv
<1>1. CASE Unregister(w)
  BY <1>0, <1>1, EntryKept DEF Unregister
<1>2. CASE Kill(w)
  <2>1. entry' = entry /\ spawner' = spawner
    BY <1>2 DEF Kill
  <2>2. CASE f = teardown[w].kill
    <3>1. ~entry[f].client /\ entry[f].providers = {} /\ Finished(f)
      BY <1>2, <2>2 DEF IInv, KillInv, Kill
    <3>2. spawner[f].pc \notin {"off", "fetch", "providers", "register"}
      BY <1>0, <3>1 DEF EntryInv, Finished, Used
    <3>. QED  BY <1>0, <2>1, <3>1, <3>2 DEF EntryInv, Used, Finished
  <2>3. CASE f # teardown[w].kill
    <3>1. process'[f] = process[f]
      BY <1>0, <1>2, <2>3 DEF Kill, TypeOK
    <3>. QED  BY <1>0, <2>1, <3>1, EntryKept
  <2>. QED  BY <2>2, <2>3
<1>. QED  BY <1>1, <1>2 DEF Teardown

LEMMA EntryBackground ==
  ASSUME IInv, Background, NEW f \in Entry
  PROVE  EntryInv(f)'
<1>0. TypeOK /\ \A e \in Entry : EntryInv(e)
  BY DEF IInv
<1>. USE Nothings
<1>1. ASSUME NEW e \in Entry, PassTimeout(e) PROVE EntryInv(f)'
  <2>1. /\ OnlyEntry(e) /\ entry'[e].state = entry[e].state /\ entry'[e].client = entry[e].client
        /\ entry'[e].providers = entry[e].providers
        /\ entry'[e].dep = entry[e].dep /\ entry'[e].refs = entry[e].refs
        /\ entry'[e].pendingKill = entry[e].pendingKill /\ entry'[e].ready = entry[e].ready
    BY <1>0, <1>1, IdleEffect
  <2>2. spawner' = spawner /\ process' = process
    BY <1>1 DEF PassTimeout
  <2>3. EntryInv(e) /\ EntryInv(f)
    BY <1>0
  <2>4. /\ entry'[e].pendingKill => entry'[e].refs > 0 /\ entry'[e].providers = {}
        /\ ~Finished(e) => entry'[e].refs <= 0
    BY <2>1, <2>3 DEF EntryInv
  <2>. QED  BY <1>0, <2>1, <2>2, <2>3, <2>4, EntryWeighed
<1>2. CASE Evict \/ (\E n \in Pinged : Ping(n)) \/ CancelContext \/ ClosePool
  <2>1. UNCHANGED <<entry, spawner, process>>
    BY <1>2 DEF Evict, Ping, CancelContext, ClosePool
  <2>. QED  BY <1>0, <2>1, EntryKept
<1>3. {"evictor", "pinger", "shutdown"} \subseteq Worker
  BY DEF Worker, background
<1>4. CASE EvictorTeardown
  <2>1. PICK e \in Entry : TeardownEntry("evictor", e)
    BY <1>0, <1>4 DEF EvictorTeardown, TypeOK
  <2>. QED  BY <1>3, <1>4, <2>1, EntryTornDown DEF EvictorTeardown
<1>5. pinged # None => pinged \in Entry
  BY <1>0 DEF TypeOK, EntryOrNone
<1>6. CASE PingTeardown
  BY <1>3, <1>5, <1>6, EntryTornDown DEF PingTeardown
<1>7. CASE Pong
  <2>1. CASE entry' = entry
    BY <1>0, <1>7, <2>1, EntryKept DEF Pong
  <2>2. CASE entry' = [entry EXCEPT ![pinged].state = "dead"]
    <3>1. pinged \in Entry /\ entry[pinged].state = "ready"
      BY <1>5, <1>7 DEF Pong
    <3>. DEFINE e == pinged
    <3>2. /\ OnlyEntry(e) /\ entry'[e].state = "dead" /\ entry'[e].dep = entry[e].dep
          /\ entry'[e].refs = entry[e].refs /\ entry'[e].client = entry[e].client
          /\ entry'[e].pendingKill = entry[e].pendingKill
          /\ entry'[e].providers = entry[e].providers /\ entry'[e].ready = entry[e].ready
      BY <1>0, <2>2, <3>1, StateEffect
    <3>3. spawner' = spawner /\ process' = process
      BY <1>7 DEF Pong
    <3>4. CASE f = e
      <4>1. EntryInv(e)
        BY <1>0, <3>1
      <4>. QED  BY <3>1, <3>2, <3>3, <3>4, <4>1 DEF EntryInv, Used, Finished
    <3>5. CASE f # e
      BY <1>0, <3>2, <3>3, <3>5, EntryKept DEF OnlyEntry
    <3>. QED  BY <3>4, <3>5
  <2>. QED  BY <1>7, <2>1, <2>2 DEF Pong
<1>8. CASE ShutdownTeardown
  <2>1. PICK e \in Entry :
          /\ entry' = [entry EXCEPT ![e].providers = {}, ![e].client = FALSE]
          /\ teardown' = [teardown EXCEPT !["shutdown"] =
                         [unregister |-> entry[e].providers,
                          kill |-> IF entry[e].client THEN e ELSE None]]
    BY <1>0, <1>8 DEF ShutdownTeardown, TypeOK
  <2>2. /\ OnlyEntry(e) /\ entry'[e].client = FALSE /\ entry'[e].providers = {}
        /\ entry'[e].pendingKill = entry[e].pendingKill /\ entry'[e].refs = entry[e].refs
        /\ entry'[e].dep = entry[e].dep /\ entry'[e].state = entry[e].state
        /\ entry'[e].ready = entry[e].ready
    BY <1>0, <2>1, ShutdownEffect
  <2>3. spawner' = spawner /\ process' = process
    BY <1>8 DEF ShutdownTeardown
  <2>4. EntryInv(e) /\ EntryInv(f)
    BY <1>0
  <2>5. /\ entry'[e].pendingKill => entry'[e].refs > 0 /\ entry'[e].providers = {}
        /\ ~Finished(e) => entry'[e].refs <= 0
    BY <2>2, <2>4 DEF EntryInv
  <2>. QED  BY <1>0, <2>2, <2>3, <2>4, <2>5, EntryWeighed
<1>. QED  BY <1>1, <1>2, <1>4, <1>6, <1>7, <1>8 DEF Background

LEMMA EntriesStep ==
  ASSUME IInv, [Next]_vars, NEW f \in Entry
  PROVE  EntryInv(f)'
<1>0. EntryInv(f) /\ TypeOK
  BY DEF IInv
<1>1. ASSUME NEW c \in Caller, Begin(c) \/ Request(c) \/ GiveUp(c) \/ Finish(c)
      PROVE  EntryInv(f)'
  <2>1. CASE Begin(c) \/ LookUp(c) \/ WaitFails(c) \/ GiveUp(c) \/ Finish(c) \/ Release(c)
    <3>1. UNCHANGED <<entry, spawner, process>>
      BY <2>1 DEF Begin, LookUp, WaitFails, GiveUp, Abandon, Finish, Release, ReleaseLookUp
    <3>. QED  BY <1>0, <3>1, EntryKept
  <2>2. CASE CallerTeardown(c)
    <3>1. caller[c].ptr \in Entry /\ c \in Worker
      BY <2>2 DEF IInv, WorkerInv, CallerInv, CallerTeardown, Worker
    <3>. QED  BY <2>2, <3>1, EntryTornDown DEF CallerTeardown
  <2>. QED  BY <1>1, <2>1, <2>2, EntryCreated, EntryValidated, EntryDropped DEF Request
<1>2. CASE UNCHANGED vars
  BY <1>0, <1>2, EntryKept DEF vars
<1>. QED  BY <1>1, <1>2, NextCases, EntrySpawned, EntryKilled, EntryBackground

-----------------------------------------------------------------------------
(* Entries stay what they are; clients are killed once. *)

\* Only its creation gives an entry its name and its use.
LEMMA Settled ==
  ASSUME IInv, [Next]_vars, \A c \in Caller : ~CreateEntry(c), NEW f \in Entry
  PROVE  (Used(f)' <=> Used(f)) /\ entry'[f].dep = entry[f].dep
<1>0. TypeOK /\ \A e \in Entry : EntryInv(e)
  BY DEF IInv
<1>. USE Nothings
<1>1. ASSUME entry' = entry PROVE (Used(f)' <=> Used(f)) /\ entry'[f].dep = entry[f].dep
  BY <1>1 DEF Used
<1>2. ASSUME NEW e \in Entry, OnlyEntry(e), entry'[e].dep = entry[e].dep,
             entry'[e].state = entry[e].state \/ (Used(e) /\ entry'[e].state # "unused")
      PROVE  (Used(f)' <=> Used(f)) /\ entry'[f].dep = entry[f].dep
  BY <1>2 DEF Used, OnlyEntry
<1>3. ASSUME NEW c \in Caller, Begin(c) \/ Request(c) \/ GiveUp(c) \/ Finish(c)
      PROVE  (Used(f)' <=> Used(f)) /\ entry'[f].dep = entry[f].dep
  <2>1. CASE Begin(c) \/ LookUp(c) \/ WaitFails(c) \/ GiveUp(c) \/ Finish(c) \/ Release(c)
    BY <1>1, <2>1 DEF Begin, LookUp, WaitFails, GiveUp, Abandon, Finish, Release, ReleaseLookUp
  <2>2. CASE Validate(c) \/ Drop(c) \/ CallerTeardown(c)
    <3>1. caller[c].ptr \in Entry /\ c \in Worker
      BY <2>2 DEF IInv, WorkerInv, CallerInv, Validate, Drop, CallerTeardown, Worker
    <3>2. CASE Validate(c)
      BY <1>0, <1>2, <3>1, <3>2, ValidateEffect
    <3>3. CASE Drop(c)
      BY <1>0, <1>2, <3>1, <3>3, DropEffect
    <3>4. CASE CallerTeardown(c)
      BY <1>0, <1>2, <3>1, <3>4, TeardownEffect DEF CallerTeardown
    <3>. QED  BY <2>2, <3>2, <3>3, <3>4
  <2>. QED  BY <1>3, <2>1, <2>2 DEF Request
<1>4. ASSUME NEW e \in Entry, Spawn(e)
      PROVE  (Used(f)' <=> Used(f)) /\ entry'[f].dep = entry[f].dep
  <2>1. Used(e)
    BY <1>0, <1>4 DEF Spawn, Fetch, GetProviders, RegisterProvider, Publish, Close, EntryInv
  <2>2. CASE Fetch(e) \/ GetProviders(e)
    BY <1>0, <1>1, <1>2, <2>1, <2>2, StateEffect DEF Fetch, GetProviders
  <2>3. CASE RegisterProvider(e)
    BY <1>1, <2>3 DEF RegisterProvider
  <2>4. CASE Publish(e)
    BY <1>0, <1>2, <2>1, <2>4, PublishEffect
  <2>5. CASE Close(e)
    BY <1>0, <1>2, <2>5, CloseEffect
  <2>. QED  BY <1>4, <2>2, <2>3, <2>4, <2>5 DEF Spawn
<1>5. ASSUME NEW w \in Worker, Teardown(w)
      PROVE  (Used(f)' <=> Used(f)) /\ entry'[f].dep = entry[f].dep
  BY <1>1, <1>5 DEF Teardown, Unregister, Kill
<1>6. CASE Background
  <2>0. {"evictor", "pinger", "shutdown"} \subseteq Worker
    BY DEF Worker, background
  <2>1. pinged # None => pinged \in Entry
    BY <1>0 DEF TypeOK, EntryOrNone
  <2>2. ASSUME NEW e \in Entry, PassTimeout(e)
        PROVE  (Used(f)' <=> Used(f)) /\ entry'[f].dep = entry[f].dep
    BY <1>0, <1>2, <2>2, IdleEffect
  <2>3. CASE Evict \/ (\E n \in Pinged : Ping(n)) \/ CancelContext \/ ClosePool
    BY <1>1, <2>3 DEF Evict, Ping, CancelContext, ClosePool
  <2>4. CASE EvictorTeardown
    <3>1. PICK e \in Entry : TeardownEntry("evictor", e)
      BY <1>0, <2>4 DEF EvictorTeardown, TypeOK
    <3>. QED  BY <1>0, <1>2, <2>0, <3>1, TeardownEffect
  <2>5. CASE PingTeardown
    BY <1>0, <1>2, <2>0, <2>1, <2>5, TeardownEffect DEF PingTeardown
  <2>6. CASE Pong
    <3>1. pinged \in Entry /\ Used(pinged)
      BY <2>1, <2>6 DEF Pong, Used
    <3>. QED  BY <1>0, <1>1, <1>2, <2>6, <3>1, StateEffect DEF Pong
  <2>7. CASE ShutdownTeardown
    <3>1. PICK e \in Entry :
            /\ entry' = [entry EXCEPT ![e].providers = {}, ![e].client = FALSE]
            /\ teardown' = [teardown EXCEPT !["shutdown"] =
                           [unregister |-> entry[e].providers,
                            kill |-> IF entry[e].client THEN e ELSE None]]
      BY <1>0, <2>7 DEF ShutdownTeardown, TypeOK
    <3>. QED  BY <1>0, <1>2, <3>1, ShutdownEffect
  <2>. QED  BY <1>6, <2>2, <2>3, <2>4, <2>5, <2>6, <2>7 DEF Background
<1>7. CASE UNCHANGED vars
  BY <1>1, <1>7 DEF vars
<1>. QED  BY <1>3, <1>4, <1>5, <1>6, <1>7, NextCases

LEMMA PendingStep ==
  ASSUME IInv, [Next]_vars
  PROVE  PendingInv'
<1>0. TypeOK /\ PendingInv
  BY DEF IInv
<1>1. ASSUME NEW c \in Caller, CreateEntry(c) PROVE PendingInv'
  <2>. DEFINE k == Cardinality(Pending)
  <2>1. IsFiniteSet(Pending)
    BY PendingFinite
  <2>2. k \in Nat
    BY PendingFinite
  <2>3. k + 1 \in Entry /\ OnlyEntry(k + 1) /\ entry'[k + 1].state = "starting"
    BY <1>0, <1>1, CreateEffect
  <2>4. ~Used(k + 1)
    BY <2>3, FreshEntry
  <2>5. Pending' = Pending \cup {k + 1}
    <3>. HIDE DEF k
    <3>. QED  BY <2>3, <2>4 DEF Pending, Used, OnlyEntry
  <2>6. k + 1 \notin Pending
    BY <2>4 DEF Pending, Used
  <2>7. Cardinality(Pending') = k + 1
    BY <2>1, <2>5, <2>6, FS_AddElement
  <2>8. Pending = 1..k
    BY <1>0 DEF PendingInv
  <2>. HIDE DEF k
  <2>9. Pending' = 1..(k + 1)
    BY <2>2, <2>5, <2>8
  <2>. QED  BY <2>7, <2>9 DEF PendingInv
<1>2. CASE \A c \in Caller : ~CreateEntry(c)
  <2>1. \A f \in Entry : Used(f)' <=> Used(f)
    BY <1>2, Settled
  <2>2. Pending' = Pending
    BY <2>1 DEF Pending, Used
  <2>. QED  BY <1>0, <2>2 DEF PendingInv
<1>. QED  BY <1>1, <1>2

\* Whom a teardown is about to kill stays as it is.
LEMMA KillKept ==
  ASSUME TypeOK, KillInv, NEW e \in Entry, OnlyEntry(e),
         \A v \in Worker : teardown'[v].kill = teardown[v].kill,
         \A f \in Entry \ {e} : process'[f] = process[f],
         \/ ~Finished(e)
         \/ /\ process'[e] = process[e] /\ Finished(e)'
            /\ entry'[e].client => entry[e].client
            /\ entry'[e].providers \subseteq entry[e].providers
  PROVE  KillInv'
<1>1. ASSUME NEW w \in Worker, NEW k, k = teardown[w].kill, k # None
      PROVE  /\ process'[k] = "alive" /\ Finished(k)' /\ ~entry'[k].client
             /\ entry'[k].providers = {}
             /\ \A v \in Worker \ {w} : teardown'[v].kill # k
  <2>1. k \in Entry
    BY <1>1, TeardownTypes DEF EntryOrNone
  <2>2. /\ process[k] = "alive" /\ Finished(k) /\ ~entry[k].client
        /\ entry[k].providers = {} /\ \A v \in Worker \ {w} : teardown[v].kill # k
    BY <1>1 DEF KillInv
  <2>3. \A v \in Worker \ {w} : teardown'[v].kill # k
    BY <2>2
  <2>4. ~entry'[k].client
    BY <2>1, <2>2, Zenon DEF OnlyEntry
  <2>5. process'[k] = "alive" /\ Finished(k)' /\ entry'[k].providers = {}
    <3>1. CASE k = e
      BY <2>2, <3>1
    <3>2. CASE k # e
      BY <2>1, <2>2, <3>2 DEF OnlyEntry, Finished
    <3>. QED  BY <3>1, <3>2
  <2>. QED  BY <2>3, <2>4, <2>5
<1>. QED  BY <1>1 DEF KillInv

\* A goroutine takes a client out of its entry to kill it.
LEMMA KillTaken ==
  ASSUME TypeOK, KillInv, NEW w \in Worker, teardown[w].kill = None,
         NEW e \in Entry, EntryInv(e), OnlyEntry(e), process' = process,
         entry'[e].state = entry[e].state,
         entry'[e].client => entry[e].client,
         entry'[e].providers \subseteq entry[e].providers,
         \A v \in Worker \ {w} : teardown'[v] = teardown[v],
         \/ teardown'[w].kill = None
         \/ teardown'[w].kill = e /\ entry[e].client /\ ~entry'[e].client
              /\ entry'[e].providers = {}
  PROVE  KillInv'
<1>1. ASSUME NEW v \in Worker \ {w}, NEW k, k = teardown[v].kill, k # None
      PROVE  /\ process'[k] = "alive" /\ Finished(k)' /\ ~entry'[k].client
             /\ entry'[k].providers = {}
             /\ \A u \in Worker \ {v} : teardown'[u].kill # k
  <2>1. k \in Entry
    BY <1>1, TeardownTypes DEF EntryOrNone
  <2>2. /\ process[k] = "alive" /\ Finished(k) /\ ~entry[k].client
        /\ entry[k].providers = {} /\ \A u \in Worker \ {v} : teardown[u].kill # k
    BY <1>1 DEF KillInv
  <2>3. teardown'[w].kill # k
    BY <1>1, <2>2
  <2>4. \A u \in Worker \ {v} : teardown'[u].kill # k
    BY <2>2, <2>3
  <2>5. ~entry'[k].client
    BY <2>1, <2>2, Zenon DEF OnlyEntry
  <2>6. process'[k] = "alive" /\ Finished(k)' /\ entry'[k].providers = {}
    <3>1. CASE k = e
      BY <2>2, <3>1 DEF Finished
    <3>2. CASE k # e
      BY <2>1, <2>2, <3>2 DEF OnlyEntry, Finished
    <3>. QED  BY <3>1, <3>2
  <2>. QED  BY <2>4, <2>5, <2>6
<1>2. ASSUME teardown'[w].kill # None
      PROVE  /\ teardown'[w].kill = e /\ process'[e] = "alive" /\ Finished(e)'
             /\ ~entry'[e].client /\ entry'[e].providers = {}
             /\ \A v \in Worker \ {w} : teardown'[v].kill # e
  <2>1. teardown'[w].kill = e /\ entry[e].client /\ ~entry'[e].client /\ entry'[e].providers = {}
    BY <1>2
  <2>2. process[e] = "alive" /\ Finished(e)
    BY <2>1 DEF EntryInv
  <2>3. \A v \in Worker : teardown[v].kill # e
    BY <2>1, Nothings DEF KillInv
  <2>. QED  BY <2>1, <2>2, <2>3 DEF Finished
<1>. QED  BY <1>1, <1>2 DEF KillInv

\* A teardown takes the client unless it is referenced.
LEMMA KillDecided ==
  ASSUME TypeOK, KillInv, NEW w \in Worker, teardown[w].kill = None,
         NEW e \in Entry, EntryInv(e), process' = process, TeardownEntry(w, e)
  PROVE  KillInv'
<1>1. /\ OnlyEntry(e)
      /\ entry'[e].client <=> Deferred(e)
      /\ entry'[e].providers = {} /\ entry'[e].state = entry[e].state
      /\ \A v \in Worker \ {w} : teardown'[v] = teardown[v]
      /\ teardown'[w].kill = IF entry[e].client /\ ~Deferred(e) THEN e ELSE None
  BY TeardownEffect
<1>2. entry'[e].client => entry[e].client
  BY <1>1 DEF Deferred
<1>3. \/ teardown'[w].kill = None
      \/ teardown'[w].kill = e /\ entry[e].client /\ ~entry'[e].client
           /\ entry'[e].providers = {}
  BY <1>1
<1>4. entry'[e].providers \subseteq entry[e].providers
  BY <1>1
<1>. QED  BY <1>1, <1>2, <1>3, <1>4, KillTaken

LEMMA KillFrame ==
  ASSUME TypeOK, KillInv, UNCHANGED <<entry, process>>,
         \A v \in Worker : teardown'[v].kill = teardown[v].kill
  PROVE  KillInv'
BY DEF KillInv, Finished

\* The kill itself: nobody else is about to kill the same process.
LEMMA KillDone ==
  ASSUME TypeOK, KillInv, NEW w \in Worker, Kill(w)
  PROVE  KillInv'
<1>0. /\ teardown \in [Worker -> TeardownRecord] /\ process \in [Entry -> {"none", "alive", "killed"}]
      /\ NoTeardown.kill = None
  BY DEF TypeOK, NoTeardown
<1>1. /\ process' = [process EXCEPT ![teardown[w].kill] = "killed"]
      /\ teardown' = [teardown EXCEPT ![w] = NoTeardown] /\ entry' = entry
      /\ teardown[w].kill # None
  BY DEF Kill
<1>2. teardown'[w].kill = None /\ \A v \in Worker \ {w} : teardown'[v] = teardown[v]
  BY <1>0, <1>1
<1>3. ASSUME NEW v \in Worker, NEW k, k = teardown'[v].kill, k # None
      PROVE  /\ process'[k] = "alive" /\ Finished(k)' /\ ~entry'[k].client
             /\ entry'[k].providers = {}
             /\ \A u \in Worker \ {v} : teardown'[u].kill # k
  <2>1. v # w /\ k = teardown[v].kill
    BY <1>2, <1>3
  <2>2. /\ process[k] = "alive" /\ Finished(k) /\ ~entry[k].client
        /\ entry[k].providers = {} /\ \A u \in Worker \ {v} : teardown[u].kill # k
    BY <1>3, <2>1 DEF KillInv
  <2>3. k \in Entry /\ teardown[w].kill # k
    BY <1>3, <2>1, <2>2, TeardownTypes DEF EntryOrNone
  <2>4. process'[k] = "alive"
    BY <1>0, <1>1, <2>2, <2>3
  <2>5. \A u \in Worker \ {v} : teardown'[u].kill # k
    BY <1>2, <1>3, <2>2
  <2>. QED  BY <1>1, <2>2, <2>4, <2>5 DEF Finished
<1>. QED  BY <1>3 DEF KillInv

LEMMA KillCaller ==
  ASSUME IInv, NEW c \in Caller, Begin(c) \/ Request(c) \/ GiveUp(c) \/ Finish(c)
  PROVE  KillInv'
<1>0. TypeOK /\ KillInv /\ \A e \in Entry : EntryInv(e)
  BY DEF IInv
<1>. USE Nothings
<1>1. c \in Worker
  BY DEF Worker
<1>2. caller[c].pc # "release" => teardown[c].kill = None
  BY <1>0, <1>1, TeardownTypes DEF IInv, WorkerInv, CallerInv
<1>3. CASE Begin(c) \/ LookUp(c) \/ WaitFails(c) \/ GiveUp(c) \/ Finish(c) \/ Release(c)
  <2>1. UNCHANGED <<entry, process, teardown>>
    BY <1>3 DEF Begin, LookUp, WaitFails, GiveUp, Abandon, Finish, Release, ReleaseLookUp
  <2>. QED  BY <1>0, <2>1, KillFrame
<1>4. CASE CreateEntry(c)
  <2>. DEFINE e == Cardinality(Pending) + 1
  <2>1. e \in Entry /\ OnlyEntry(e) /\ ~Finished(e)
    BY <1>0, <1>4, CreateEffect, FreshEntry DEF Finished, Used
  <2>2. process' = process /\ teardown' = teardown
    BY <1>4 DEF CreateEntry
  <2>. HIDE DEF e
  <2>. QED  BY <1>0, <2>1, <2>2, KillKept
<1>5. CASE Validate(c)
  <2>1. PICK e \in Entry : e = caller[c].ptr
    BY <1>5 DEF Validate, IInv, WorkerInv, CallerInv
  <2>2. /\ OnlyEntry(e) /\ entry'[e].client = entry[e].client
        /\ entry'[e].state = entry[e].state /\ entry'[e].providers = entry[e].providers
    BY <1>0, <1>5, <2>1, ValidateEffect
  <2>3. process' = process /\ teardown' = teardown
    BY <1>5 DEF Validate
  <2>4. Finished(e)' <=> Finished(e)
    BY <2>2 DEF Finished
  <2>. QED  BY <1>0, <2>2, <2>3, <2>4, KillKept
<1>6. CASE CallerTeardown(c)
  <2>1. PICK e \in Entry : e = caller[c].ptr
    BY <1>6 DEF CallerTeardown, IInv, WorkerInv, CallerInv
  <2>2. TeardownEntry(c, e) /\ process' = process /\ teardown[c].kill = None
    BY <1>2, <1>6, <2>1 DEF CallerTeardown
  <2>3. EntryInv(e)
    BY <1>0
  <2>. QED  BY <1>0, <1>1, <2>2, <2>3, KillDecided
<1>7. CASE Drop(c)
  <2>1. PICK e \in Entry : e = caller[c].ptr
    BY <1>7 DEF Drop, IInv, WorkerInv, CallerInv
  <2>2. /\ OnlyEntry(e) /\ entry'[e].state = entry[e].state
        /\ entry'[e].client <=> entry[e].client /\ ~Drains(e)
        /\ entry'[e].providers = entry[e].providers
    BY <1>0, <1>7, <2>1, DropEffect
  <2>3. teardown \in [Worker -> TeardownRecord] /\ process' = process /\ teardown[c].kill = None
    BY <1>0, <1>2, <1>7 DEF Drop, TypeOK
  <2>4. /\ \A v \in Worker \ {c} : teardown'[v] = teardown[v]
        /\ teardown'[c].kill = IF Drains(e) /\ entry[e].client THEN e ELSE None
    <3>. DEFINE k == IF Drains(e) /\ entry[e].client THEN e ELSE None
    <3>1. teardown' = [teardown EXCEPT ![c].kill = k]
      BY <1>7, <2>1 DEF Drop
    <3>2. k = IF Drains(e) /\ entry[e].client THEN e ELSE None
      OBVIOUS
    <3>. HIDE DEF k
    <3>. QED  BY <1>1, <2>3, <3>1, <3>2 DEF TeardownRecord
  <2>5. EntryInv(e)
    BY <1>0
  <2>6. Drains(e) => entry[e].providers = {}
    BY <2>5 DEF Drains, EntryInv
  <2>7. entry'[e].client => entry[e].client
    BY <2>2
  <2>8. \/ teardown'[c].kill = None
        \/ teardown'[c].kill = e /\ entry[e].client /\ ~entry'[e].client
             /\ entry'[e].providers = {}
    BY <2>2, <2>4, <2>6
  <2>. QED  BY <1>0, <1>1, <2>2, <2>3, <2>4, <2>5, <2>7, <2>8, KillTaken
<1>. QED  BY <1>3, <1>4, <1>5, <1>6, <1>7 DEF Request

LEMMA KillSpawn ==
  ASSUME IInv, NEW e \in Entry, Spawn(e)
  PROVE  KillInv'
<1>0. TypeOK /\ KillInv /\ EntryInv(e)
  BY DEF IInv
<1>1. CASE Fetch(e) \/ GetProviders(e)
  <2>1. ~Finished(e)
    BY <1>0, <1>1 DEF Fetch, GetProviders, EntryInv, Finished
  <2>2. OnlyEntry(e)
    <3>1. CASE entry' = entry
      BY <3>1 DEF OnlyEntry
    <3>2. CASE entry' = [entry EXCEPT ![e].state = "dead"]
      BY <1>0, <3>2, StateEffect
    <3>. QED  BY <1>1, <3>1, <3>2 DEF Fetch, GetProviders
  <2>3. teardown' = teardown /\ \A f \in Entry \ {e} : process'[f] = process[f]
    BY <1>0, <1>1 DEF Fetch, GetProviders, TypeOK
  <2>. QED  BY <1>0, <2>1, <2>2, <2>3, KillKept
<1>2. CASE RegisterProvider(e)
  <2>1. UNCHANGED <<entry, process, teardown>>
    BY <1>2 DEF RegisterProvider
  <2>. QED  BY <1>0, <2>1, KillFrame
<1>3. CASE Publish(e)
  <2>1. ~Finished(e) /\ process' = process /\ teardown' = teardown
    BY <1>0, <1>3 DEF Publish, EntryInv, Finished
  <2>2. OnlyEntry(e)
    BY <1>0, <1>3, PublishEffect
  <2>. QED  BY <1>0, <2>1, <2>2, KillKept
<1>4. CASE Close(e)
  <2>1. process' = process /\ teardown' = teardown
    BY <1>4 DEF Close
  <2>2. /\ OnlyEntry(e) /\ entry'[e].state = entry[e].state /\ entry'[e].client = entry[e].client
        /\ entry'[e].providers = entry[e].providers
    BY <1>0, <1>4, CloseEffect
  <2>3. Finished(e)' <=> Finished(e)
    BY <2>2 DEF Finished
  <2>. QED  BY <1>0, <2>1, <2>2, <2>3, KillKept
<1>. QED  BY <1>1, <1>2, <1>3, <1>4 DEF Spawn

LEMMA KillBackground ==
  ASSUME IInv, Background
  PROVE  KillInv'
<1>0. TypeOK /\ KillInv /\ \A e \in Entry : EntryInv(e)
  BY DEF IInv
<1>1. {"evictor", "pinger", "shutdown"} \subseteq Worker
  BY DEF Worker, background
<1>2. \A w \in {"evictor", "pinger", "shutdown"} : Idle(w) => teardown[w].kill = None
  BY <1>0, <1>1, TeardownTypes
<1>3. pinged # None => pinged \in Entry
  BY <1>0 DEF TypeOK, EntryOrNone
<1>4. ASSUME NEW e \in Entry, PassTimeout(e) PROVE KillInv'
  <2>1. process' = process /\ teardown' = teardown
    BY <1>4 DEF PassTimeout
  <2>2. /\ OnlyEntry(e) /\ entry'[e].state = entry[e].state /\ entry'[e].client = entry[e].client
        /\ entry'[e].providers = entry[e].providers
    BY <1>0, <1>4, IdleEffect
  <2>3. Finished(e)' <=> Finished(e)
    BY <2>2 DEF Finished
  <2>. QED  BY <1>0, <2>1, <2>2, <2>3, KillKept
<1>5. CASE Evict \/ (\E n \in Pinged : Ping(n)) \/ CancelContext \/ ClosePool
  <2>1. UNCHANGED <<entry, process, teardown>>
    BY <1>5 DEF Evict, Ping, CancelContext, ClosePool
  <2>. QED  BY <1>0, <2>1, KillFrame
<1>6. CASE EvictorTeardown
  <2>1. PICK e \in Entry : TeardownEntry("evictor", e)
    BY <1>0, <1>6 DEF EvictorTeardown, TypeOK
  <2>2. process' = process /\ teardown["evictor"].kill = None /\ EntryInv(e)
    BY <1>0, <1>2, <1>6 DEF EvictorTeardown
  <2>. QED  BY <1>0, <1>1, <2>1, <2>2, KillDecided
<1>7. CASE PingTeardown
  <2>1. PICK e \in Entry : e = pinged
    BY <1>3, <1>7 DEF PingTeardown
  <2>2. TeardownEntry("pinger", e) /\ process' = process /\ EntryInv(e)
    BY <1>0, <1>7, <2>1 DEF PingTeardown
  <2>3. teardown["pinger"].kill = None
    BY <1>2, <1>7 DEF PingTeardown, IInv, WorkerInv, CallerInv
  <2>. QED  BY <1>0, <1>1, <2>2, <2>3, KillDecided
<1>8. CASE Pong
  <2>0. process' = process /\ teardown' = teardown
    BY <1>8 DEF Pong
  <2>1. CASE entry' = entry
    BY <1>0, <2>0, <2>1, KillFrame
  <2>2. CASE entry' = [entry EXCEPT ![pinged].state = "dead"]
    <3>1. PICK e \in Entry : e = pinged
      BY <1>3, <1>8 DEF Pong
    <3>2. /\ OnlyEntry(e) /\ entry'[e].state = "dead" /\ entry'[e].client = entry[e].client
          /\ entry'[e].providers = entry[e].providers
      BY <1>0, <2>2, <3>1, StateEffect
    <3>3. Finished(e)'
      BY <3>2 DEF Finished
    <3>. QED  BY <1>0, <2>0, <3>2, <3>3, KillKept
  <2>. QED  BY <1>8, <2>1, <2>2 DEF Pong
<1>9. CASE ShutdownTeardown
  <2>1. PICK e \in Entry :
          /\ entry' = [entry EXCEPT ![e].providers = {}, ![e].client = FALSE]
          /\ teardown' = [teardown EXCEPT !["shutdown"] =
                         [unregister |-> entry[e].providers,
                          kill |-> IF entry[e].client THEN e ELSE None]]
    BY <1>0, <1>9 DEF ShutdownTeardown, TypeOK
  <2>2. /\ OnlyEntry(e) /\ entry'[e].client = FALSE /\ entry'[e].providers = {}
        /\ entry'[e].state = entry[e].state
        /\ \A v \in Worker \ {"shutdown"} : teardown'[v] = teardown[v]
        /\ teardown'["shutdown"].kill = IF entry[e].client THEN e ELSE None
    BY <1>0, <2>1, ShutdownEffect
  <2>3. process' = process /\ teardown["shutdown"].kill = None /\ EntryInv(e)
    BY <1>0, <1>2, <1>9 DEF ShutdownTeardown
  <2>4. entry'[e].client => entry[e].client
    BY <2>2
  <2>5. entry'[e].providers \subseteq entry[e].providers
    BY <2>2
  <2>6. \/ teardown'["shutdown"].kill = None
        \/ teardown'["shutdown"].kill = e /\ entry[e].client /\ ~entry'[e].client
             /\ entry'[e].providers = {}
    BY <2>2
  <2>. QED  BY <1>0, <1>1, <2>2, <2>3, <2>4, <2>5, <2>6, KillTaken
<1>. QED  BY <1>4, <1>5, <1>6, <1>7, <1>8, <1>9 DEF Background

LEMMA KillStep ==
  ASSUME IInv, [Next]_vars
  PROVE  KillInv'
<1>0. TypeOK /\ KillInv
  BY DEF IInv
<1>1. ASSUME NEW w \in Worker, Unregister(w) PROVE KillInv'
  <2>1. PICK p \in teardown[w].unregister :
          teardown' = [teardown EXCEPT ![w].unregister = @ \ {p}]
    BY <1>1 DEF Unregister
  <2>2. teardown \in [Worker -> TeardownRecord]
    BY <1>0 DEF TypeOK
  <2>3. \A v \in Worker : teardown'[v].kill = teardown[v].kill
    BY <2>1, <2>2 DEF TeardownRecord
  <2>4. entry' = entry /\ process' = process
    BY <1>1 DEF Unregister
  <2>. QED  BY <1>0, <2>3, <2>4, KillFrame
<1>2. CASE UNCHANGED vars
  BY <1>0, <1>2, KillFrame DEF vars
<1>. QED  BY <1>0, <1>1, <1>2, NextCases, KillCaller, KillSpawn, KillDone, KillBackground DEF Teardown

-----------------------------------------------------------------------------
(* Claims to providers. *)

LEMMA ClaimFrame ==
  ASSUME ClaimInv, registry' = registry,
         \A w \in Worker : teardown'[w].unregister = teardown[w].unregister,
         \A e \in Entry : Claims(e)' = Claims(e)
  PROVE  ClaimInv'
<1>1. ASSUME NEW e \in Entry, NEW p \in Claims(e)' PROVE registry'[p] = e
  BY <1>1 DEF ClaimInv
<1>2. ASSUME NEW w \in Worker, NEW p \in teardown'[w].unregister, NEW e, e = registry[p]
      PROVE  /\ e \in Entry /\ p \notin Claims(e)'
             /\ \A v \in Worker \ {w} : p \notin teardown'[v].unregister
  BY <1>2 DEF ClaimInv
<1>3. ASSUME NEW p \in Provider, NEW e \in Entry, registry[p] = e
      PROVE  p \in Claims(e)' \/ \E w \in Worker : p \in teardown'[w].unregister
  BY <1>3 DEF ClaimInv
<1>. QED  BY <1>1, <1>2, <1>3 DEF ClaimInv

\* A goroutine takes claims of an entry, to remove them from the registry.
LEMMA ClaimTaken ==
  ASSUME ClaimInv, registry' = registry, NEW w \in Worker, teardown[w].unregister = {},
         \A v \in Worker \ {w} : teardown'[v] = teardown[v],
         NEW e \in Entry, teardown'[w].unregister \subseteq Claims(e),
         Claims(e)' = Claims(e) \ teardown'[w].unregister,
         \A f \in Entry \ {e} : Claims(f)' = Claims(f)
  PROVE  ClaimInv'
<1>0. \A f \in Entry : Claims(f)' \subseteq Claims(f)
  OBVIOUS
<1>1. ASSUME NEW f \in Entry, NEW p \in Claims(f)' PROVE registry'[p] = f
  BY <1>0, <1>1 DEF ClaimInv
<1>2. ASSUME NEW v \in Worker, NEW p \in teardown'[v].unregister, NEW f, f = registry[p]
      PROVE  /\ f \in Entry /\ p \notin Claims(f)'
             /\ \A u \in Worker \ {v} : p \notin teardown'[u].unregister
  <2>1. CASE v = w
    <3>1. p \in Claims(e) /\ f = e
      BY <1>2, <2>1 DEF ClaimInv
    <3>2. \A u \in Worker : p \notin teardown[u].unregister
      BY <1>2, <3>1 DEF ClaimInv
    <3>. QED  BY <1>2, <2>1, <3>1, <3>2
  <2>2. CASE v # w
    <3>1. /\ f \in Entry /\ p \notin Claims(f)
          /\ \A u \in Worker \ {v} : p \notin teardown[u].unregister
      BY <1>2, <2>2 DEF ClaimInv
    <3>2. p \notin Claims(e)
      BY <1>2, <3>1 DEF ClaimInv
    <3>. QED  BY <1>0, <2>2, <3>1, <3>2
  <2>. QED  BY <2>1, <2>2
<1>3. ASSUME NEW p \in Provider, NEW f \in Entry, registry[p] = f
      PROVE  p \in Claims(f)' \/ \E v \in Worker : p \in teardown'[v].unregister
  <2>1. p \in Claims(f) \/ \E v \in Worker : p \in teardown[v].unregister
    BY <1>3 DEF ClaimInv
  <2>2. CASE p \in Claims(f)
    BY <2>2
  <2>3. CASE \E v \in Worker : p \in teardown[v].unregister
    BY <2>3
  <2>. QED  BY <2>1, <2>2, <2>3
<1>. QED  BY <1>1, <1>2, <1>3 DEF ClaimInv

\* A provider whose name is free is registered and claimed.
LEMMA ClaimMade ==
  ASSUME TypeOK, ClaimInv, teardown' = teardown, NEW e \in Entry, NEW q \in Provider,
         registry[q] = None, registry' = [registry EXCEPT ![q] = e],
         Claims(e)' = Claims(e) \cup {q}, \A f \in Entry \ {e} : Claims(f)' = Claims(f)
  PROVE  ClaimInv'
<1>0. registry'[q] = e /\ \A p \in Provider \ {q} : registry'[p] = registry[p]
  BY DEF TypeOK
<1>1. ASSUME NEW f \in Entry, NEW p \in Claims(f)' PROVE registry'[p] = f
  <2>1. CASE p \in Claims(f)
    <3>1. registry[p] = f
      BY <2>1 DEF ClaimInv
    <3>2. p # q /\ f # None
      BY <3>1, Nothings
    <3>. QED  BY <3>1, <3>2
  <2>2. CASE p \notin Claims(f)
    BY <1>0, <1>1, <2>2
  <2>. QED  BY <2>1, <2>2
<1>2. ASSUME NEW v \in Worker, NEW p \in teardown'[v].unregister, NEW f, f = registry'[p]
      PROVE  /\ f \in Entry /\ p \notin Claims(f)'
             /\ \A u \in Worker \ {v} : p \notin teardown'[u].unregister
  <2>1. registry[p] \in Entry
    BY <1>2 DEF ClaimInv
  <2>2. p # q
    BY <2>1, Nothings
  <2>3. f = registry[p]
    BY <1>2, <2>2
  <2>4. /\ p \notin Claims(f)
        /\ \A u \in Worker \ {v} : p \notin teardown[u].unregister
    BY <1>2, <2>3 DEF ClaimInv
  <2>. QED  BY <2>1, <2>2, <2>3, <2>4
<1>3. ASSUME NEW p \in Provider, NEW f \in Entry, registry'[p] = f
      PROVE  p \in Claims(f)' \/ \E v \in Worker : p \in teardown'[v].unregister
  BY <1>0, <1>3 DEF ClaimInv
<1>. QED  BY <1>1, <1>2, <1>3 DEF ClaimInv

\* A provider is removed from the registry.
LEMMA ClaimRemoved ==
  ASSUME TypeOK, ClaimInv, NEW w \in Worker, Unregister(w)
  PROVE  ClaimInv'
<1>1. PICK q \in teardown[w].unregister :
        /\ registry' = [registry EXCEPT ![q] = None]
        /\ teardown' = [teardown EXCEPT ![w].unregister = @ \ {q}]
  BY DEF Unregister
<1>2. teardown \in [Worker -> TeardownRecord] /\ q \in Provider
  BY <1>1, TeardownTypes DEF TypeOK
<1>3. /\ teardown'[w].unregister = teardown[w].unregister \ {q}
      /\ \A v \in Worker \ {w} : teardown'[v] = teardown[v]
  BY <1>1, <1>2 DEF TeardownRecord
<1>4. registry'[q] = None /\ \A p : p # q => registry'[p] = registry[p]
  BY <1>1, <1>2 DEF TypeOK
<1>5. \A f \in Entry : Claims(f)' = Claims(f)
  BY DEF Unregister, Claims
<1>6. \A f \in Entry : q \notin Claims(f)
  BY <1>1 DEF ClaimInv
<1>7. \A v \in Worker : q \notin teardown'[v].unregister
  BY <1>1, <1>3 DEF ClaimInv
<1>8. ASSUME NEW f \in Entry, NEW p \in Claims(f)' PROVE registry'[p] = f
  BY <1>4, <1>5, <1>6, <1>8 DEF ClaimInv
<1>9. ASSUME NEW v \in Worker, NEW p \in teardown'[v].unregister, NEW f, f = registry'[p]
      PROVE  /\ f \in Entry /\ p \notin Claims(f)'
             /\ \A u \in Worker \ {v} : p \notin teardown'[u].unregister
  <2>1. p # q /\ p \in teardown[v].unregister
    BY <1>3, <1>7, <1>9
  <2>2. f = registry[p]
    BY <1>4, <1>9, <2>1
  <2>3. /\ f \in Entry /\ p \notin Claims(f)
        /\ \A u \in Worker \ {v} : p \notin teardown[u].unregister
    BY <2>1, <2>2 DEF ClaimInv
  <2>. QED  BY <1>3, <1>5, <2>3
<1>10. ASSUME NEW p \in Provider, NEW f \in Entry, registry'[p] = f
       PROVE  p \in Claims(f)' \/ \E v \in Worker : p \in teardown'[v].unregister
  <2>1. p # q /\ registry[p] = f
    BY <1>4, <1>10, Nothings
  <2>2. p \in Claims(f) \/ \E v \in Worker : p \in teardown[v].unregister
    BY <1>10, <2>1 DEF ClaimInv
  <2>. QED  BY <1>3, <1>5, <2>1, <2>2
<1>. QED  BY <1>8, <1>9, <1>10 DEF ClaimInv

\* What the claims of all entries are, from those of the one a step changes.
LEMMA ClaimsOf ==
  ASSUME NEW e \in Entry, OnlyEntry(e), OnlySpawner(e)
  PROVE  \A f \in Entry \ {e} : Claims(f)' = Claims(f)
BY DEF OnlyEntry, OnlySpawner, Claims

LEMMA ClaimKept ==
  ASSUME ClaimInv, NEW e \in Entry, OnlyEntry(e), OnlySpawner(e),
         entry'[e].providers = entry[e].providers,
         spawner'[e].registered = spawner[e].registered,
         registry' = registry, teardown' = teardown
  PROVE  ClaimInv'
<1>1. Claims(e)' = Claims(e)
  BY DEF Claims
<1>. QED  BY <1>1, ClaimsOf, ClaimFrame

\* The providers of an entry are taken for its teardown.
LEMMA ClaimDecided ==
  ASSUME TypeOK, ClaimInv, NEW w \in Worker, teardown[w].unregister = {},
         NEW e \in Entry, EntryInv(e), registry' = registry, spawner' = spawner,
         OnlyEntry(e), entry'[e].providers = {},
         \A v \in Worker \ {w} : teardown'[v] = teardown[v],
         teardown'[w].unregister = entry[e].providers
  PROVE  ClaimInv'
<1>1. entry[e].providers = {} \/ spawner[e].registered = {}
  BY DEF EntryInv, Finished
<1>2. Claims(e)' = Claims(e) \ entry[e].providers /\ entry[e].providers \subseteq Claims(e)
  BY <1>1 DEF Claims
<1>3. OnlySpawner(e)
  BY DEF OnlySpawner
<1>. QED  BY <1>2, <1>3, ClaimsOf, ClaimTaken

LEMMA ClaimCaller ==
  ASSUME IInv, NEW c \in Caller, Begin(c) \/ Request(c) \/ GiveUp(c) \/ Finish(c)
  PROVE  ClaimInv'
<1>0. TypeOK /\ ClaimInv /\ \A e \in Entry : EntryInv(e)
  BY DEF IInv
<1>. USE Nothings
<1>1. c \in Worker
  BY DEF Worker
<1>2. caller[c].pc # "release" => teardown[c].unregister = {}
  BY <1>0, <1>1, TeardownTypes DEF IInv, WorkerInv, CallerInv
<1>3. CASE Begin(c) \/ LookUp(c) \/ WaitFails(c) \/ GiveUp(c) \/ Finish(c) \/ Release(c)
  <2>1. UNCHANGED <<entry, spawner, registry, teardown>>
    BY <1>3 DEF Begin, LookUp, WaitFails, GiveUp, Abandon, Finish, Release, ReleaseLookUp
  <2>. QED  BY <1>0, <2>1, ClaimFrame DEF Claims
<1>4. CASE CreateEntry(c)
  <2>. DEFINE e == Cardinality(Pending) + 1
  <2>1. e \in Entry /\ OnlyEntry(e) /\ entry'[e].providers = entry[e].providers
    BY <1>0, <1>4, CreateEffect
  <2>2. OnlySpawner(e) /\ spawner'[e].registered = spawner[e].registered
    BY <1>0, <1>4, <2>1, SpawnsEffect DEF CreateEntry
  <2>3. registry' = registry /\ teardown' = teardown
    BY <1>4 DEF CreateEntry
  <2>. HIDE DEF e
  <2>. QED  BY <1>0, <2>1, <2>2, <2>3, ClaimKept
<1>5. CASE Validate(c)
  <2>1. PICK e \in Entry : e = caller[c].ptr
    BY <1>5 DEF Validate, IInv, WorkerInv, CallerInv
  <2>2. OnlyEntry(e) /\ entry'[e].providers = entry[e].providers
    BY <1>0, <1>5, <2>1, ValidateEffect
  <2>3. UNCHANGED <<spawner, registry, teardown>>
    BY <1>5 DEF Validate
  <2>. QED  BY <1>0, <2>2, <2>3, ClaimKept DEF OnlySpawner
<1>6. CASE CallerTeardown(c)
  <2>1. PICK e \in Entry : e = caller[c].ptr
    BY <1>6 DEF CallerTeardown, IInv, WorkerInv, CallerInv
  <2>2. TeardownEntry(c, e) /\ registry' = registry /\ spawner' = spawner /\ EntryInv(e)
    BY <1>0, <1>6, <2>1 DEF CallerTeardown
  <2>3. teardown[c].unregister = {}
    BY <1>2, <1>6 DEF CallerTeardown
  <2>. QED  BY <1>0, <1>1, <2>2, <2>3, TeardownEffect, ClaimDecided
<1>7. CASE Drop(c)
  <2>1. PICK e \in Entry : e = caller[c].ptr
    BY <1>7 DEF Drop, IInv, WorkerInv, CallerInv
  <2>2. OnlyEntry(e) /\ entry'[e].providers = entry[e].providers
    BY <1>0, <1>7, <2>1, DropEffect
  <2>3. registry' = registry /\ spawner' = spawner
    BY <1>7 DEF Drop
  <2>4. \A v \in Worker : teardown'[v].unregister = teardown[v].unregister
    <3>1. teardown \in [Worker -> TeardownRecord]
      BY <1>0 DEF TypeOK
    <3>2. PICK k : teardown' = [teardown EXCEPT ![c].kill = k]
      BY <1>7 DEF Drop
    <3>. QED  BY <3>1, <3>2 DEF TeardownRecord
  <2>5. OnlySpawner(e) /\ Claims(e)' = Claims(e)
    BY <2>2, <2>3 DEF OnlySpawner, Claims
  <2>. QED  BY <1>0, <2>2, <2>3, <2>4, <2>5, ClaimsOf, ClaimFrame
<1>. QED  BY <1>3, <1>4, <1>5, <1>6, <1>7 DEF Request

LEMMA ClaimSpawn ==
  ASSUME IInv, NEW e \in Entry, Spawn(e)
  PROVE  ClaimInv'
<1>0. TypeOK /\ ClaimInv /\ EntryInv(e)
  BY DEF IInv
<1>1. CASE Fetch(e) \/ GetProviders(e)
  <2>1. registry' = registry /\ teardown' = teardown
    BY <1>1 DEF Fetch, GetProviders
  <2>2. OnlyEntry(e) /\ entry'[e].providers = entry[e].providers
    <3>1. CASE entry' = entry
      BY <3>1 DEF OnlyEntry
    <3>2. CASE entry' = [entry EXCEPT ![e].state = "dead"]
      BY <1>0, <3>2, StateEffect
    <3>. QED  BY <1>1, <3>1, <3>2 DEF Fetch, GetProviders
  <2>3. OnlySpawner(e) /\ spawner'[e].registered = spawner[e].registered
    <3>1. CASE \E loc \in {"providers", "close"} : spawner' = Spawns(e, loc)
      BY <1>0, <3>1, SpawnsEffect DEF Spawns
    <3>2. CASE /\ GetProviders(e)
               /\ spawner' = [spawner EXCEPT ![e].pc = "register", ![e].left = Declares[entry[e].dep]]
      BY <3>2, ListedDeclared
    <3>. QED  BY <1>1, <3>1, <3>2 DEF Fetch, GetProviders
  <2>. QED  BY <1>0, <2>1, <2>2, <2>3, ClaimKept
<1>2. CASE RegisterProvider(e)
  <2>1. entry' = entry /\ teardown' = teardown
    BY <1>2 DEF RegisterProvider
  <2>2. OnlyEntry(e) /\ OnlySpawner(e)
    BY <1>0, <1>2, <2>1, RegisterEffect DEF OnlyEntry
  <2>3. CASE registry' = registry /\ spawner'[e].registered = spawner[e].registered
    BY <1>0, <2>1, <2>2, <2>3, ClaimKept
  <2>4. CASE \E p \in Provider :
                 /\ registry[p] = None
                 /\ registry' = [registry EXCEPT ![p] = e]
                 /\ spawner'[e].registered = spawner[e].registered \cup {p}
    <3>1. PICK p \in Provider :
                 /\ registry[p] = None
                 /\ registry' = [registry EXCEPT ![p] = e]
                 /\ spawner'[e].registered = spawner[e].registered \cup {p}
      BY <2>4
    <3>2. Claims(e)' = Claims(e) \cup {p}
      BY <2>1, <3>1 DEF Claims
    <3>. QED  BY <1>0, <2>1, <2>2, <3>1, <3>2, ClaimsOf, ClaimMade
  <2>. QED  BY <1>0, <1>2, <2>3, <2>4, RegisterEffect
<1>3. CASE Publish(e)
  <2>1. registry' = registry /\ teardown' = teardown
    BY <1>3 DEF Publish
  <2>2. OnlyEntry(e) /\ entry'[e].providers = spawner[e].registered
    BY <1>0, <1>3, PublishEffect
  <2>3. OnlySpawner(e) /\ spawner'[e].registered = {}
    BY <1>0, <1>3, ClaimedEffect
  <2>4. entry[e].providers = {}
    BY <1>0, <1>3 DEF Publish, EntryInv, Finished
  <2>5. Claims(e)' = Claims(e)
    BY <2>2, <2>3, <2>4 DEF Claims
  <2>. QED  BY <1>0, <2>1, <2>2, <2>3, <2>5, ClaimsOf, ClaimFrame
<1>4. CASE Close(e)
  <2>1. registry' = registry /\ teardown' = teardown
    BY <1>4 DEF Close
  <2>2. OnlyEntry(e) /\ entry'[e].providers = entry[e].providers
    BY <1>0, <1>4, CloseEffect
  <2>3. OnlySpawner(e) /\ spawner'[e].registered = spawner[e].registered
    BY <1>0, <1>4, SpawnsEffect DEF Close, Spawns
  <2>. QED  BY <1>0, <2>1, <2>2, <2>3, ClaimKept
<1>. QED  BY <1>1, <1>2, <1>3, <1>4 DEF Spawn

LEMMA ClaimBackground ==
  ASSUME IInv, Background
  PROVE  ClaimInv'
<1>0. TypeOK /\ ClaimInv /\ \A e \in Entry : EntryInv(e)
  BY DEF IInv
<1>1. {"evictor", "pinger", "shutdown"} \subseteq Worker
  BY DEF Worker, background
<1>2. \A w \in {"evictor", "pinger", "shutdown"} : Idle(w) => teardown[w].unregister = {}
  BY <1>0, <1>1, TeardownTypes
<1>3. pinged # None => pinged \in Entry
  BY <1>0 DEF TypeOK, EntryOrNone
<1>4. ASSUME NEW e \in Entry, PassTimeout(e) PROVE ClaimInv'
  <2>1. UNCHANGED <<spawner, registry, teardown>>
    BY <1>4 DEF PassTimeout
  <2>2. OnlyEntry(e) /\ entry'[e].providers = entry[e].providers
    BY <1>0, <1>4, IdleEffect
  <2>. QED  BY <1>0, <2>1, <2>2, ClaimKept DEF OnlySpawner
<1>5. CASE Evict \/ (\E n \in Pinged : Ping(n)) \/ CancelContext \/ ClosePool
  <2>1. UNCHANGED <<entry, spawner, registry, teardown>>
    BY <1>5 DEF Evict, Ping, CancelContext, ClosePool
  <2>. QED  BY <1>0, <2>1, ClaimFrame DEF Claims
<1>6. CASE EvictorTeardown
  <2>1. PICK e \in Entry : TeardownEntry("evictor", e)
    BY <1>0, <1>6 DEF EvictorTeardown, TypeOK
  <2>2. /\ registry' = registry /\ spawner' = spawner
        /\ teardown["evictor"].unregister = {} /\ EntryInv(e)
    BY <1>0, <1>2, <1>6 DEF EvictorTeardown
  <2>. QED  BY <1>0, <1>1, <2>1, <2>2, TeardownEffect, ClaimDecided
<1>7. CASE PingTeardown
  <2>1. PICK e \in Entry : e = pinged
    BY <1>3, <1>7 DEF PingTeardown
  <2>2. TeardownEntry("pinger", e) /\ registry' = registry /\ spawner' = spawner /\ EntryInv(e)
    BY <1>0, <1>7, <2>1 DEF PingTeardown
  <2>3. teardown["pinger"].unregister = {}
    BY <1>2, <1>7 DEF PingTeardown, IInv, WorkerInv, CallerInv
  <2>. QED  BY <1>0, <1>1, <2>2, <2>3, TeardownEffect, ClaimDecided
<1>8. CASE Pong
  <2>0. UNCHANGED <<spawner, registry, teardown>>
    BY <1>8 DEF Pong
  <2>1. CASE entry' = entry
    BY <1>0, <2>0, <2>1, ClaimFrame DEF Claims
  <2>2. CASE entry' = [entry EXCEPT ![pinged].state = "dead"]
    <3>1. PICK e \in Entry : e = pinged
      BY <1>3, <1>8 DEF Pong
    <3>2. OnlyEntry(e) /\ entry'[e].providers = entry[e].providers
      BY <1>0, <2>2, <3>1, StateEffect
    <3>. QED  BY <1>0, <2>0, <3>2, ClaimKept DEF OnlySpawner
  <2>. QED  BY <1>8, <2>1, <2>2 DEF Pong
<1>9. CASE ShutdownTeardown
  <2>1. PICK e \in Entry :
          /\ entry' = [entry EXCEPT ![e].providers = {}, ![e].client = FALSE]
          /\ teardown' = [teardown EXCEPT !["shutdown"] =
                         [unregister |-> entry[e].providers,
                          kill |-> IF entry[e].client THEN e ELSE None]]
    BY <1>0, <1>9 DEF ShutdownTeardown, TypeOK
  <2>2. /\ OnlyEntry(e) /\ entry'[e].providers = {}
        /\ \A v \in Worker \ {"shutdown"} : teardown'[v] = teardown[v]
        /\ teardown'["shutdown"].unregister = entry[e].providers
    BY <1>0, <2>1, ShutdownEffect
  <2>3. /\ registry' = registry /\ spawner' = spawner
        /\ teardown["shutdown"].unregister = {} /\ EntryInv(e)
    BY <1>0, <1>2, <1>9 DEF ShutdownTeardown
  <2>. QED  BY <1>0, <1>1, <2>2, <2>3, ClaimDecided
<1>. QED  BY <1>4, <1>5, <1>6, <1>7, <1>8, <1>9 DEF Background

LEMMA ClaimStep ==
  ASSUME IInv, [Next]_vars
  PROVE  ClaimInv'
<1>0. TypeOK /\ ClaimInv
  BY DEF IInv
<1>1. ASSUME NEW w \in Worker, Kill(w) PROVE ClaimInv'
  <2>1. /\ teardown' = [teardown EXCEPT ![w] = NoTeardown] /\ teardown[w].unregister = {}
        /\ UNCHANGED <<entry, spawner, registry>>
    BY <1>1 DEF Kill
  <2>2. teardown \in [Worker -> TeardownRecord] /\ NoTeardown.unregister = {}
    BY <1>0 DEF TypeOK, NoTeardown
  <2>3. \A v \in Worker : teardown'[v].unregister = teardown[v].unregister
    BY <2>1, <2>2
  <2>. QED  BY <1>0, <2>1, <2>3, ClaimFrame DEF Claims
<1>2. CASE UNCHANGED vars
  BY <1>0, <1>2, ClaimFrame DEF vars, Claims
<1>. QED  BY <1>0, <1>1, <1>2, NextCases, ClaimCaller, ClaimSpawn, ClaimRemoved, ClaimBackground
          DEF Teardown

-----------------------------------------------------------------------------
(* What goroutines point at. *)

\* An entry in use stays in use, under its name; off the map it stays off.
LEMMA UsedKept ==
  ASSUME IInv, [Next]_vars, NEW f \in Entry, Used(f)
  PROVE  Used(f)' /\ entry'[f].dep = entry[f].dep
<1>1. CASE \E c \in Caller : CreateEntry(c)
  <2>. DEFINE e == Cardinality(Pending) + 1
  <2>1. OnlyEntry(e) /\ e \in Entry
    BY <1>1, CreateEffect DEF IInv
  <2>2. f # e
    BY <2>1, FreshEntry
  <2>. HIDE DEF e
  <2>3. entry'[f] = entry[f]
    BY <2>1, <2>2 DEF OnlyEntry
  <2>. QED  BY <2>3 DEF Used
<1>2. CASE \A c \in Caller : ~CreateEntry(c)
  BY <1>2, Settled
<1>. QED  BY <1>1, <1>2

LEMMA MapShrinks ==
  ASSUME IInv, [Next]_vars, NEW n \in Name, \A c \in Caller : ~CreateEntry(c)
  PROVE  entries'[n] \in {None, entries[n]}
<1>0. entries \in [Name -> EntryOrNone]
  BY DEF IInv, TypeOK
<1>1. ASSUME NEW c \in Caller, Begin(c) \/ Request(c) \/ GiveUp(c) \/ Finish(c)
      PROVE  entries'[n] \in {None, entries[n]}
  <2>1. CASE entries' = entries
    BY <2>1
  <2>2. CASE WaitFails(c) \/ GiveUp(c)
    BY <1>0, <2>1, <2>2 DEF WaitFails, GiveUp, Abandon
  <2>. QED  BY <1>1, <2>1, <2>2 DEF Begin, Request, LookUp, Validate, CallerTeardown, Finish,
              Release, ReleaseLookUp, Drop
<1>2. CASE Background
  BY <1>0, <1>2 DEF Background, PassTimeout, Evict, EvictorTeardown, Ping, Pong, PingTeardown,
     CancelContext, ClosePool, ShutdownTeardown
<1>3. CASE (\E w \in Worker : Teardown(w)) \/ (\E e \in Entry : Spawn(e)) \/ UNCHANGED vars
  BY <1>3 DEF Teardown, Unregister, Kill, Spawn, Fetch, GetProviders, RegisterProvider, Publish,
     Close, vars
<1>. QED  BY <1>1, <1>2, <1>3, NextCases

LEMMA OffMapKept ==
  ASSUME IInv, [Next]_vars, NEW f \in Entry, Used(f), OffMap(f)
  PROVE  OffMap(f)'
<1>1. ASSUME NEW c \in Caller, CreateEntry(c) PROVE OffMap(f)'
  <2>. DEFINE e == Cardinality(Pending) + 1
  <2>1. f # e
    BY <1>1, FreshEntry DEF CreateEntry
  <2>2. entries \in [Name -> EntryOrNone]
    BY DEF IInv, TypeOK
  <2>3. entries' = [entries EXCEPT ![Plugin(c)] = e]
    BY <1>1 DEF CreateEntry
  <2>. HIDE DEF e
  <2>4. \A n \in Name : entries'[n] \in {e, entries[n]}
    BY <2>2, <2>3
  <2>. QED  BY <2>1, <2>4 DEF OffMap
<1>2. CASE \A c \in Caller : ~CreateEntry(c)
  BY <1>2, MapShrinks, Nothings DEF OffMap
<1>. QED  BY <1>1, <1>2

LEMMA CallerKept ==
  ASSUME IInv, [Next]_vars, NEW d \in Caller, caller'[d] = caller[d], Idle(d) => Idle(d)'
  PROVE  CallerInv(d)'
<1>. DEFINE e == caller[d].ptr
<1>1. CallerInv(d)
  BY DEF IInv, WorkerInv
<1>2. Plugin(d)' = Plugin(d)
  BY DEF Plugin
<1>3. CASE caller[d].pc \in {"wait", "teardown", "drop"}
  <2>1. e \in Entry /\ Used(e)
    BY <1>1, <1>3 DEF CallerInv
  <2>2. PICK f \in Entry : f = e
    BY <2>1
  <2>3. Used(f)' /\ entry'[f].dep = entry[f].dep /\ (OffMap(f) => OffMap(f)')
    BY <2>1, <2>2, UsedKept, OffMapKept
  <2>. QED  BY <1>1, <1>2, <2>2, <2>3 DEF CallerInv
<1>4. CASE caller[d].pc \notin {"wait", "teardown", "drop"}
  BY <1>1, <1>4 DEF CallerInv
<1>. QED  BY <1>3, <1>4

LEMMA CallerMoves ==
  ASSUME IInv, [Next]_vars, NEW c \in Caller,
         Begin(c) \/ Request(c) \/ GiveUp(c) \/ Finish(c)
  PROVE  CallerInv(c)'
<1>0. teardown' = teardown => (Idle(c) => Idle(c)')
  BY DEF Idle, NoTeardown
<1>1. TypeOK /\ MapInv /\ CallerInv(c) /\ c \in Worker
  BY DEF IInv, WorkerInv, Worker
<1>. USE Nothings
<1>2. Plugin(c) \in Name
  BY <1>1, CallerTypes
<1>3. ASSUME caller'[c].pc \in {"idle", "ensure", "using"}, Idle(c), teardown' = teardown
      PROVE  CallerInv(c)'
  BY <1>0, <1>1, <1>3 DEF CallerInv
<1>4. ASSUME caller'[c].pc = "release" PROVE CallerInv(c)'
  BY <1>4 DEF CallerInv
<1>5. ASSUME NEW e \in Entry, NEW loc, loc \in {"wait", "teardown", "drop"}, caller' = MoveTo(c, loc, e),
             Idle(c), teardown' = teardown, Used(e)',
             loc # "drop" => entry'[e].dep = Plugin(c), loc = "teardown" => OffMap(e)'
      PROVE  CallerInv(c)'
  <2>0. caller' = MoveTo(c, loc, e)
    BY <1>5
  <2>1. caller'[c].pc = loc /\ caller'[c].ptr = e /\ caller'[c].at = caller[c].at
    <3>1. TypeOK
      BY <1>1
    <3>. HIDE Nothings
    <3>2. caller[c] \in CallerRecord(c) /\ DOMAIN caller = Caller
      BY <3>1 DEF TypeOK
    <3>. QED  BY <2>0, <3>2 DEF MoveTo, CallerRecord
  <2>2. Plugin(c)' = Plugin(c)
    BY <2>1 DEF Plugin
  <2>. QED  BY <1>0, <1>1, <1>5, <2>1, <2>2 DEF CallerInv
<1>6. ASSUME NEW n \in Mapped
      PROVE  entries[n] \in Entry /\ Used(entries[n]) /\ entry[entries[n]].dep = n
  BY <1>1 DEF MapInv, Mapped, TypeOK, EntryOrNone
<1>7. CASE Begin(c)
  <2>1. Idle(c) /\ teardown' = teardown
    BY <1>1, <1>7 DEF Begin, CallerInv
  <2>2. caller'[c].pc = "ensure"
    BY <1>1, <1>7 DEF Begin, EnsureAt, TypeOK
  <2>. QED  BY <1>3, <2>1, <2>2
<1>8. CASE LookUp(c)
  <2>1. Idle(c) /\ teardown' = teardown /\ entry' = entry
    BY <1>1, <1>8 DEF LookUp, CallerInv
  <2>2. CASE caller' = MoveTo(c, "release", None)
    BY <1>1, <1>4, <2>2, Moves
  <2>3. CASE caller' = NextPlugin(c)
    BY <1>1, <1>3, <2>1, <2>3, Advances
  <2>4. CASE Plugin(c) \in Mapped /\ caller' = MoveTo(c, "wait", entries[Plugin(c)])
    <3>1. PICK e \in Entry : e = entries[Plugin(c)]
      BY <1>6, <2>4
    <3>2. Used(e)' /\ entry'[e].dep = Plugin(c)
      BY <1>6, <2>1, <2>4, <3>1 DEF Used
    <3>. QED  BY <1>5, <2>1, <2>4, <3>1, <3>2
  <2>. QED  BY <1>8, <2>2, <2>3, <2>4 DEF LookUp
<1>9. CASE CreateEntry(c)
  <2>. DEFINE e == Cardinality(Pending) + 1
  <2>1. e \in Entry /\ entry'[e].dep = Plugin(c) /\ entry'[e].state = "starting"
    BY <1>1, <1>9, CreateEffect
  <2>2. Idle(c) /\ teardown' = teardown /\ caller' = MoveTo(c, "wait", e)
    BY <1>1, <1>9 DEF CreateEntry, CallerInv
  <2>3. PICK f \in Entry : f = e
    BY <2>1
  <2>. HIDE DEF e
  <2>4. Used(f)'
    BY <2>1, <2>3 DEF Used
  <2>. QED  BY <1>5, <2>1, <2>2, <2>3, <2>4
<1>10. CASE Validate(c)
  <2>1. Idle(c) /\ teardown' = teardown /\ caller' = NextPlugin(c)
    BY <1>1, <1>10 DEF Validate, CallerInv
  <2>. QED  BY <1>1, <1>3, <2>1, Advances
<1>11. CASE WaitFails(c) \/ GiveUp(c)
  <2>1. caller[c].pc = "wait" /\ Abandon(c)
    BY <1>11 DEF WaitFails, GiveUp
  <2>2. PICK e \in Entry : e = caller[c].ptr
    BY <1>1, <2>1 DEF CallerInv
  <2>3. Idle(c) /\ Used(e) /\ entry[e].dep = Plugin(c)
    BY <1>1, <2>1, <2>2 DEF CallerInv
  <2>4. teardown' = teardown /\ entry' = entry
    BY <2>1 DEF Abandon
  <2>5. CASE caller' = MoveTo(c, "release", None)
    BY <1>1, <1>4, <2>5, Moves
  <2>6. CASE caller' = MoveTo(c, "teardown", e) /\ entries' = [entries EXCEPT ![Plugin(c)] = None]
    <3>1. entries \in [Name -> EntryOrNone]
      BY <1>1 DEF TypeOK
    <3>2. ASSUME NEW n \in Name PROVE entries'[n] # e
      <4>1. CASE n = Plugin(c)
        BY <2>6, <3>1, <4>1
      <4>2. CASE n # Plugin(c)
        <5>1. entries'[n] = entries[n]
          BY <2>6, <3>1, <4>2
        <5>2. entries[n] = e => n \in Mapped
          BY DEF Mapped
        <5>. QED  BY <1>6, <2>3, <4>2, <5>1, <5>2
      <4>. QED  BY <4>1, <4>2
    <3>3. OffMap(e)'
      BY <3>2 DEF OffMap
    <3>4. Used(e)' /\ entry'[e].dep = Plugin(c)
      BY <2>3, <2>4 DEF Used
    <3>. QED  BY <1>5, <2>3, <2>4, <2>6, <3>3, <3>4
  <2>. QED  BY <2>1, <2>2, <2>5, <2>6 DEF Abandon
<1>12. CASE CallerTeardown(c) \/ Drop(c)
  <2>1. caller' = MoveTo(c, "release", None)
    BY <1>12 DEF CallerTeardown, Drop
  <2>. QED  BY <1>1, <1>4, <2>1, Moves
<1>13. CASE Release(c) \/ Finish(c)
  <2>1. Idle(c) /\ ReleaseLookUp(c)
    BY <1>1, <1>13 DEF Release, Finish, CallerInv
  <2>2. teardown' = teardown /\ entry' = entry
    BY <2>1 DEF ReleaseLookUp
  <2>3. CASE caller' = [caller EXCEPT ![c] = [pc |-> "idle", at |-> 1, ptr |-> None]]
    BY <1>1, <1>3, <2>1, <2>2, <2>3 DEF TypeOK
  <2>4. CASE caller' = MoveTo(c, "release", None)
    BY <1>1, <1>4, <2>4, Moves
  <2>5. CASE \E n \in Mapped : caller' = MoveTo(c, "drop", entries[n])
    <3>1. PICK n \in Mapped : caller' = MoveTo(c, "drop", entries[n])
      BY <2>5
    <3>2. PICK e \in Entry : e = entries[n]
      BY <1>6
    <3>3. Used(e)'
      BY <1>6, <2>2, <3>2 DEF Used
    <3>. QED  BY <1>5, <2>1, <2>2, <3>1, <3>2, <3>3
  <2>. QED  BY <2>1, <2>3, <2>4, <2>5 DEF ReleaseLookUp
<1>. QED  BY <1>7, <1>8, <1>9, <1>10, <1>11, <1>12, <1>13 DEF Request

\* A step of one goroutine leaves the teardowns of the others alone.
LEMMA OthersIdle ==
  ASSUME IInv, [Next]_vars, NEW w \in Worker, Idle(w)
  PROVE  \/ Idle(w)'
         \/ w \in Caller /\ (CallerTeardown(w) \/ Drop(w))
         \/ w = "evictor" /\ EvictorTeardown
         \/ w = "pinger" /\ PingTeardown
         \/ w = "shutdown" /\ ShutdownTeardown
<1>0. TypeOK /\ teardown \in [Worker -> TeardownRecord]
  BY DEF IInv, TypeOK
<1>1. ASSUME teardown'[w] = teardown[w] PROVE Idle(w)'
  BY <1>1 DEF Idle, NoTeardown
<1>2. ASSUME NEW c \in Caller, CallerTeardown(c) \/ Drop(c), c # w PROVE teardown'[w] = teardown[w]
  <2>1. \E t : teardown' = [teardown EXCEPT ![c] = t]
    BY <1>2 DEF CallerTeardown, TeardownEntry, Drop
  <2>. QED  BY <1>0, <1>2, <2>1
<1>3. ASSUME NEW c \in Caller, Begin(c) \/ Request(c) \/ GiveUp(c) \/ Finish(c)
      PROVE  teardown' = teardown \/ CallerTeardown(c) \/ Drop(c)
  BY <1>3 DEF Begin, Request, LookUp, CreateEntry, Validate, WaitFails, GiveUp, Abandon, Finish,
     Release, ReleaseLookUp
<1>4. ASSUME NEW v \in Worker, Teardown(v) PROVE Idle(w)'
  <2>1. CASE v = w
    <3>1. teardown[w].unregister # {} \/ teardown[w].kill # None
      BY <1>4, <2>1 DEF Teardown, Unregister, Kill
    <3>. QED  BY <1>0, <3>1, TeardownTypes
  <2>2. CASE v # w
    <3>1. \E t : teardown' = [teardown EXCEPT ![v] = t]
      BY <1>4 DEF Teardown, Unregister, Kill
    <3>. QED  BY <1>0, <1>1, <2>2, <3>1
  <2>. QED  BY <2>1, <2>2
<1>5. CASE Background
  <2>1. ASSUME NEW v, v # w, \E t : teardown' = [teardown EXCEPT ![v] = t]
        PROVE  teardown'[w] = teardown[w]
    BY <1>0, <2>1
  <2>2. CASE EvictorTeardown
    BY <1>1, <2>1, <2>2 DEF EvictorTeardown, TeardownEntry
  <2>3. CASE PingTeardown
    BY <1>1, <2>1, <2>3 DEF PingTeardown, TeardownEntry
  <2>4. CASE ShutdownTeardown
    <3>1. \E t : teardown' = [teardown EXCEPT !["shutdown"] = t]
      BY <2>4 DEF ShutdownTeardown
    <3>. QED  BY <1>1, <2>1, <2>4, <3>1
  <2>5. CASE UNCHANGED teardown
    BY <1>1, <2>5
  <2>. QED  BY <1>5, <2>2, <2>3, <2>4, <2>5 DEF Background, PassTimeout, Evict, Ping, Pong,
              CancelContext, ClosePool
<1>6. CASE (\E e \in Entry : Spawn(e)) \/ UNCHANGED vars
  BY <1>1, <1>6 DEF Spawn, Fetch, GetProviders, RegisterProvider, Publish, Close, vars
<1>. QED  BY <1>1, <1>2, <1>3, <1>4, <1>5, <1>6, NextCases

\* ... and its place and what it holds.
LEMMA OthersStand ==
  ASSUME IInv, [Next]_vars, NEW d \in Caller,
         ~(Begin(d) \/ Request(d) \/ GiveUp(d) \/ Finish(d))
  PROVE  caller'[d] = caller[d] /\ held'[d] = held[d]
<1>0. TypeOK
  BY DEF IInv
<1>1. ASSUME NEW c \in Caller \ {d}, Begin(c) \/ Request(c) \/ GiveUp(c) \/ Finish(c)
      PROVE  caller'[d] = caller[d] /\ held'[d] = held[d]
  <2>1. ASSUME \E x : caller' = [caller EXCEPT ![c] = x] PROVE caller'[d] = caller[d]
    BY <1>0, <2>1 DEF TypeOK
  <2>2. ASSUME \E loc, e : caller' = MoveTo(c, loc, e) PROVE caller'[d] = caller[d]
    <3>1. PICK loc, e : caller' = MoveTo(c, loc, e)
      BY <2>2
    <3>2. DOMAIN caller = Caller
      BY <1>0 DEF TypeOK
    <3>. QED  BY <3>1, <3>2 DEF MoveTo
  <2>3. ASSUME caller' = NextPlugin(c) PROVE caller'[d] = caller[d]
    BY <1>0, <2>3, Advances
  <2>4. ASSUME held' = held \/ \E n, e : held' = [held EXCEPT ![c][n] = e]
        PROVE  held'[d] = held[d]
    BY <1>0, <2>4 DEF TypeOK
  <2>5. CASE Begin(c)
    BY <2>1, <2>4, <2>5 DEF Begin
  <2>6. CASE LookUp(c) \/ CreateEntry(c) \/ Validate(c)
    BY <2>2, <2>3, <2>4, <2>6 DEF LookUp, CreateEntry, Validate
  <2>7. CASE WaitFails(c) \/ GiveUp(c)
    BY <2>2, <2>4, <2>7 DEF WaitFails, GiveUp, Abandon
  <2>8. CASE CallerTeardown(c) \/ Drop(c)
    BY <2>2, <2>4, <2>8 DEF CallerTeardown, Drop
  <2>9. CASE Release(c) \/ Finish(c)
    BY <2>1, <2>2, <2>4, <2>9 DEF Release, Finish, ReleaseLookUp
  <2>. QED  BY <1>1, <2>5, <2>6, <2>7, <2>8, <2>9 DEF Request
<1>2. CASE Background
  BY <1>2 DEF Background, PassTimeout, Evict, EvictorTeardown, Ping, Pong, PingTeardown,
     CancelContext, ClosePool, ShutdownTeardown, requests
<1>3. CASE (\E w \in Worker : Teardown(w)) \/ (\E e \in Entry : Spawn(e)) \/ UNCHANGED vars
  BY <1>3 DEF Teardown, Unregister, Kill, Spawn, Fetch, GetProviders, RegisterProvider, Publish,
     Close, vars, requests
<1>. QED  BY <1>1, <1>2, <1>3, NextCases

LEMMA CallersStep ==
  ASSUME IInv, [Next]_vars, NEW d \in Caller
  PROVE  CallerInv(d)'
<1>0. TypeOK /\ d \in Worker
  BY DEF IInv, Worker
<1>1. CASE Begin(d) \/ Request(d) \/ GiveUp(d) \/ Finish(d)
  BY <1>1, CallerMoves
<1>2. CASE ~(Begin(d) \/ Request(d) \/ GiveUp(d) \/ Finish(d))
  <2>1. Idle(d) => Idle(d)'
    <3>1. d \notin {"evictor", "pinger", "shutdown"}
      BY PoolAssumption
    <3>. QED  BY <1>0, <1>2, <3>1, OthersIdle DEF Request
  <2>2. caller'[d] = caller[d]
    BY <1>2, OthersStand
  <2>. QED  BY <2>1, <2>2, CallerKept
<1>. QED  BY <1>1, <1>2

\* Ping and the lists of the evictor and of Shutdown.
LEMMA PingerStep ==
  ASSUME IInv, [Next]_vars, pinged' # None
  PROVE  Used(pinged)' /\ Idle("pinger")'
<1>0. /\ TypeOK /\ MapInv /\ (pinged # None => Used(pinged) /\ Idle("pinger"))
      /\ pinged \in EntryOrNone /\ entries \in [Name -> EntryOrNone]
      /\ "pinger" \in Worker /\ "pinger" \notin Caller
  BY PoolAssumption DEF IInv, WorkerInv, TypeOK, Worker, background
<1>1. CASE pinged' = pinged
  <2>1. PICK e \in Entry : e = pinged
    BY <1>0, <1>1 DEF EntryOrNone
  <2>2. Used(e) /\ Idle("pinger")
    BY <1>0, <1>1, <2>1
  <2>3. Used(e)'
    BY <2>2, UsedKept
  <2>4. ~PingTeardown
    BY <1>1 DEF PingTeardown
  <2>5. Idle("pinger")'
    BY <1>0, <2>2, <2>4, OthersIdle
  <2>6. e = pinged'
    BY <1>1, <2>1
  <2>. QED  BY <2>3, <2>5, <2>6 DEF Used
<1>2. CASE \E n \in Pinged : Ping(n)
  <2>1. PICK n \in Mapped : /\ pinged' = entries[n] /\ Idle("pinger")
                            /\ UNCHANGED <<entry, teardown>>
    BY <1>2 DEF Ping
  <2>2. Used(entries[n])
    BY <1>0, <2>1 DEF MapInv
  <2>. QED  BY <2>1, <2>2 DEF Used, Idle, NoTeardown
<1>3. pinged' \in {None, pinged} \/ \E n \in Pinged : Ping(n)
  <2>1. ASSUME NEW c \in Caller, Begin(c) \/ Request(c) \/ GiveUp(c) \/ Finish(c)
        PROVE  pinged' = pinged
    BY <2>1 DEF Begin, Request, LookUp, CreateEntry, Validate, WaitFails, GiveUp, Abandon,
       CallerTeardown, Finish, Release, ReleaseLookUp, Drop
  <2>2. CASE Background
    BY <2>2 DEF Background, PassTimeout, Evict, EvictorTeardown, Pong, PingTeardown,
       CancelContext, ClosePool, ShutdownTeardown
  <2>3. CASE (\E w \in Worker : Teardown(w)) \/ (\E e \in Entry : Spawn(e)) \/ UNCHANGED vars
    BY <2>3 DEF Teardown, Unregister, Kill, Spawn, Fetch, GetProviders, RegisterProvider, Publish,
       Close, vars
  <2>. QED  BY <2>1, <2>2, <2>3, NextCases
<1>. QED  BY <1>1, <1>2, <1>3

\* What leaves the map is not under another name.
LEMMA MappedOnce ==
  ASSUME MapInv, NEW m \in Mapped, NEW n \in Mapped, entries[m] = entries[n]
  PROVE  m = n
BY DEF MapInv

LEMMA VictimsStep ==
  ASSUME IInv, [Next]_vars, NEW w \in {"evictor", "shutdown"}, NEW f \in victims'[w]
  PROVE  Used(f)' /\ OffMap(f)'
<1>0. /\ MapInv /\ victims \in [{"evictor", "shutdown"} -> SUBSET Entry]
      /\ entries \in [Name -> EntryOrNone]
      /\ \A e \in victims[w] : Used(e) /\ OffMap(e)
  BY DEF IInv, WorkerInv, TypeOK
<1>1. CASE f \in victims[w]
  <2>1. f \in Entry /\ Used(f) /\ OffMap(f)
    BY <1>0, <1>1
  <2>. QED  BY <2>1, UsedKept, OffMapKept
<1>2. CASE Evict /\ f \notin victims[w]
  <2>. DEFINE names == {n \in Mapped : Evictable(entries[n])}
  <2>1. /\ victims' = [victims EXCEPT !["evictor"] = {entries[n] : n \in names}]
        /\ entries' = [n \in Name |-> IF n \in names THEN None ELSE entries[n]]
        /\ entry' = entry
    BY <1>2 DEF Evict
  <2>2. PICK n \in names : f = entries[n]
    BY <1>0, <1>2, <2>1
  <2>3. n \in Mapped /\ f # None /\ Used(f)
    BY <1>0, <2>2 DEF MapInv, Mapped
  <2>. HIDE DEF names
  <2>4. ASSUME NEW m \in Name, entries'[m] = f PROVE FALSE
    <3>1. m \notin names /\ entries[m] = f
      BY <2>1, <2>3, <2>4
    <3>2. m \in Mapped
      BY <2>3, <3>1 DEF Mapped
    <3>3. m = n
      BY <1>0, <2>2, <2>3, <3>1, <3>2, MappedOnce
    <3>. QED  BY <2>2, <3>1, <3>3
  <2>. QED  BY <2>1, <2>3, <2>4 DEF OffMap, Used
<1>3. CASE ClosePool /\ f \notin victims[w]
  <2>1. /\ victims' = [victims EXCEPT !["shutdown"] = {entries[n] : n \in Mapped}]
        /\ entries' = [n \in Name |-> None] /\ entry' = entry
    BY <1>3 DEF ClosePool
  <2>2. PICK n \in Mapped : f = entries[n]
    BY <1>0, <1>3, <2>1
  <2>3. f # None /\ Used(f)
    BY <1>0, <2>2 DEF MapInv, Mapped
  <2>. QED  BY <2>1, <2>3 DEF OffMap, Used
<1>4. victims'[w] \subseteq victims[w] \/ Evict \/ ClosePool
  <2>1. ASSUME NEW c \in Caller, Begin(c) \/ Request(c) \/ GiveUp(c) \/ Finish(c)
        PROVE  victims' = victims
    BY <2>1 DEF Begin, Request, LookUp, CreateEntry, Validate, WaitFails, GiveUp, Abandon,
       CallerTeardown, Finish, Release, ReleaseLookUp, Drop
  <2>2. CASE EvictorTeardown \/ ShutdownTeardown
    <3>1. \E v, e : victims' = [victims EXCEPT ![v] = @ \ {e}]
      BY <2>2 DEF EvictorTeardown, ShutdownTeardown
    <3>. QED  BY <1>0, <3>1
  <2>3. CASE Background /\ ~EvictorTeardown /\ ~ShutdownTeardown
    BY <2>3 DEF Background, PassTimeout, Ping, Pong, PingTeardown, CancelContext
  <2>4. CASE (\E v \in Worker : Teardown(v)) \/ (\E e \in Entry : Spawn(e)) \/ UNCHANGED vars
    BY <2>4 DEF Teardown, Unregister, Kill, Spawn, Fetch, GetProviders, RegisterProvider, Publish,
       Close, vars
  <2>. QED  BY <2>1, <2>2, <2>3, <2>4, NextCases
<1>. QED  BY <1>1, <1>2, <1>3, <1>4

LEMMA WorkerStep ==
  ASSUME IInv, [Next]_vars
  PROVE  WorkerInv'
<1>1. ASSUME pinged' # None PROVE Used(pinged)' /\ Idle("pinger")'
  BY <1>1, PingerStep DEF Used
<1>. QED  BY <1>1, CallersStep, VictimsStep DEF WorkerInv

-----------------------------------------------------------------------------
(* What the map hands out. *)

\* Entries off the map may change; those on it must go on serving.
LEMMA MapFrame ==
  ASSUME IInv, [Next]_vars, \A c \in Caller : ~CreateEntry(c),
         \A f \in Entry : ~OffMap(f) /\ Serves(f) => Serves(f)'
  PROVE  MapInv'
<1>1. ASSUME NEW n \in Name, NEW g, entries'[n] = g, g # None
      PROVE  Used(g)' /\ entry'[g].dep = n /\ Serves(g)'
  <2>1. entries'[n] = entries[n] /\ n \in Mapped
    BY <1>1, MapShrinks DEF Mapped
  <2>2. PICK f \in Entry : f = entries[n]
    BY <2>1 DEF IInv, TypeOK, Mapped, EntryOrNone
  <2>3. Used(f) /\ entry[f].dep = n /\ Serves(f) /\ ~OffMap(f)
    BY <2>1, <2>2 DEF IInv, MapInv, OffMap
  <2>4. Used(f)' /\ entry'[f].dep = n /\ Serves(f)'
    BY <2>3, UsedKept
  <2>. QED  BY <1>1, <2>1, <2>2, <2>4
<1>. QED  BY <1>1 DEF MapInv, Mapped, Used, Serves

\* A step changes one entry: one off the map, or one that goes on serving.
LEMMA MapKept ==
  ASSUME IInv, [Next]_vars, \A c \in Caller : ~CreateEntry(c),
         NEW e \in Entry, OnlyEntry(e), OffMap(e) \/ (Serves(e) => Serves(e)')
  PROVE  MapInv'
<1>1. \A f \in Entry \ {e} : Serves(f) => Serves(f)'
  BY DEF OnlyEntry, Serves
<1>. QED  BY <1>1, MapFrame

LEMMA MapCreated ==
  ASSUME IInv, [Next]_vars, NEW c \in Caller, CreateEntry(c)
  PROVE  MapInv'
<1>0. TypeOK /\ MapInv /\ entries \in [Name -> EntryOrNone] /\ \A f \in Entry : EntryInv(f)
  BY DEF IInv, TypeOK
<1>. DEFINE k == Cardinality(Pending) + 1
<1>1. /\ k \in Entry /\ OnlyEntry(k) /\ ~Used(k)
      /\ entry'[k].dep = Plugin(c) /\ entry'[k].state = "starting"
      /\ entry'[k].refs = entry[k].refs /\ entry'[k].pendingKill = entry[k].pendingKill
      /\ entries' = [entries EXCEPT ![Plugin(c)] = k]
  BY <1>0, CreateEffect, FreshEntry DEF CreateEntry
<1>. HIDE DEF k
<1>2. PICK e \in Entry : e = k
  BY <1>1
<1>3. /\ OnlyEntry(e) /\ ~Used(e)
      /\ entry'[e].dep = Plugin(c) /\ entry'[e].state = "starting"
      /\ entry'[e].refs = entry[e].refs /\ entry'[e].pendingKill = entry[e].pendingKill
      /\ entries' = [entries EXCEPT ![Plugin(c)] = e]
  BY <1>1, <1>2
<1>4. entry[e].refs <= 0 /\ ~entry[e].pendingKill /\ entry[e].refs \in Int
  BY <1>0, <1>3, EntryTypes DEF EntryInv, Used, Finished
<1>5. Used(e)' /\ Serves(e)'
  BY <1>3, <1>4 DEF Used, Serves
<1>6. ASSUME NEW n \in Name, NEW g, entries'[n] = g, g # None
      PROVE  Used(g)' /\ entry'[g].dep = n /\ Serves(g)'
  <2>1. CASE n = Plugin(c)
    <3>1. entries'[n] = e
      BY <1>0, <1>3, <2>1
    <3>. QED  BY <1>3, <1>5, <1>6, <2>1, <3>1
  <2>2. CASE n # Plugin(c)
    <3>1. entries'[n] = entries[n] /\ n \in Mapped
      BY <1>0, <1>3, <1>6, <2>2 DEF Mapped
    <3>2. PICK f \in Entry : f = entries[n]
      BY <1>0, <3>1 DEF Mapped, EntryOrNone
    <3>3. Used(f) /\ entry[f].dep = n /\ Serves(f)
      BY <1>0, <3>1, <3>2 DEF MapInv
    <3>4. entry'[f] = entry[f]
      BY <1>3, <3>3 DEF OnlyEntry
    <3>5. Used(f)' /\ entry'[f].dep = n /\ Serves(f)'
      BY <3>3, <3>4 DEF Used, Serves
    <3>. QED  BY <1>6, <3>1, <3>2, <3>5
  <2>. QED  BY <2>1, <2>2
<1>. QED  BY <1>6 DEF MapInv, Mapped, Used, Serves

LEMMA MapCaller ==
  ASSUME IInv, [Next]_vars, NEW c \in Caller,
         Begin(c) \/ Request(c) \/ GiveUp(c) \/ Finish(c), \A d \in Caller : ~CreateEntry(d)
  PROVE  MapInv'
<1>0. TypeOK /\ CallerInv(c) /\ \A e \in Entry : EntryInv(e)
  BY DEF IInv, WorkerInv
<1>1. CASE Begin(c) \/ LookUp(c) \/ WaitFails(c) \/ GiveUp(c) \/ Finish(c) \/ Release(c)
  <2>1. entry' = entry
    BY <1>1 DEF Begin, LookUp, WaitFails, GiveUp, Abandon, Finish, Release, ReleaseLookUp
  <2>. QED  BY <2>1, MapFrame DEF Serves
<1>2. CASE Validate(c)
  <2>1. PICK e \in Entry : e = caller[c].ptr
    BY <1>0, <1>2 DEF Validate, CallerInv
  <2>2. /\ OnlyEntry(e) /\ entry'[e].client = entry[e].client
        /\ entry'[e].state = entry[e].state /\ entry'[e].pendingKill = entry[e].pendingKill
    BY <1>0, <1>2, <2>1, ValidateEffect
  <2>3. entry[e].ready /\ entry[e].state # "dead" /\ EntryInv(e)
    BY <1>0, <1>2, <2>1 DEF Validate
  <2>4. entry[e].state = "ready"
    BY <1>0, <2>3, EntryTypes DEF EntryInv, Used
  <2>5. Serves(e) => Serves(e)'
    BY <2>2, <2>4 DEF Serves
  <2>. QED  BY <2>2, <2>5, MapKept
<1>3. CASE CallerTeardown(c)
  <2>1. PICK e \in Entry : e = caller[c].ptr
    BY <1>0, <1>3 DEF CallerTeardown, CallerInv
  <2>2. OffMap(e) /\ TeardownEntry(c, e) /\ c \in Worker
    BY <1>0, <1>3, <2>1 DEF CallerTeardown, CallerInv, Worker
  <2>3. OnlyEntry(e)
    BY <1>0, <2>2, TeardownEffect
  <2>. QED  BY <2>2, <2>3, MapKept
<1>4. CASE Drop(c)
  <2>1. PICK e \in Entry : e = caller[c].ptr
    BY <1>0, <1>4 DEF Drop, CallerInv
  <2>2. /\ OnlyEntry(e) /\ entry'[e].refs = entry[e].refs - 1
        /\ entry'[e].state = entry[e].state
    BY <1>0, <1>4, <2>1, DropEffect
  <2>3. entry'[e].client <=> entry[e].client /\ ~Drains(e)
    BY <1>0, <1>4, <2>1, DropEffect
  <2>4. entry'[e].pendingKill <=> entry[e].pendingKill /\ ~Drains(e)
    BY <1>0, <1>4, <2>1, DropEffect
  <2>5. entry[e].refs \in Int
    BY <1>0, EntryTypes
  <2>6. ASSUME Serves(e) PROVE Serves(e)'
    <3>1. CASE Drains(e)
      <4>1. entry[e].pendingKill /\ entry'[e].refs <= 0 /\ ~(entry'[e].refs > 0)
        BY <2>2, <2>5, <3>1 DEF Drains
      <4>2. entry'[e].state = "dead"
        BY <2>2, <2>6, <4>1, Zenon DEF Serves
      <4>. QED  BY <4>1, <4>2 DEF Serves
    <3>2. CASE ~Drains(e)
      <4>1. entry'[e].refs > 0 => entry[e].refs > 0
        BY <2>2, <2>5
      <4>. QED  BY <2>2, <2>3, <2>4, <2>6, <3>2, <4>1, Zenon DEF Serves
    <3>. QED  BY <3>1, <3>2
  <2>. QED  BY <2>2, <2>6, MapKept
<1>. QED  BY <1>1, <1>2, <1>3, <1>4 DEF Request

LEMMA MapSpawn ==
  ASSUME IInv, [Next]_vars, NEW e \in Entry, Spawn(e), \A d \in Caller : ~CreateEntry(d)
  PROVE  MapInv'
<1>0. TypeOK /\ EntryInv(e)
  BY DEF IInv
<1>1. CASE entry' = entry
  BY <1>1, MapFrame DEF Serves
<1>2. CASE (Fetch(e) \/ GetProviders(e)) /\ entry' = [entry EXCEPT ![e].state = "dead"]
  <2>1. /\ OnlyEntry(e) /\ entry'[e].state = "dead" /\ entry'[e].refs = entry[e].refs
    BY <1>0, <1>2, StateEffect
  <2>2. ~Finished(e) /\ entry[e].refs \in Int
    BY <1>0, <1>2, EntryTypes DEF Fetch, GetProviders, EntryInv, Finished
  <2>3. ~(entry'[e].refs > 0)
    BY <1>0, <2>1, <2>2 DEF EntryInv
  <2>4. Serves(e)'
    BY <2>1, <2>3 DEF Serves
  <2>. QED  BY <2>1, <2>4, MapKept
<1>3. CASE Publish(e)
  <2>1. /\ OnlyEntry(e) /\ entry'[e].client = TRUE /\ entry'[e].pendingKill = entry[e].pendingKill
    BY <1>0, <1>3, PublishEffect
  <2>2. ~Finished(e) /\ entry[e].refs \in Int
    BY <1>0, <1>3, EntryTypes DEF Publish, EntryInv, Finished
  <2>3. ~entry[e].pendingKill
    BY <1>0, <2>2 DEF EntryInv
  <2>4. Serves(e)'
    BY <2>1, <2>3 DEF Serves
  <2>. QED  BY <2>1, <2>4, MapKept
<1>4. CASE Close(e)
  <2>1. /\ OnlyEntry(e) /\ entry'[e].state = entry[e].state /\ entry'[e].client = entry[e].client
        /\ entry'[e].refs = entry[e].refs /\ entry'[e].pendingKill = entry[e].pendingKill
    BY <1>0, <1>4, CloseEffect
  <2>2. Serves(e) => Serves(e)'
    BY <2>1 DEF Serves
  <2>. QED  BY <2>1, <2>2, MapKept
<1>. QED  BY <1>1, <1>2, <1>3, <1>4 DEF Spawn, Fetch, GetProviders, RegisterProvider

LEMMA MapBackground ==
  ASSUME IInv, [Next]_vars, Background, \A d \in Caller : ~CreateEntry(d)
  PROVE  MapInv'
<1>0. /\ TypeOK /\ \A e \in Entry : EntryInv(e)
      /\ \A w \in {"evictor", "shutdown"} : \A e \in victims[w] : e \in Entry /\ OffMap(e)
  BY DEF IInv, WorkerInv, TypeOK
<1>1. {"evictor", "pinger", "shutdown"} \subseteq Worker
  BY DEF Worker, background
<1>2. pinged # None => pinged \in Entry
  BY <1>0 DEF TypeOK, EntryOrNone
<1>3. ASSUME NEW e \in Entry, PassTimeout(e) PROVE MapInv'
  <2>1. /\ OnlyEntry(e) /\ entry'[e].state = entry[e].state /\ entry'[e].client = entry[e].client
        /\ entry'[e].refs = entry[e].refs /\ entry'[e].pendingKill = entry[e].pendingKill
    BY <1>0, <1>3, IdleEffect
  <2>2. Serves(e) => Serves(e)'
    BY <2>1 DEF Serves
  <2>. QED  BY <2>1, <2>2, MapKept
<1>4. CASE UNCHANGED entry
  BY <1>4, MapFrame DEF Serves
<1>5. CASE EvictorTeardown
  <2>1. PICK e \in Entry : OffMap(e) /\ TeardownEntry("evictor", e)
    BY <1>0, <1>5 DEF EvictorTeardown
  <2>2. OnlyEntry(e)
    BY <1>0, <1>1, <2>1, TeardownEffect
  <2>. QED  BY <2>1, <2>2, MapKept
<1>6. CASE PingTeardown
  <2>1. PICK e \in Entry : e = pinged
    BY <1>2, <1>6 DEF PingTeardown
  <2>2. entry[e].state = "dead" /\ TeardownEntry("pinger", e)
    BY <1>6, <2>1 DEF PingTeardown
  <2>3. OnlyEntry(e) /\ entry'[e].refs = entry[e].refs /\ entry'[e].state = "dead"
    BY <1>0, <1>1, <2>2, TeardownEffect
  <2>4. entry'[e].client <=> Deferred(e)
    BY <1>0, <1>1, <2>2, TeardownEffect
  <2>5. Serves(e) => Serves(e)'
    BY <2>3, <2>4 DEF Serves, Deferred
  <2>. QED  BY <2>3, <2>5, MapKept
<1>7. CASE Pong
  <2>1. CASE entry' = [entry EXCEPT ![pinged].state = "dead"]
    <3>1. PICK e \in Entry : e = pinged
      BY <1>2, <1>7 DEF Pong
    <3>2. /\ OnlyEntry(e) /\ entry'[e].state = "dead" /\ entry'[e].client = entry[e].client
          /\ entry'[e].refs = entry[e].refs
      BY <1>0, <2>1, <3>1, StateEffect
    <3>3. Serves(e) => Serves(e)'
      BY <3>2 DEF Serves
    <3>. QED  BY <3>2, <3>3, MapKept
  <2>. QED  BY <1>4, <1>7, <2>1 DEF Pong
<1>8. CASE ShutdownTeardown
  <2>1. PICK e \in Entry :
          /\ OffMap(e)
          /\ entry' = [entry EXCEPT ![e].providers = {}, ![e].client = FALSE]
          /\ teardown' = [teardown EXCEPT !["shutdown"] =
                         [unregister |-> entry[e].providers,
                          kill |-> IF entry[e].client THEN e ELSE None]]
    BY <1>0, <1>8 DEF ShutdownTeardown
  <2>2. OnlyEntry(e)
    BY <1>0, <2>1, ShutdownEffect
  <2>. QED  BY <2>1, <2>2, MapKept
<1>. QED  BY <1>3, <1>4, <1>5, <1>6, <1>7, <1>8 DEF Background, Evict, Ping, CancelContext, ClosePool

LEMMA MapStep ==
  ASSUME IInv, [Next]_vars
  PROVE  MapInv'
<1>1. ASSUME NEW c \in Caller, CreateEntry(c) PROVE MapInv'
  BY <1>1, MapCreated
<1>2. CASE \A d \in Caller : ~CreateEntry(d)
  <2>1. CASE (\E w \in Worker : Teardown(w)) \/ UNCHANGED vars
    <3>1. entry' = entry
      BY <2>1 DEF Teardown, Unregister, Kill, vars
    <3>. QED  BY <1>2, <3>1, MapFrame DEF Serves
  <2>. QED  BY <1>2, <2>1, NextCases, MapCaller, MapSpawn, MapBackground
<1>. QED  BY <1>1, <1>2

-----------------------------------------------------------------------------
(* Deferred teardowns. *)

\* A request holds nothing of the plugins it still has to ask for.
AskInv(c) ==
  /\ caller[c].pc = "idle" => \A n \in Name : held[c][n] = None
  /\ caller[c].pc \in {"ensure", "wait"} =>
       \A j \in caller[c].at..Len(Wants[c]) : held[c][Wants[c][j]] = None

\* The requests whose Release reaches an entry the map has under the name n.
Reaching(n, e) ==
  {c \in Caller : (caller[c].pc = "drop" /\ caller[c].ptr = e) \/ held[c][n] = e}

\* An entry in the map has no more references than Release will drop.
OwedInv ==
  \A n \in Mapped : entry[entries[n]].refs <= Cardinality(Reaching(n, entries[n]))

DeferInv == (\A c \in Caller : AskInv(c)) /\ OwedInv

LEMMA AdvancesTo ==
  ASSUME TypeOK, NEW c \in Caller, caller' = NextPlugin(c), caller'[c].pc = "ensure"
  PROVE  caller'[c].at = caller[c].at + 1
<1>1. caller[c].at \in 1..Len(Wants[c]) /\ Len(Wants[c]) \in Nat /\ DOMAIN caller = Caller
  BY CallerTypes DEF TypeOK
<1>2. caller'[c] = IF caller[c].at = Len(Wants[c]) THEN WorkBegins(c) ELSE EnsureAt(caller[c].at + 1)
  BY <1>1 DEF NextPlugin
<1>. QED  BY <1>2 DEF WorkBegins, EnsureAt

LEMMA Distinct ==
  ASSUME NEW c \in Caller, NEW i \in 1..Len(Wants[c]), NEW j \in 1..Len(Wants[c]), i # j
  PROVE  Wants[c][i] # Wants[c][j] /\ Wants[c][i] \in Name
<1>1. Wants[c] \in Seq(Name)
  BY PoolAssumption
<1>2. DOMAIN Wants[c] = 1..Len(Wants[c])
  BY <1>1
<1>3. \A k, l \in DOMAIN Wants[c] : k # l => Wants[c][k] # Wants[c][l]
  BY PoolAssumption
<1>. QED  BY <1>1, <1>2, <1>3

LEMMA AskStep ==
  ASSUME IInv, [Next]_vars, NEW c \in Caller, AskInv(c)
  PROVE  AskInv(c)'
<1>0. /\ TypeOK /\ held \in [Caller -> [Name -> EntryOrNone]]
      /\ caller[c].at \in 1..Len(Wants[c]) /\ Len(Wants[c]) \in Nat /\ Plugin(c) \in Name
      /\ DOMAIN caller = Caller
  BY CallerTypes DEF IInv, TypeOK
<1>1. ASSUME NEW j \in 1..Len(Wants[c]) PROVE Wants[c][j] \in Name
  BY <1>1, PoolAssumption
<1>2. ASSUME caller'[c].pc \in {"teardown", "using", "release", "drop"} PROVE AskInv(c)'
  BY <1>2 DEF AskInv
<1>3. ASSUME NEW loc, NEW e, caller' = MoveTo(c, loc, e),
             \/ loc \in {"teardown", "release", "drop"}
             \/ loc = "wait" /\ caller[c].pc \in {"ensure", "wait"} /\ held' = held
      PROVE  AskInv(c)'
  <2>1. caller'[c].pc = loc /\ caller'[c].at = caller[c].at
    BY <1>0, <1>3, Moves
  <2>. QED  BY <1>2, <1>3, <2>1 DEF AskInv
<1>4. ASSUME caller' = NextPlugin(c), caller[c].pc \in {"ensure", "wait"},
             \A n \in Name : n # Plugin(c) => held'[c][n] = held[c][n]
      PROVE  AskInv(c)'
  <2>1. CASE caller'[c].pc = "ensure"
    <3>1. caller'[c].at = caller[c].at + 1
      BY <1>0, <1>4, <2>1, AdvancesTo
    <3>2. ASSUME NEW j \in (caller[c].at + 1)..Len(Wants[c])
          PROVE  held'[c][Wants[c][j]] = None
      <4>1. j \in 1..Len(Wants[c]) /\ j # caller[c].at /\ j \in caller[c].at..Len(Wants[c])
        BY <1>0
      <4>2. Wants[c][j] # Plugin(c) /\ Wants[c][j] \in Name
        BY <1>0, <4>1, Distinct DEF Plugin
      <4>. QED  BY <1>4, <4>1, <4>2 DEF AskInv
    <3>. QED  BY <2>1, <3>1, <3>2 DEF AskInv
  <2>2. CASE caller'[c].pc = "using"
    BY <1>2, <2>2
  <2>. QED  BY <1>0, <1>4, <2>1, <2>2, Advances
<1>5. CASE Begin(c)
  <2>1. caller[c].pc = "idle" /\ held' = held /\ caller'[c] = EnsureAt(1)
    BY <1>0, <1>5 DEF Begin
  <2>2. caller'[c].pc = "ensure" /\ caller'[c].at = 1
    BY <2>1 DEF EnsureAt
  <2>. QED  BY <1>1, <2>1, <2>2 DEF AskInv
<1>6. CASE LookUp(c)
  BY <1>3, <1>4, <1>6 DEF LookUp
<1>7. CASE CreateEntry(c)
  BY <1>3, <1>7 DEF CreateEntry
<1>8. CASE Validate(c)
  <2>1. /\ caller' = NextPlugin(c) /\ caller[c].pc = "wait"
        /\ held' = [held EXCEPT ![c][Plugin(c)] = caller[c].ptr]
    BY <1>8 DEF Validate
  <2>2. \A n \in Name : n # Plugin(c) => held'[c][n] = held[c][n]
    BY <1>0, <2>1
  <2>. QED  BY <1>4, <2>1, <2>2
<1>9. CASE WaitFails(c) \/ GiveUp(c)
  BY <1>3, <1>9 DEF WaitFails, GiveUp, Abandon
<1>10. CASE CallerTeardown(c) \/ Drop(c)
  <2>1. caller' = MoveTo(c, "release", None)
    BY <1>10 DEF CallerTeardown, Drop
  <2>. QED  BY <1>3, <2>1
<1>11. CASE Release(c) \/ Finish(c)
  <2>1. ReleaseLookUp(c)
    BY <1>11 DEF Release, Finish
  <2>2. CASE /\ Acquired(c) = {} /\ held' = held
             /\ caller' = [caller EXCEPT ![c] = [pc |-> "idle", at |-> 1, ptr |-> None]]
    <3>1. caller'[c].pc = "idle"
      BY <1>0, <2>2
    <3>2. \A n \in Name : held'[c][n] = None
      BY <2>2 DEF Acquired
    <3>. QED  BY <3>1, <3>2 DEF AskInv
  <2>3. ASSUME NEW e, caller' = MoveTo(c, "drop", e) \/ caller' = MoveTo(c, "release", e)
        PROVE  AskInv(c)'
    <3>1. PICK loc \in {"drop", "release"} : caller' = MoveTo(c, loc, e)
      BY <2>3
    <3>. QED  BY <1>3, <3>1
  <2>. QED  BY <2>1, <2>2, <2>3 DEF ReleaseLookUp
<1>12. CASE ~(Begin(c) \/ Request(c) \/ GiveUp(c) \/ Finish(c))
  BY <1>12, OthersStand DEF AskInv
<1>. QED  BY <1>5, <1>6, <1>7, <1>8, <1>9, <1>10, <1>11, <1>12 DEF Request

\* References come and go with a request only.
LEMMA RefsStep ==
  ASSUME IInv, [Next]_vars, NEW f \in Entry,
         \A c \in Caller : caller[c].ptr = f => ~Validate(c) /\ ~Drop(c)
  PROVE  entry'[f].refs = entry[f].refs
<1>0. TypeOK /\ {"evictor", "pinger", "shutdown"} \subseteq Worker
  BY DEF IInv, Worker, background
<1>. USE Nothings
<1>1. ASSUME entry' = entry PROVE entry'[f].refs = entry[f].refs
  BY <1>1
<1>2. ASSUME NEW e \in Entry, OnlyEntry(e), e = f => entry'[e].refs = entry[e].refs
      PROVE  entry'[f].refs = entry[f].refs
  BY <1>2 DEF OnlyEntry
<1>3. ASSUME NEW c \in Caller, Begin(c) \/ Request(c) \/ GiveUp(c) \/ Finish(c)
      PROVE  entry'[f].refs = entry[f].refs
  <2>1. CASE Begin(c) \/ LookUp(c) \/ WaitFails(c) \/ GiveUp(c) \/ Finish(c) \/ Release(c)
    BY <1>1, <2>1 DEF Begin, LookUp, WaitFails, GiveUp, Abandon, Finish, Release, ReleaseLookUp
  <2>2. CASE Validate(c) \/ Drop(c) \/ CallerTeardown(c)
    <3>1. caller[c].ptr \in Entry /\ c \in Worker
      BY <2>2 DEF IInv, WorkerInv, CallerInv, Validate, Drop, CallerTeardown, Worker
    <3>2. CASE Validate(c)
      BY <1>0, <1>2, <3>1, <3>2, ValidateEffect
    <3>3. CASE Drop(c)
      BY <1>0, <1>2, <3>1, <3>3, DropEffect
    <3>4. CASE CallerTeardown(c)
      BY <1>0, <1>2, <3>1, <3>4, TeardownEffect DEF CallerTeardown
    <3>. QED  BY <2>2, <3>2, <3>3, <3>4
  <2>3. CASE CreateEntry(c)
    <3>1. PICK e : e = Cardinality(Pending) + 1
      OBVIOUS
    <3>. QED  BY <1>0, <1>2, <2>3, <3>1, CreateEffect
  <2>. QED  BY <1>3, <2>1, <2>2, <2>3 DEF Request
<1>4. ASSUME NEW e \in Entry, Spawn(e) PROVE entry'[f].refs = entry[f].refs
  <2>1. CASE Fetch(e) \/ GetProviders(e)
    BY <1>0, <1>1, <1>2, <2>1, StateEffect DEF Fetch, GetProviders
  <2>2. CASE RegisterProvider(e)
    BY <1>1, <2>2 DEF RegisterProvider
  <2>3. CASE Publish(e) \/ Close(e)
    BY <1>0, <1>2, <2>3, PublishEffect, CloseEffect
  <2>. QED  BY <1>4, <2>1, <2>2, <2>3 DEF Spawn
<1>5. ASSUME NEW w \in Worker, Teardown(w) PROVE entry'[f].refs = entry[f].refs
  BY <1>1, <1>5 DEF Teardown, Unregister, Kill
<1>6. CASE Background
  <2>1. pinged # None => pinged \in Entry
    BY <1>0 DEF TypeOK, EntryOrNone
  <2>2. ASSUME NEW e \in Entry, PassTimeout(e) PROVE entry'[f].refs = entry[f].refs
    BY <1>0, <1>2, <2>2, IdleEffect
  <2>3. CASE Evict \/ (\E n \in Pinged : Ping(n)) \/ CancelContext \/ ClosePool
    BY <1>1, <2>3 DEF Evict, Ping, CancelContext, ClosePool
  <2>4. CASE EvictorTeardown
    <3>1. PICK e \in Entry : TeardownEntry("evictor", e)
      BY <1>0, <2>4 DEF EvictorTeardown, TypeOK
    <3>. QED  BY <1>0, <1>2, <3>1, TeardownEffect
  <2>5. CASE PingTeardown
    BY <1>0, <1>2, <2>1, <2>5, TeardownEffect DEF PingTeardown
  <2>6. CASE Pong
    BY <1>0, <1>1, <1>2, <2>1, <2>6, StateEffect DEF Pong
  <2>7. CASE ShutdownTeardown
    <3>1. PICK e \in Entry :
            /\ entry' = [entry EXCEPT ![e].providers = {}, ![e].client = FALSE]
            /\ teardown' = [teardown EXCEPT !["shutdown"] =
                           [unregister |-> entry[e].providers,
                            kill |-> IF entry[e].client THEN e ELSE None]]
      BY <1>0, <2>7 DEF ShutdownTeardown, TypeOK
    <3>. QED  BY <1>0, <1>2, <3>1, ShutdownEffect
  <2>. QED  BY <1>6, <2>2, <2>3, <2>4, <2>5, <2>6, <2>7 DEF Background
<1>7. CASE UNCHANGED vars
  BY <1>1, <1>7 DEF vars
<1>. QED  BY <1>3, <1>4, <1>5, <1>6, <1>7, NextCases

LEMMA ReachingFinite ==
  ASSUME NEW n, NEW e
  PROVE  /\ IsFiniteSet(Reaching(n, e)) /\ Cardinality(Reaching(n, e)) \in Nat
         /\ Reaching(n, e) \subseteq Caller
<1>1. Reaching(n, e) \in SUBSET Caller /\ IsFiniteSet(Caller)
  BY PoolAssumption DEF Reaching
<1>2. IsFiniteSet(Reaching(n, e))
  BY <1>1, FS_Subset
<1>. QED  BY <1>1, <1>2, FS_CardinalityType

\* A release reaches the entry afterwards if it did, but for the one that has.
LEMMA ReachingKept ==
  ASSUME IInv, \A c \in Caller : AskInv(c), [Next]_vars,
         NEW n \in Mapped, NEW e \in Entry, e = entries[n], NEW c \in Reaching(n, e),
         ~(Drop(c) /\ caller[c].ptr = e)
  PROVE  c \in Reaching(n, e)'
<1>0. /\ TypeOK /\ held \in [Caller -> [Name -> EntryOrNone]] /\ c \in Caller /\ n \in Name
      /\ Plugin(c) \in Name /\ DOMAIN caller = Caller
  BY CallerTypes DEF IInv, TypeOK, Reaching, Mapped
<1>1. CASE ~(Begin(c) \/ Request(c) \/ GiveUp(c) \/ Finish(c))
  BY <1>0, <1>1, OthersStand DEF Reaching
<1>2. CASE held[c][n] = e /\ held' = held
  BY <1>0, <1>2 DEF Reaching
<1>3. CASE Begin(c) \/ LookUp(c) \/ CreateEntry(c) \/ WaitFails(c) \/ GiveUp(c) \/ CallerTeardown(c)
  <2>1. held' = held /\ caller[c].pc # "drop"
    BY <1>3 DEF Begin, LookUp, CreateEntry, WaitFails, GiveUp, Abandon, CallerTeardown
  <2>. QED  BY <1>2, <2>1 DEF Reaching
<1>4. CASE Validate(c)
  <2>1. /\ held' = [held EXCEPT ![c][Plugin(c)] = caller[c].ptr]
        /\ caller[c].pc = "wait"
    BY <1>4 DEF Validate
  <2>2. held[c][n] = e
    BY <2>1 DEF Reaching
  <2>3. held[c][Plugin(c)] = None
    BY <1>0, <2>1, CallerTypes DEF AskInv, Plugin
  <2>4. n # Plugin(c)
    BY <2>2, <2>3, Nothings
  <2>5. held'[c][n] = e
    BY <1>0, <2>1, <2>2, <2>4
  <2>. QED  BY <1>0, <2>5 DEF Reaching
<1>5. CASE Drop(c)
  <2>1. held' = held /\ caller[c].ptr # e
    BY <1>5 DEF Drop
  <2>. QED  BY <1>2, <2>1 DEF Reaching
<1>6. CASE Release(c) \/ Finish(c)
  <2>1. ReleaseLookUp(c) /\ held[c][n] = e /\ e # None
    BY <1>6, Nothings DEF Release, Finish, Reaching
  <2>2. PICK m \in Acquired(c) :
          /\ held' = [held EXCEPT ![c][m] = None]
          /\ caller' = IF m \in Mapped THEN MoveTo(c, "drop", entries[m])
                       ELSE MoveTo(c, "release", None)
    BY <1>0, <2>1 DEF ReleaseLookUp, Acquired
  <2>3. CASE m = n
    <3>1. caller' = MoveTo(c, "drop", e)
      BY <2>2, <2>3
    <3>2. caller[c] \in CallerRecord(c) /\ DOMAIN caller = Caller
      BY <1>0 DEF TypeOK
    <3>3. caller'[c].pc = "drop" /\ caller'[c].ptr = e
      BY <1>0, <3>1, <3>2 DEF MoveTo, CallerRecord
    <3>. QED  BY <1>0, <3>3 DEF Reaching
  <2>4. CASE m # n
    <3>1. held'[c][n] = e
      BY <1>0, <2>1, <2>2, <2>4
    <3>. QED  BY <1>0, <3>1 DEF Reaching
  <2>. QED  BY <2>3, <2>4
<1>. QED  BY <1>1, <1>3, <1>4, <1>5, <1>6 DEF Request

LEMMA OwedStep ==
  ASSUME IInv, DeferInv, [Next]_vars, NEW n \in Mapped', NEW e \in Entry, e = entries'[n]
  PROVE  entry'[e].refs <= Cardinality(Reaching(n, e)')
<1>. DEFINE R == Reaching(n, e)
            Q == Reaching(n, e)'
<1>0. /\ TypeOK /\ EntryInv(e) /\ entry[e].refs \in Int /\ n \in Name
      /\ entries \in [Name -> EntryOrNone]
  BY EntryTypes DEF IInv, Mapped, TypeOK
<1>1. IsFiniteSet(R) /\ Cardinality(R) \in Nat /\ R \subseteq Caller
  BY ReachingFinite
<1>2. IsFiniteSet(Q) /\ Cardinality(Q) \in Nat /\ Q \subseteq Caller
  <2>1. Q \in SUBSET Caller /\ IsFiniteSet(Caller)
    BY PoolAssumption DEF Reaching
  <2>. HIDE DEF Q
  <2>2. IsFiniteSet(Q)
    BY <2>1, FS_Subset
  <2>. QED  BY <2>1, <2>2, FS_CardinalityType
<1>3. ASSUME NEW S, S \subseteq Q PROVE Cardinality(S) <= Cardinality(Q)
  <2>. HIDE DEF Q
  <2>. QED  BY <1>2, <1>3, FS_Subset
<1>4. CASE entries[n] # e
  <2>1. PICK c \in Caller : CreateEntry(c)
    BY <1>0, <1>4, MapShrinks, Nothings
  <2>2. PICK f : f = Cardinality(Pending) + 1
    OBVIOUS
  <2>3. f \in Entry /\ entries' = [entries EXCEPT ![Plugin(c)] = f]
    BY <2>1, <2>2 DEF CreateEntry
  <2>4. f = e
    BY <1>0, <1>4, <2>3
  <2>5. ~Used(e) /\ entry'[e].refs = entry[e].refs
    BY <1>0, <2>1, <2>2, <2>3, <2>4, FreshEntry, CreateEffect
  <2>6. entry[e].refs <= 0
    BY <1>0, <2>5 DEF EntryInv, Used, Finished
  <2>. HIDE DEF Q
  <2>. QED  BY <1>0, <1>2, <2>5, <2>6 DEF Q
<1>5. CASE entries[n] = e
  <2>0. n \in Mapped /\ entry[e].refs <= Cardinality(R) /\ entry[e].dep = n
    BY <1>0, <1>5, Nothings DEF Mapped, DeferInv, OwedInv, IInv, MapInv
  <2>1. ASSUME NEW c \in R, ~(Drop(c) /\ caller[c].ptr = e) PROVE c \in Q
    BY <1>5, <2>0, <2>1, ReachingKept DEF DeferInv
  <2>2. CASE \A c \in Caller : caller[c].ptr = e => ~Validate(c) /\ ~Drop(c)
    <3>1. R \subseteq Q
      BY <1>1, <2>1, <2>2
    <3>2. entry'[e].refs = entry[e].refs
      BY <2>2, RefsStep
    <3>3. Cardinality(R) <= Cardinality(Q)
      BY <1>3, <3>1
    <3>. HIDE DEF R, Q
    <3>. QED  BY <1>0, <1>1, <1>2, <2>0, <3>2, <3>3 DEF Q
  <2>3. ASSUME NEW c \in Caller, Validate(c), caller[c].ptr = e
        PROVE  entry'[e].refs <= Cardinality(Q)
    <3>1. entry'[e].refs = entry[e].refs + 1
      BY <1>0, <2>3, ValidateEffect
    <3>2. caller[c].pc = "wait" /\ Plugin(c) = n
      BY <2>0, <2>3 DEF Validate, IInv, WorkerInv, CallerInv
    <3>3. c \notin R
      <4>1. held[c][n] = None
        BY <1>0, <3>2, CallerTypes DEF DeferInv, AskInv, Plugin
      <4>. QED  BY <3>2, <4>1, Nothings DEF Reaching
    <3>4. c \in Q
      <4>1. held' = [held EXCEPT ![c][n] = e]
        BY <2>3, <3>2 DEF Validate
      <4>2. held'[c][n] = e
        BY <1>0, <4>1 DEF TypeOK
      <4>. QED  BY <4>2 DEF Reaching
    <3>5. R \subseteq Q
      <4>1. ASSUME NEW d \in Caller, Drop(d), caller[d].ptr = e PROVE FALSE
        <5>1. entry'[e].refs = entry[e].refs - 1
          BY <1>0, <4>1, DropEffect
        <5>. QED  BY <1>0, <3>1, <5>1
      <4>. QED  BY <1>1, <2>1, <4>1
    <3>. HIDE DEF R, Q
    <3>6. Cardinality(R \cup {c}) = Cardinality(R) + 1
      BY <1>1, <3>3, FS_AddElement
    <3>7. Cardinality(R \cup {c}) <= Cardinality(Q)
      BY <1>3, <3>4, <3>5
    <3>. QED  BY <1>0, <1>1, <1>2, <2>0, <3>1, <3>6, <3>7
  <2>4. ASSUME NEW c \in Caller, Drop(c), caller[c].ptr = e
        PROVE  entry'[e].refs <= Cardinality(Q)
    <3>1. entry'[e].refs = entry[e].refs - 1
      BY <1>0, <2>4, DropEffect
    <3>2. c \in R
      BY <2>4 DEF Reaching, Drop
    <3>3. \A d \in R \ {c} : ~Drop(d)
      <4>1. ASSUME NEW d \in Caller \ {c}, Drop(d) PROVE FALSE
        <5>1. caller' = MoveTo(c, "release", None) /\ caller' = MoveTo(d, "release", None)
          BY <2>4, <4>1 DEF Drop
        <5>2. caller[c] \in CallerRecord(c) /\ DOMAIN caller = Caller
          BY <1>0 DEF TypeOK
        <5>3. caller'[c].pc = "release"
          BY <5>1, <5>2 DEF MoveTo, CallerRecord
        <5>4. caller'[c] = caller[c]
          BY <5>1, <5>2 DEF MoveTo
        <5>. QED  BY <2>4, <5>3, <5>4 DEF Drop
      <4>. QED  BY <1>1, <4>1
    <3>4. R \ {c} \subseteq Q
      BY <2>1, <3>3
    <3>. HIDE DEF R, Q
    <3>5. Cardinality(R \ {c}) = Cardinality(R) - 1
      BY <1>1, <3>2, FS_RemoveElement
    <3>6. Cardinality(R \ {c}) <= Cardinality(Q)
      BY <1>3, <3>4
    <3>. QED  BY <1>0, <1>1, <1>2, <2>0, <3>1, <3>5, <3>6
  <2>. QED  BY <2>2, <2>3, <2>4
<1>. QED  BY <1>4, <1>5

LEMMA DeferStep ==
  ASSUME IInv, IInv', DeferInv, [Next]_vars
  PROVE  DeferInv'
<1>1. \A n \in Mapped' : entries'[n] \in Entry
  BY DEF IInv, TypeOK, Mapped, EntryOrNone
<1>2. OwedInv'
  BY <1>1, OwedStep DEF OwedInv
<1>3. \A c \in Caller : AskInv(c)'
  BY AskStep DEF DeferInv
<1>. QED  BY <1>2, <1>3 DEF DeferInv

\* What the map drops while it is referenced is Shutdown's, or was displaced.
LEMMA DroppedFromMap ==
  ASSUME IInv, [Next]_vars, NEW n \in Mapped, NEW e \in Entry, e = entries[n], entries'[n] # e
  PROVE  \/ entry[e].refs = 0 /\ entry'[e].refs = entry[e].refs
         \/ e \in victims'["shutdown"]
         \/ \E c \in Caller : /\ caller[c].pc = "wait" /\ caller[c].ptr # e
                              /\ Plugin(c) = n /\ entries'[Plugin(c)] = None
<1>0. n \in Name /\ TypeOK /\ entries \in [Name -> EntryOrNone] /\ e # None
  BY Nothings DEF IInv, TypeOK, Mapped
<1>1. ASSUME NEW c \in Caller, WaitFails(c) \/ GiveUp(c)
      PROVE  \/ entry[e].refs = 0 /\ entry'[e].refs = entry[e].refs
             \/ caller[c].ptr # e /\ Plugin(c) = n /\ entries'[Plugin(c)] = None
  <2>1. Plugin(c) \in Name /\ entries' \in {entries, [entries EXCEPT ![Plugin(c)] = None]}
    BY <1>0, <1>1, CallerTypes DEF WaitFails, GiveUp, Abandon
  <2>2. Plugin(c) = n /\ entries'[Plugin(c)] = None
    BY <1>0, <2>1
  <2>3. CASE caller[c].ptr = e
    BY <1>0, <1>1, <2>3 DEF WaitFails, GiveUp, Abandon
  <2>. QED  BY <2>2, <2>3
<1>2. ASSUME NEW c \in Caller, Begin(c) \/ Request(c) \/ GiveUp(c) \/ Finish(c)
      PROVE  WaitFails(c) \/ GiveUp(c)
  <2>1. ~CreateEntry(c)
    BY <1>0 DEF CreateEntry
  <2>. QED  BY <1>2, <2>1 DEF Begin, Request, LookUp, Validate, CallerTeardown, Finish,
              Release, ReleaseLookUp, Drop
<1>3. CASE \E c \in Caller : Begin(c) \/ Request(c) \/ GiveUp(c) \/ Finish(c)
  <2>1. PICK c \in Caller : WaitFails(c) \/ GiveUp(c)
    BY <1>2, <1>3
  <2>. QED  BY <1>1, <2>1 DEF WaitFails, GiveUp
<1>4. CASE Evict
  BY <1>0, <1>4 DEF Evict, Evictable
<1>5. CASE ClosePool
  <2>1. victims' = [victims EXCEPT !["shutdown"] = {entries[m] : m \in Mapped}]
    BY <1>5 DEF ClosePool
  <2>. QED  BY <1>0, <2>1 DEF TypeOK
<1>6. CASE Background
  BY <1>4, <1>5, <1>6 DEF Background, PassTimeout, EvictorTeardown, Ping, Pong, PingTeardown,
     CancelContext, ShutdownTeardown
<1>7. CASE (\E w \in Worker : Teardown(w)) \/ (\E f \in Entry : Spawn(f)) \/ UNCHANGED vars
  BY <1>7 DEF Teardown, Unregister, Kill, Spawn, Fetch, GetProviders, RegisterProvider, Publish,
     Close, vars
<1>. QED  BY <1>3, <1>6, <1>7, NextCases

-----------------------------------------------------------------------------
(* The theorems. *)

\* The inductive invariant: where the goroutines are, what each entry and its
\* goroutine are in, who kills a client, who claims a provider and what the map
\* holds, in every state the pool can reach.
THEOREM Invariance == Spec => []IInv
<1>1. IInv /\ [Next]_vars => IInv'
  BY TypeStep, PendingStep, EntriesStep, KillStep, ClaimStep, WorkerStep, MapStep DEF IInv
<1>. QED  BY InitIInv, <1>1, PTL DEF Spec

\* No entry, client, provider or pointer is nil where the code would use it.
THEOREM TypeCorrect == Spec => []TypeOK
BY Invariance, IInvParts, PTL

\* A teardown removes the providers its entry registered, and no other plugin's:
\* an entry records what it registered itself (spawn, RegisterPluginProviders).
THEOREM OwnProvidersOnly == Spec => []RecordedIsOwn
<1>1. IInv => RecordedIsOwn
  BY DEF IInv, ClaimInv, RecordedIsOwn, Claims
<1>. QED  BY Invariance, <1>1, PTL

\* A wrapper around a killed process is about to leave the registry: the
\* providers of an entry are taken together with its client (teardownEntry).
THEOREM NoStaleWrapper == Spec => []KilledIsUnregistered
<1>1. ASSUME IInv, NEW p \in Provider, registry[p] \in Entry, process[registry[p]] = "killed"
      PROVE  \E w \in Worker : p \in teardown[w].unregister
  <2>1. PICK e \in Entry : e = registry[p]
    BY <1>1
  <2>2. EntryInv(e) /\ process[e] = "killed"
    BY <1>1, <2>1 DEF IInv
  <2>3. entry[e].providers = {} /\ spawner[e].registered = {}
    BY <2>2 DEF EntryInv
  <2>4. p \notin Claims(registry[p])
    BY <2>1, <2>3 DEF Claims
  <2>. QED  BY <1>1, <2>4 DEF IInv, ClaimInv
<1>2. IInv => KilledIsUnregistered
  BY <1>1 DEF KilledIsUnregistered
<1>. QED  BY Invariance, <1>2, PTL

\* What a request finds in the map and can use has its process, whatever the
\* eviction loop, Ping, Shutdown and other requests tear down meanwhile.
THEOREM MapServes == Spec => []MappedIsAlive
<1>1. ASSUME IInv, NEW n \in Mapped, NEW e, e = entries[n],
             entry[e].state = "ready" \/ entry[e].refs > 0
      PROVE  process[e] = "alive"
  <2>1. e \in Entry
    BY <1>1 DEF IInv, TypeOK, Mapped, EntryOrNone
  <2>2. entry[e].client
    BY <1>1 DEF IInv, MapInv, Serves
  <2>. QED  BY <1>1, <2>1, <2>2 DEF IInv, EntryInv
<1>2. IInv => MappedIsAlive
  BY <1>1 DEF MappedIsAlive
<1>. QED  BY Invariance, <1>2, PTL

\* One goroutine takes the client of an entry and kills it, whichever of the
\* requests, the eviction loop, Ping and Shutdown come to tear it down.
THEOREM OneKill == Spec => []KilledOnce
<1>1. IInv => KilledOnce
  BY DEF IInv, KillInv, KilledOnce
<1>. QED  BY Invariance, <1>1, PTL

\* What the map has is released as often as it is referenced, whoever waits,
\* gives up, drops or tears down meanwhile.
THEOREM Owed == Spec => [](IInv /\ DeferInv)
<1>1. Init => IInv /\ DeferInv
  <2>1. Init => DeferInv
    BY DEF Init, DeferInv, AskInv, OwedInv, Mapped
  <2>. QED  BY <2>1, InitIInv
<1>2. IInv /\ DeferInv /\ [Next]_vars => (IInv /\ DeferInv)'
  <2>1. IInv /\ [Next]_vars => IInv'
    BY TypeStep, PendingStep, EntriesStep, KillStep, ClaimStep, WorkerStep, MapStep DEF IInv
  <2>. QED  BY <2>1, DeferStep
<1>. QED  BY <1>1, <1>2, PTL DEF Spec

\* A kill that teardownEntry leaves to the last Release is carried out by it, or by
\* Shutdown, as long as the entry is in the map under its name.
THEOREM DeferredFinishes == Spec => DeferredIsFinished
<1>. DEFINE Finishes ==
              \A e \in Entry : Stranded(e)' =>
                \/ Stranded(e) \/ entries[entry[e].dep] # e
                \/ \E c \in Caller : /\ caller[c].pc = "wait" /\ caller[c].ptr # e
                                     /\ Plugin(c) = entry[e].dep /\ entries'[Plugin(c)] = None
<1>1. ASSUME IInv, DeferInv, IInv', DeferInv', [Next]_vars, NEW e \in Entry, Stranded(e)',
             entries[entry[e].dep] = e
      PROVE  \E c \in Caller : /\ caller[c].pc = "wait" /\ caller[c].ptr # e
                              /\ Plugin(c) = entry[e].dep /\ entries'[Plugin(c)] = None
  <2>1. /\ entry'[e].pendingKill /\ e \notin victims'["shutdown"]
        /\ entry'[e].refs \notin 1..Cardinality(Owing(e)')
    BY <1>1 DEF Stranded
  <2>2. EntryInv(e)' /\ entry'[e].refs \in Int /\ EntryInv(e)
    BY <1>1, EntryTypes DEF IInv, TypeOK, EntryRecord
  <2>3. entry'[e].refs > 0 /\ Finished(e)'
    BY <2>1, <2>2 DEF EntryInv
  <2>4. PICK n \in Name : n = entry[e].dep /\ n = entry'[e].dep
    <3>1. CASE Used(e)
      BY <1>1, <2>2, <3>1, UsedKept DEF EntryInv
    <3>2. CASE ~Used(e)
      <4>1. PICK c \in Caller : CreateEntry(c)
        BY <1>1, <2>3, <3>2, Settled DEF Finished, Used
      <4>2. PICK f : f = Cardinality(Pending) + 1
        OBVIOUS
      <4>3. OnlyEntry(f) /\ entry'[f].state = "starting" /\ f \in Entry
        BY <1>1, <4>1, <4>2, CreateEffect DEF IInv
      <4>4. f # e
        BY <2>3, <4>3 DEF Finished
      <4>. QED  BY <2>3, <3>2, <4>3, <4>4 DEF Finished, Used, OnlyEntry
    <3>. QED  BY <3>1, <3>2
  <2>5. n \in Mapped /\ entries[n] = e
    BY <1>1, <2>4, Nothings DEF Mapped
  <2>6. entries'[n] # e
    <3>1. ASSUME entries'[n] = e PROVE FALSE
      <4>1. n \in Mapped'
        BY <3>1, Nothings DEF Mapped
      <4>2. Owing(e)' = Reaching(n, e)'
        BY <2>4, <3>1 DEF Owing, Reaching
      <4>3. entry'[e].refs <= Cardinality(Reaching(n, e)')
        BY <1>1, <3>1, <4>1 DEF DeferInv, OwedInv
      <4>. QED  BY <2>1, <2>2, <2>3, <4>2, <4>3
    <3>. QED  BY <3>1
  <2>7. ~(entry[e].refs = 0 /\ entry'[e].refs = entry[e].refs)
    BY <2>3
  <2>. QED  BY <1>1, <2>1, <2>4, <2>5, <2>6, <2>7, DroppedFromMap
<1>2. IInv /\ DeferInv /\ (IInv /\ DeferInv)' /\ [Next]_vars => [Finishes]_vars
  BY <1>1
<1>. QED  BY <1>2, Owed, PTL DEF Spec, DeferredIsFinished

===============================================================================
