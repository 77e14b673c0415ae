---------------------------- MODULE RunStateProofs ----------------------------
(***************************************************************************)
(* Proofs about RunState for any number of runs, documents, targets and     *)
(* values: types, ParametersSucceeded, ActionsAgree, and LocksAreKept, of   *)
(* the document that runs load and of its copies.                           *)
(***************************************************************************)
EXTENDS RunState, WellFoundedInduction, TLAPS

RunRecord ==
  [pc : {"idle", "loaded", "checkpoint", "acting", "saving", "done"}, data : Doc,
   param : Param \cup {None}, kind : {"plain", "persist", "immutable"},
   value : Value \cup {None}, validation : Validation, off : BOOLEAN, blind : BOOLEAN,
   todo : SUBSET Nat, wrote : SUBSET Place]

TypeInv == TypeOK /\ run \in [Run -> RunRecord]

\* What a run has in memory has a parameter that was accepted before.
ParamInv ==
  /\ ParametersSucceeded
  /\ None \in accepted
  /\ \A r \in Run : run[r].data.param \in accepted

\* A run that overlaps no write of another has the lock of the loaded document.
LockInv ==
  config.load # None =>
    \A r \in Active \ overlap :
      Locked(doc[config.load]) => run[r].data.entry = doc[config.load].entry

\* The loaded document has a lock on the value.
Has(v) == Locked(doc[config.load]) /\ doc[config.load].entry.value = v

\* The immutable value of a run that all later runs must agree with.
Binds(x) == IF x.kind = "immutable" /\ x.validation = "passed" THEN x.value ELSE None

\* The run's lock is in the loaded document, or its checkpoint has still to write it.
Secured(x) ==
  /\ x.data.entry = [value |-> Binds(x), immutable |-> TRUE]
  /\ \/ Has(Binds(x))
     \/ x.pc = "checkpoint" /\ \E i \in x.todo : config.save[i].place = config.load

AgreeInv ==
  Checkpointed /\ overlap = {} =>
    \A r \in Run :
      /\ acted[r] # None /\ acted[r].validation = "passed" => Has(acted[r].value)
      /\ run[r].pc \in {"checkpoint", "acting"} /\ Binds(run[r]) # None => Secured(run[r])

\* A run past VerifyImmutables does not differ from the lock it has in memory.
VerifiedInv ==
  \A r \in Run : run[r].pc \in {"checkpoint", "acting"} => ~Differs(run[r])

Inv == TypeInv /\ ParamInv /\ LockInv /\ AgreeInv /\ VerifiedInv

\* The part of LocksAreKept about the document that runs load: a run that overlaps
\* no write of another leaves its lock in place, unless the target is lean.
LoadedLocksAreKept ==
  [][config.load # None /\ Locked(doc[config.load])
       /\ doc'[config.load].entry # doc[config.load].entry =>
     \E r \in Run :
       /\ run'[r] # run[r] /\ run[r].todo # {}
       /\ LET t == config.save[First(run[r].todo)] IN
          t.place = config.load /\ (r \in overlap \/ t.format = "intent")]_vars
-----------------------------------------------------------------------------
(* Operators *)

\* A run with targets to write has a first one.
LEMMA FirstIsIn ==
  ASSUME NEW T \in SUBSET Nat, T # {}
  PROVE  First(T) \in T
<1>1. PICK m \in T : \A k \in T : <<k, m>> \notin OpToRel(<, Nat)
  BY WFMin, NatLessThanWellFounded, Zenon
<1>2. \A k \in T : ~ (k < m)
  BY <1>1, Zenon DEF OpToRel
<1>3. \A k \in T : m <= k
  BY <1>2
<1>. QED
  BY <1>3 DEF First

\* PersistResolvers gives an entry or none, and never replaces a lock.
LEMMA PersistedKeeps ==
  ASSUME NEW x \in RunRecord
  PROVE  /\ Persisted(x) \in Entry \cup {None}
         /\ Locked(x.data) => Persisted(x) = x.data.entry
BY DEF Persisted, Succeeded, RunRecord, Doc, Entry, Locked

\* Where nothing differs from its lock, PersistResolvers leaves what actions see
\* locked.
LEMMA PersistedSecures ==
  ASSUME NEW x \in RunRecord, ~Differs(x), Binds(x) # None
  PROVE  Persisted(x) = [value |-> Binds(x), immutable |-> TRUE]
<1>. /\ x.kind = "immutable" /\ x.validation = "passed"
    /\ x.value # None /\ Succeeded(x) /\ Binds(x) = x.value
  BY DEF Binds, Succeeded
<1>1. CASE Locked(x.data)
  <2>1. x.data.entry \in Entry /\ x.data.entry.immutable /\ x.data.entry.value = x.value
    BY <1>1, RunStateAssumption DEF Locked, Differs, RunRecord, Doc
  <2>. QED  BY <1>1, <2>1 DEF Persisted, Entry
<1>2. CASE ~Locked(x.data)
  BY <1>2 DEF Persisted
<1>. QED  BY <1>1, <1>2

\* The documents and records that the operators make.
LEMMA LoadedType ==
  ASSUME TypeInv
  PROVE  Loaded \in Doc
BY RunStateAssumption DEF TypeInv, TypeOK, Loaded, NewData, Doc

\* The record of a run that has not begun or has ended.
LEMMA OffType ==
  ASSUME NEW pc0 \in {"idle", "loaded", "saving", "done"}
  PROVE  /\ Off(pc0) \in RunRecord
         /\ Off(pc0).pc = pc0 /\ Off(pc0).todo = {} /\ Off(pc0).wrote = {}
         /\ Off(pc0).data = NewData
BY DEF Off, RunRecord, NewData, Doc, Validation

\* Targets are indices of the save list.
LEMMA TargetsType ==
  ASSUME TypeInv, NEW x, NEW b
  PROVE  /\ Targets(x, b) \subseteq DOMAIN config.save
         /\ Targets(x, b) \subseteq Nat
BY RunStateAssumption DEF TypeInv, TypeOK, Targets

\* Checkpoint and Save, of the record of a run.
LEMMA CheckpointIs ==
  ASSUME TypeInv, NEW x \in RunRecord, x.pc = "loaded", x.todo = {}
  PROVE  /\ Checkpoint(x) \in RunRecord
         /\ Checkpoint(x).todo \subseteq DOMAIN config.save
         /\ Checkpoint(x).wrote = x.wrote /\ Checkpoint(x).blind = x.blind
         /\ Checkpoint(x).data.param = x.data.param
         /\ Checkpoint(x).data.entry \in {x.data.entry, Persisted(x)}
         /\ Binds(Checkpoint(x)) = Binds(x)
         /\ \/ /\ Targets(x, TRUE) = {} /\ Checkpoint(x).pc = "acting"
               /\ Checkpoint(x).todo = {}
            \/ /\ Targets(x, TRUE) # {} /\ Checkpoint(x).pc = "checkpoint"
               /\ Checkpoint(x).todo = Targets(x, TRUE)
               /\ Checkpoint(x).data.entry = Persisted(x)
<1>1. Persisted(x) \in Entry \cup {None}
  BY PersistedKeeps
<1>2. CheckpointData(x) \in Doc /\ CheckpointData(x).param = x.data.param
        /\ CheckpointData(x).entry = Persisted(x)
  BY <1>1 DEF CheckpointData, RunRecord, Doc
<1>3. CASE Targets(x, TRUE) = {}
  BY <1>3 DEF Checkpoint, RunRecord, Binds
<1>4. CASE Targets(x, TRUE) # {}
  BY <1>2, <1>4, TargetsType DEF Checkpoint, RunRecord, Binds
<1>. QED  BY <1>3, <1>4

\* What does not differ from its lock does not differ from the checkpoint's entry.
LEMMA CheckpointAgrees ==
  ASSUME NEW x \in RunRecord, ~Differs(x)
  PROVE  ~Differs(Checkpoint(x))
<1>. DEFINE y == Checkpoint(x)
<1>1. y.kind = x.kind /\ y.value = x.value /\ y.validation = x.validation
  BY DEF Checkpoint, RunRecord
<1>2. y.data = x.data \/ y.data = [x.data EXCEPT !.entry = Persisted(x)]
  BY DEF Checkpoint, CheckpointData, RunRecord
<1>. HIDE DEF y
<1>3. ASSUME y.data = x.data PROVE ~Differs(y)
  BY <1>1, <1>3 DEF Differs, Succeeded
<1>4. ASSUME y.data = [x.data EXCEPT !.entry = Persisted(x)] PROVE ~Differs(y)
  <2>1. y.data.entry = Persisted(x) /\ x.data.entry \in Entry \cup {None}
    BY <1>4 DEF RunRecord, Doc
  <2>2. CASE Persisted(x) = x.data.entry
    <3>1. Locked(y.data) => Locked(x.data)
      BY <2>1, <2>2, RunStateAssumption DEF Locked, RunRecord
    <3>. QED  BY <1>1, <2>1, <2>2, <3>1 DEF Differs, Succeeded
  <2>3. CASE Persisted(x) # x.data.entry
    <3>1. Persisted(x).value = x.value
      BY <2>3 DEF Persisted
    <3>. QED  BY <1>1, <2>1, <3>1 DEF Differs
  <2>. QED  BY <2>2, <2>3
<1>. QED  BY <1>2, <1>3, <1>4 DEF y

\* Save, of the record of a run: it ends, or has every target to write.
LEMMA SaveIs ==
  ASSUME TypeInv, NEW x \in RunRecord
  PROVE  /\ Save(x) \in RunRecord
         /\ Save(x).todo \subseteq DOMAIN config.save
         /\ \/ Save(x) = Off("done") /\ Targets(x, FALSE) = {}
            \/ /\ Save(x).pc = "saving" /\ Save(x).todo # {}
               /\ Save(x).todo = Targets(x, FALSE)
               /\ Save(x).wrote = x.wrote /\ Save(x).blind = x.blind
               /\ Save(x).data.param = x.param
               /\ Save(x).data.entry = Persisted(x)
<1>1. Persisted(x) \in Entry \cup {None}
  BY PersistedKeeps
<1>. DEFINE d == [x.data EXCEPT !.param = x.param, !.entry = Persisted(x)]
            y == [Off("saving") EXCEPT !.todo = Targets(x, FALSE), !.wrote = x.wrote,
                                       !.blind = x.blind, !.data = d]
<1>2. d \in Doc /\ d.param = x.param /\ d.entry = Persisted(x)
  BY <1>1 DEF RunRecord, Doc
<1>. HIDE DEF d
<1>3. CASE Targets(x, FALSE) = {}
  BY <1>3, OffType DEF Save
<1>4. CASE Targets(x, FALSE) # {}
  <2>1. /\ y \in RunRecord /\ y.pc = "saving" /\ y.todo = Targets(x, FALSE)
        /\ y.wrote = x.wrote /\ y.blind = x.blind /\ y.data = d
    BY <1>2, OffType, TargetsType DEF RunRecord
  <2>2. Save(x) = y
    BY <1>4 DEF Save, d
  <2>. HIDE DEF y
  <2>. QED  BY <1>2, <1>4, <2>1, <2>2, TargetsType
<1>. QED  BY <1>3, <1>4

\* projectState keeps the parameter, and the entry in the full format only.
LEMMA ProjectIs ==
  ASSUME NEW d \in Doc, NEW format \in {"full", "intent"}
  PROVE  LET p == ProjectState(d, format) IN
         /\ p \in Doc /\ p.param = d.param
         /\ ~p.created => p.entry = None
         /\ p.entry = IF format = "full" THEN d.entry ELSE None
BY DEF ProjectState, NewData, Doc

-----------------------------------------------------------------------------
(* Actions, by what they do to the record of their run *)

\* A run that loads begins, with the loaded document in memory.
LEMMA LoadIs ==
  ASSUME TypeInv, NEW r \in Run, Load(r)
  PROVE  /\ r \notin Active
         /\ \E x \in RunRecord :
              /\ run' = [run EXCEPT ![r] = x]
              /\ x.pc = "loaded" /\ x.todo = {} /\ x.wrote = {} /\ x.data = Loaded
              /\ ~Loaded.created => x.blind
<1>0. Off("loaded") \in RunRecord /\ Off("loaded").pc = "loaded"
      /\ Off("loaded").todo = {} /\ Off("loaded").wrote = {}
  BY OffType
<1>1. PICK kind \in {"plain", "persist", "immutable"}, cli \in Given \cup {None} :
        /\ MissingLocks(Loaded, kind) => config.allow
        /\ run' = [run EXCEPT ![r] = [Off("loaded") EXCEPT
             !.data = Loaded, !.param = MergeParameters(Loaded.param, cli),
             !.kind = kind, !.blind = Blind(Loaded, kind)]]
  BY Zenon DEF Load
<1>2. Loaded \in Doc
  BY LoadedType
<1>3. MergeParameters(Loaded.param, cli) \in Param \cup {None}
  BY <1>2, RunStateAssumption DEF MergeParameters, Doc
<1>4. Blind(Loaded, kind) \in BOOLEAN
  BY <1>2, RunStateAssumption DEF Blind, Doc, TypeInv, TypeOK
<1>5. r \notin Active
  BY DEF Load, Active
<1>. DEFINE x == [Off("loaded") EXCEPT
              !.data = Loaded, !.param = MergeParameters(Loaded.param, cli),
              !.kind = kind, !.blind = Blind(Loaded, kind)]
<1>6. /\ x \in RunRecord
      /\ x.pc = "loaded" /\ x.todo = {} /\ x.wrote = {} /\ x.data = Loaded
      /\ x.blind = Blind(Loaded, kind)
  BY <1>0, <1>2, <1>3, <1>4 DEF RunRecord
<1>7. run' = [run EXCEPT ![r] = x]
  BY <1>1, Zenon
<1>8. ~Loaded.created => Blind(Loaded, kind)
  <2>1. config.load = None => Loaded.param = None
    BY DEF Loaded, NewData
  <2>2. ~Loaded.created => ~Locked(Loaded)
    BY RunStateAssumption DEF Loaded, NewData, Locked, TypeInv, TypeOK
  <2>. QED  BY <1>1, <2>1, <2>2 DEF Blind, MissingLocks
<1>9. ~Loaded.created => x.blind
  BY <1>6, <1>8
<1>. QED
  BY <1>5, <1>6, <1>7, <1>9, Zenon

\* A run that resolves ends, goes to its checkpoint with nothing that differs from a
\* lock, or goes to its last writes.
LEMMA ResolveIs ==
  ASSUME TypeInv, NEW r \in Run, Resolve(r)
  PROVE  /\ torn' \in {torn, torn \cup run[r].wrote}
         /\ \E x \in RunRecord :
              /\ x.pc = "loaded" /\ x.todo = {}
              /\ x.data = run[r].data /\ x.param = run[r].param
              /\ x.wrote = run[r].wrote /\ x.blind = run[r].blind
              /\ \/ /\ run' = [run EXCEPT ![r] = Off("done")] /\ accepted' = accepted
                    /\ torn' = torn \cup run[r].wrote
                 \/ /\ ~Differs(x)
                    /\ run' = [run EXCEPT ![r] = Checkpoint(x)] /\ accepted' = accepted
                 \/ run' = [run EXCEPT ![r] = Save(x)] /\ accepted' = accepted \cup {x.param}
<1>1. PICK v \in Value \cup {None}, validation \in Validation, off \in BOOLEAN,
           command \in {"solution", "resolver"} :
        LET x == [run[r] EXCEPT !.value = v, !.validation = validation, !.off = off] IN
        /\ x.kind = "plain" => v = None
        /\ validation # "passed" => x.kind = "immutable" /\ v # None /\ command = "solution"
        /\ off => \E i \in DOMAIN config.save : config.save[i].conditional
        /\ \/ Differs(x) /\ Stops(r) /\ UNCHANGED accepted
           \/ /\ ~Differs(x) /\ command = "solution"
              /\ run' = [run EXCEPT ![r] = Checkpoint(x)]
              /\ UNCHANGED <<accepted, torn>>
           \/ /\ ~Differs(x) /\ command = "resolver"
              /\ run' = [run EXCEPT ![r] = Save(x)]
              /\ accepted' = accepted \cup {x.param}
              /\ UNCHANGED torn
  BY Zenon DEF Resolve
<1>. DEFINE x == [run[r] EXCEPT !.value = v, !.validation = validation, !.off = off]
<1>2. run[r] \in RunRecord /\ run[r].pc = "loaded" /\ run[r].todo = {}
  BY DEF TypeInv, TypeOK, Resolve
<1>3. /\ x \in RunRecord /\ x.pc = "loaded" /\ x.todo = {} /\ x.value = v
      /\ x.data = run[r].data /\ x.param = run[r].param
      /\ x.wrote = run[r].wrote /\ x.blind = run[r].blind
  BY <1>2 DEF RunRecord
<1>. HIDE DEF x
<1>4. \/ /\ run' = [run EXCEPT ![r] = Off("done")] /\ accepted' = accepted
         /\ torn' = torn \cup run[r].wrote
      \/ /\ ~Differs(x)
         /\ run' = [run EXCEPT ![r] = Checkpoint(x)] /\ accepted' = accepted
      \/ run' = [run EXCEPT ![r] = Save(x)] /\ accepted' = accepted \cup {x.param}
  BY <1>1, <1>3 DEF x, Stops
<1>5. torn' \in {torn, torn \cup run[r].wrote}
  BY <1>1 DEF Stops
<1>. QED  BY <1>3, <1>4, <1>5

\* A run whose actions ran has shown them the immutable value, and ends or saves.
LEMMA ActIs ==
  ASSUME TypeInv, NEW r \in Run, Act(r)
  PROVE  /\ run[r] \in RunRecord /\ run[r].pc = "acting" /\ run[r].todo = {}
         /\ acted' = [acted EXCEPT ![r] = Sees(run[r])]
         /\ torn' \in {torn, torn \cup run[r].wrote}
         /\ \/ /\ run' = [run EXCEPT ![r] = Off("done")] /\ accepted' = accepted
               /\ torn' = torn \cup run[r].wrote
            \/ /\ run' = [run EXCEPT ![r] = Save(run[r])]
               /\ accepted' = accepted \cup {run[r].param}
BY DEF TypeInv, TypeOK, Act, Stops

\* A write of a target, after which the run writes on, acts or ends.
LEMMA WriteIs ==
  ASSUME TypeInv, NEW r \in Run, WriteTarget(r)
  PROVE  LET i == First(run[r].todo)
             t == config.save[i] IN
         /\ i \in run[r].todo /\ i \in DOMAIN config.save /\ t \in Target
         /\ r \in Active /\ run[r].todo # {} /\ run[r].data \in Doc
         /\ doc' = [doc EXCEPT ![t.place] = ProjectState(run[r].data, t.format)]
         /\ overlap' = overlap \cup (Active \ {r})
         /\ \E x \in RunRecord :
              /\ run' = [run EXCEPT ![r] = x]
              /\ \/ x = Off("done") /\ run[r].pc = "saving" /\ run[r].todo = {i}
                 \/ /\ x.data.param = run[r].data.param /\ x.data.entry = run[r].data.entry
                    /\ x.todo = run[r].todo \ {i} /\ Binds(x) = Binds(run[r])
                    /\ x.wrote = run[r].wrote \cup {t.place} /\ x.blind = run[r].blind
                    /\ \/ x.pc = run[r].pc /\ x.todo # {}
                       \/ x.pc = "acting" /\ run[r].pc = "checkpoint" /\ x.todo = {}
<1>. DEFINE x0 == run[r]
            i == First(x0.todo)
            t == config.save[i]
<1>1. x0 \in RunRecord /\ x0.todo # {} /\ x0.pc \in {"checkpoint", "saving"}
  BY DEF TypeInv, TypeOK, WriteTarget
<1>2. i \in x0.todo
  BY <1>1, FirstIsIn DEF RunRecord
<1>3. i \in DOMAIN config.save /\ t \in Target
  BY <1>2, RunStateAssumption DEF TypeInv, TypeOK
<1>4. r \in Active
  BY <1>1 DEF Active
<1>5. /\ doc' = [doc EXCEPT ![t.place] = ProjectState(x0.data, t.format)]
      /\ overlap' = overlap \cup (Active \ {r})
  BY DEF WriteTarget
<1>. DEFINE onward == [x0 EXCEPT !.todo = @ \ {i}, !.wrote = @ \cup {t.place},
                                 !.data.created = TRUE]
            acting == [x0 EXCEPT !.pc = "acting", !.todo = {}, !.wrote = @ \cup {t.place},
                                 !.data.created = TRUE]
<1>6. run' = [run EXCEPT ![r] = IF x0.todo # {i} THEN onward
                                ELSE IF x0.pc = "saving" THEN Off("done") ELSE acting]
  BY DEF WriteTarget
<1>7. /\ onward \in RunRecord /\ onward.pc = x0.pc /\ onward.todo = x0.todo \ {i}
      /\ onward.data.param = x0.data.param /\ onward.data.entry = x0.data.entry
      /\ Binds(onward) = Binds(x0)
      /\ onward.wrote = x0.wrote \cup {t.place} /\ onward.blind = x0.blind
  BY <1>1, <1>3 DEF RunRecord, Doc, Target, Binds
<1>8. /\ acting \in RunRecord /\ acting.pc = "acting" /\ acting.todo = {}
      /\ acting.data.param = x0.data.param /\ acting.data.entry = x0.data.entry
      /\ Binds(acting) = Binds(x0)
      /\ acting.wrote = x0.wrote \cup {t.place} /\ acting.blind = x0.blind
  BY <1>1, <1>3 DEF RunRecord, Doc, Target, Binds
<1>9. x0.data \in Doc
  BY <1>1 DEF RunRecord
<1>. HIDE DEF x0, onward, acting
<1>10. CASE x0.todo # {i}
  <2>1. run' = [run EXCEPT ![r] = onward] /\ onward.todo # {}
    BY <1>2, <1>6, <1>7, <1>10
  <2>. QED  BY <1>1, <1>2, <1>3, <1>4, <1>5, <1>7, <1>9, <2>1 DEF x0
<1>11. CASE x0.todo = {i} /\ x0.pc = "saving"
  <2>1. run' = [run EXCEPT ![r] = Off("done")]
    BY <1>6, <1>11
  <2>. QED  BY <1>1, <1>2, <1>3, <1>4, <1>5, <1>9, <1>11, <2>1, OffType DEF x0
<1>12. CASE x0.todo = {i} /\ x0.pc # "saving"
  <2>1. run' = [run EXCEPT ![r] = acting] /\ x0.pc = "checkpoint"
    BY <1>1, <1>6, <1>12
  <2>. QED  BY <1>1, <1>2, <1>3, <1>4, <1>5, <1>8, <1>9, <1>12, <2>1 DEF x0
<1>. QED  BY <1>10, <1>11, <1>12

\* A run that stops is over.
LEMMA StopIs ==
  ASSUME NEW r \in Run, Stop(r)
  PROVE  run' = [run EXCEPT ![r] = Off("done")] /\ torn' = torn \cup run[r].wrote
BY DEF Stop, Stops

\* What each action leaves alone.
LEMMA Frame ==
  ASSUME NEW r \in Run
  PROVE  /\ Load(r) => UNCHANGED <<config, doc, acted, accepted, torn>>
         /\ Load(r) => overlap' \in {overlap, overlap \cup {r}}
         /\ Resolve(r) => UNCHANGED <<config, doc, acted, overlap>>
         /\ Act(r) => UNCHANGED <<config, doc, overlap>>
         /\ WriteTarget(r) => UNCHANGED <<config, acted, accepted, torn>>
         /\ Stop(r) => UNCHANGED <<config, doc, acted, accepted, overlap>>
<1>1. /\ Load(r) => UNCHANGED <<config, doc, acted, accepted, torn>>
      /\ Load(r) => overlap' \in {overlap, overlap \cup {r}}
  BY DEF Load
<1>2. Resolve(r) => UNCHANGED <<config, doc, acted, overlap>>
  BY Zenon DEF Resolve
<1>3. Act(r) => UNCHANGED <<config, doc, overlap>>
  BY DEF Act
<1>4. WriteTarget(r) => UNCHANGED <<config, acted, accepted, torn>>
  BY DEF WriteTarget
<1>5. Stop(r) => UNCHANGED <<config, doc, acted, accepted, overlap>>
  BY DEF Stop
<1>. QED  BY <1>1, <1>2, <1>3, <1>4, <1>5

-----------------------------------------------------------------------------
(* Types *)

\* A record of a run that TypeInv allows.
RunOK(x) ==
  /\ x \in RunRecord
  /\ x.todo \subseteq DOMAIN config.save
  /\ x.todo # {} <=> x.pc \in {"checkpoint", "saving"}

\* The record of a run that has ended is good.
LEMMA OffOK == RunOK(Off("done"))
BY OffType DEF RunOK

\* So is that of a run that goes to its last writes,
LEMMA SaveOK ==
  ASSUME TypeInv, NEW x \in RunRecord
  PROVE  RunOK(Save(x))
BY SaveIs, OffOK DEF RunOK

\* and that of a run that goes to its checkpoint.
LEMMA CheckpointOK ==
  ASSUME TypeInv, NEW x \in RunRecord, x.pc = "loaded", x.todo = {}
  PROVE  RunOK(Checkpoint(x))
BY CheckpointIs DEF RunOK

\* A step that gives one run a good record, and keeps the rest typed, keeps TypeInv.
LEMMA RunStep ==
  ASSUME TypeInv, config' = config, NEW r \in Run, NEW x, RunOK(x),
         run' = [run EXCEPT ![r] = x],
         doc' \in [Place -> Doc \cup {None}],
         \A p \in Place : doc'[p] # None /\ ~doc'[p].created => doc'[p].entry = None,
         acted' \in [Run -> Seen \cup {None}], accepted' \subseteq Param \cup {None},
         overlap' \subseteq Run, torn' \subseteq Place
  PROVE  TypeInv'
<1>1. run' \in [Run -> RunRecord]
  BY DEF TypeInv, RunOK
<1>2. ASSUME NEW q \in Run
      PROVE  /\ run'[q].pc \in {"idle", "loaded", "checkpoint", "acting", "saving", "done"}
             /\ run'[q].data \in Doc
             /\ run'[q].param \in Param \cup {None}
             /\ run'[q].value \in Value \cup {None}
             /\ run'[q].wrote \subseteq Place
  BY <1>1 DEF RunRecord
<1>3. ASSUME NEW q \in Run
      PROVE  /\ run'[q].todo \subseteq DOMAIN config'.save
             /\ run'[q].todo # {} <=> run'[q].pc \in {"checkpoint", "saving"}
  <2>1. CASE q = r
    BY <2>1 DEF RunOK, TypeInv
  <2>2. CASE q # r
    BY <2>2 DEF TypeInv, TypeOK
  <2>. QED  BY <2>1, <2>2
<1>4. config' \in Config
  BY DEF TypeInv, TypeOK
<1>. QED  BY <1>1, <1>2, <1>3, <1>4 DEF TypeInv, TypeOK

\* Every step keeps the types.
LEMMA TypeStep == TypeInv /\ [Next]_vars => TypeInv'
<1>. SUFFICES ASSUME TypeInv, [Next]_vars PROVE TypeInv'
  OBVIOUS
<1>. USE DEF TypeInv
<1>1. CASE UNCHANGED vars
  BY <1>1 DEF vars, TypeOK
<1>2. ASSUME NEW r \in Run, Load(r) PROVE TypeInv'
  <2>1. PICK x \in RunRecord :
          run' = [run EXCEPT ![r] = x] /\ x.pc = "loaded" /\ x.todo = {}
    BY <1>2, LoadIs
  <2>2. RunOK(x)
    BY <2>1 DEF RunOK
  <2>. HIDE DEF TypeInv
  <2>3. /\ doc \in [Place -> Doc \cup {None}] /\ acted \in [Run -> Seen \cup {None}]
        /\ \A p \in Place : doc[p] # None /\ ~doc[p].created => doc[p].entry = None
        /\ accepted \subseteq Param \cup {None} /\ overlap \subseteq Run /\ torn \subseteq Place
    BY DEF TypeInv, TypeOK
  <2>. QED  BY <1>2, <2>1, <2>2, <2>3, RunStep, Frame
<1>3. ASSUME NEW r \in Run, Resolve(r) PROVE TypeInv'
  <2>. HIDE DEF TypeInv
  <2>1. /\ doc \in [Place -> Doc \cup {None}] /\ acted \in [Run -> Seen \cup {None}]
        /\ \A p \in Place : doc[p] # None /\ ~doc[p].created => doc[p].entry = None
        /\ accepted \subseteq Param \cup {None} /\ overlap \subseteq Run
    BY DEF TypeInv, TypeOK
  <2>2. torn' \subseteq Place
    <3>1. torn' \in {torn, torn \cup run[r].wrote}
      BY <1>3, ResolveIs
    <3>. QED  BY <3>1 DEF TypeInv, TypeOK
  <2>3. PICK x \in RunRecord :
          /\ x.pc = "loaded" /\ x.todo = {}
          /\ \/ run' = [run EXCEPT ![r] = Off("done")] /\ accepted' = accepted
             \/ run' = [run EXCEPT ![r] = Checkpoint(x)] /\ accepted' = accepted
             \/ run' = [run EXCEPT ![r] = Save(x)] /\ accepted' = accepted \cup {x.param}
    BY <1>3, ResolveIs
  <2>4. RunOK(Off("done")) /\ RunOK(Checkpoint(x)) /\ RunOK(Save(x))
    BY <2>3, OffOK, CheckpointOK, SaveOK
  <2>5. accepted' \subseteq Param \cup {None}
    BY <2>1, <2>3 DEF RunRecord
  <2>. QED  BY <1>3, <2>1, <2>2, <2>3, <2>4, <2>5, RunStep, Frame
<1>4. ASSUME NEW r \in Run, Act(r) PROVE TypeInv'
  <2>. HIDE DEF TypeInv
  <2>1. /\ doc \in [Place -> Doc \cup {None}] /\ acted \in [Run -> Seen \cup {None}]
        /\ \A p \in Place : doc[p] # None /\ ~doc[p].created => doc[p].entry = None
        /\ accepted \subseteq Param \cup {None} /\ overlap \subseteq Run
    BY DEF TypeInv, TypeOK
  <2>2. torn' \subseteq Place
    <3>1. torn' \in {torn, torn \cup run[r].wrote}
      BY <1>4, Zenon DEF Act, Stops
    <3>. QED  BY <3>1 DEF TypeInv, TypeOK
  <2>3. /\ run[r] \in RunRecord /\ acted' = [acted EXCEPT ![r] = Sees(run[r])]
        /\ \/ run' = [run EXCEPT ![r] = Off("done")] /\ accepted' = accepted
           \/ run' = [run EXCEPT ![r] = Save(run[r])] /\ accepted' = accepted \cup {run[r].param}
    BY <1>4, ActIs
  <2>4. RunOK(Off("done")) /\ RunOK(Save(run[r]))
    BY <2>3, OffOK, SaveOK
  <2>5. accepted' \subseteq Param \cup {None} /\ acted' \in [Run -> Seen \cup {None}]
    BY <2>1, <2>3 DEF RunRecord, Sees, Seen
  <2>. QED  BY <1>4, <2>1, <2>2, <2>3, <2>4, <2>5, RunStep, Frame
<1>5. ASSUME NEW r \in Run, WriteTarget(r) PROVE TypeInv'
  <2>. HIDE DEF TypeInv
  <2>. DEFINE i == First(run[r].todo)
              t == config.save[i]
              p0 == ProjectState(run[r].data, t.format)
  <2>1. /\ doc \in [Place -> Doc \cup {None}] /\ acted \in [Run -> Seen \cup {None}]
        /\ \A p \in Place : doc[p] # None /\ ~doc[p].created => doc[p].entry = None
        /\ accepted \subseteq Param \cup {None} /\ overlap \subseteq Run /\ torn \subseteq Place
        /\ run[r].todo \subseteq DOMAIN config.save
    BY DEF TypeInv, TypeOK
  <2>2. /\ t \in Target /\ run[r].data \in Doc
        /\ doc' = [doc EXCEPT ![t.place] = p0]
        /\ overlap' = overlap \cup (Active \ {r})
        /\ i \in run[r].todo
    BY <1>5, WriteIs
  <2>3. PICK x \in RunRecord :
          /\ run' = [run EXCEPT ![r] = x]
          /\ \/ x = Off("done")
             \/ /\ x.todo = run[r].todo \ {i}
                /\ \/ x.pc = run[r].pc /\ x.todo # {}
                   \/ x.pc = "acting" /\ x.todo = {}
    BY <1>5, WriteIs
  <2>4. RunOK(x)
    <3>1. run[r].pc \in {"checkpoint", "saving"}
      BY <1>5 DEF WriteTarget
    <3>. QED  BY <2>1, <2>3, <3>1, OffOK DEF RunOK
  <2>5. p0 \in Doc /\ (~p0.created => p0.entry = None)
    BY <2>2, ProjectIs DEF Target
  <2>. HIDE DEF p0
  <2>6. /\ doc' \in [Place -> Doc \cup {None}]
        /\ \A p \in Place : doc'[p] # None /\ ~doc'[p].created => doc'[p].entry = None
    BY <2>1, <2>2, <2>5 DEF Target
  <2>7. overlap' \subseteq Run
    BY <2>1, <2>2 DEF Active
  <2>. QED  BY <1>5, <2>1, <2>3, <2>4, <2>6, <2>7, RunStep, Frame
<1>6. ASSUME NEW r \in Run, Stop(r) PROVE TypeInv'
  <2>. HIDE DEF TypeInv
  <2>1. torn' = torn \cup run[r].wrote
    BY <1>6 DEF Stop, Stops
  <2>2. /\ doc \in [Place -> Doc \cup {None}] /\ acted \in [Run -> Seen \cup {None}]
        /\ \A p \in Place : doc[p] # None /\ ~doc[p].created => doc[p].entry = None
        /\ accepted \subseteq Param \cup {None} /\ overlap \subseteq Run /\ torn' \subseteq Place
    BY <2>1 DEF TypeInv, TypeOK
  <2>. QED  BY <1>6, <2>2, OffOK, StopIs, RunStep, Frame
<1>. QED
  BY <1>1, <1>2, <1>3, <1>4, <1>5, <1>6 DEF Next

-----------------------------------------------------------------------------
(* Parameters *)

\* Every step leaves only accepted parameters, in documents and in memory.
LEMMA ParamStep == TypeInv /\ ParamInv /\ [Next]_vars => ParamInv'
<1>. SUFFICES ASSUME TypeInv, ParamInv, [Next]_vars PROVE ParamInv'
  OBVIOUS
<1>. DEFINE Good(d) == \A p \in Place : d[p] # None => d[p].param \in accepted
<1>0. /\ Good(doc) /\ None \in accepted /\ NewData.param = None
      /\ \A q \in Run : run[q].data.param \in accepted
  BY DEF ParamInv, ParametersSucceeded, NewData
<1>1. CASE UNCHANGED vars
  BY <1>1 DEF vars, ParamInv, ParametersSucceeded
<1>2. ASSUME NEW r \in Run, NEW x \in RunRecord, run' = [run EXCEPT ![r] = x],
             accepted \subseteq accepted', x.data.param \in accepted', doc' = doc
      PROVE  ParamInv'
  <2>1. run' \in [Run -> RunRecord]
    BY <1>2 DEF TypeInv
  <2>2. \A q \in Run : run'[q].data.param \in accepted'
    BY <1>0, <1>2 DEF TypeInv
  <2>. QED  BY <1>0, <1>2, <2>2 DEF ParamInv, ParametersSucceeded
<1>3. ASSUME NEW x \in RunRecord
      PROVE  /\ Off("done") \in RunRecord /\ Off("done").data.param = None
             /\ Save(x) \in RunRecord /\ Save(x).data.param \in {None, x.param}
  BY <1>0, OffType, SaveIs
<1>4. ASSUME NEW r \in Run, Load(r) PROVE ParamInv'
  <2>1. Loaded.param \in accepted
    BY <1>0, RunStateAssumption DEF Loaded, TypeInv, TypeOK
  <2>2. PICK x \in RunRecord : run' = [run EXCEPT ![r] = x] /\ x.data = Loaded
    BY <1>4, LoadIs
  <2>. QED  BY <1>2, <1>4, <2>1, <2>2, Frame
<1>5. ASSUME NEW r \in Run, Resolve(r) PROVE ParamInv'
  <2>1. PICK x \in RunRecord :
          /\ x.pc = "loaded" /\ x.todo = {} /\ x.data = run[r].data
          /\ \/ run' = [run EXCEPT ![r] = Off("done")] /\ accepted' = accepted
             \/ run' = [run EXCEPT ![r] = Checkpoint(x)] /\ accepted' = accepted
             \/ run' = [run EXCEPT ![r] = Save(x)] /\ accepted' = accepted \cup {x.param}
    BY <1>5, ResolveIs
  <2>2. Checkpoint(x) \in RunRecord /\ Checkpoint(x).data.param = run[r].data.param
    BY <2>1, CheckpointIs
  <2>. QED  BY <1>0, <1>2, <1>3, <1>5, <2>1, <2>2, Frame
<1>6. ASSUME NEW r \in Run, Act(r) PROVE ParamInv'
  <2>1. /\ run[r] \in RunRecord
        /\ \/ run' = [run EXCEPT ![r] = Off("done")] /\ accepted' = accepted
           \/ /\ run' = [run EXCEPT ![r] = Save(run[r])]
              /\ accepted' = accepted \cup {run[r].param}
    BY <1>6, ActIs
  <2>. QED  BY <1>0, <1>2, <1>3, <1>6, <2>1, Frame
<1>7. ASSUME NEW r \in Run, WriteTarget(r) PROVE ParamInv'
  <2>. DEFINE t == config.save[First(run[r].todo)]
  <2>1. /\ t \in Target /\ run[r].data \in Doc
        /\ doc' = [doc EXCEPT ![t.place] = ProjectState(run[r].data, t.format)]
    BY <1>7, WriteIs
  <2>2. ProjectState(run[r].data, t.format).param = run[r].data.param
    BY <2>1, ProjectIs DEF Target
  <2>3. PICK x \in RunRecord :
          /\ run' = [run EXCEPT ![r] = x]
          /\ x = Off("done") \/ x.data.param = run[r].data.param
    BY <1>7, WriteIs
  <2>4. accepted' = accepted
    BY <1>7, Frame
  <2>5. \A q \in Run : run'[q].data.param \in accepted
    BY <1>0, <1>3, <2>3 DEF TypeInv
  <2>6. Good(doc')
    BY <1>0, <2>1, <2>2 DEF TypeInv, TypeOK, Target
  <2>. QED  BY <1>0, <2>4, <2>5, <2>6 DEF ParamInv, ParametersSucceeded
<1>8. ASSUME NEW r \in Run, Stop(r) PROVE ParamInv'
  BY <1>0, <1>2, <1>3, <1>8, StopIs, OffType, Frame
<1>. QED
  BY <1>1, <1>4, <1>5, <1>6, <1>7, <1>8 DEF Next

-----------------------------------------------------------------------------
(* Locks *)

\* Resolve, Act and Stop of a run: it ends, or goes on with what it has written, what
\* it was blind to and a lock it had in memory.  A run that ends writes nothing more,
\* and one that saves has every unconditional target to write.
LEMMA WorkIs ==
  ASSUME TypeInv, NEW r \in Run, Resolve(r) \/ Act(r) \/ Stop(r)
  PROVE  /\ r \in Active /\ torn' \in {torn, torn \cup run[r].wrote}
         /\ \E x \in RunRecord :
              /\ run' = [run EXCEPT ![r] = x]
              /\ \/ /\ x = Off("done")
                    /\ \/ torn' = torn \cup run[r].wrote
                       \/ ~\E i \in DOMAIN config.save : ~config.save[i].conditional
                 \/ /\ x.pc \in {"checkpoint", "acting", "saving"}
                    /\ x.wrote = run[r].wrote /\ x.blind = run[r].blind
                    /\ Locked(run[r].data) => x.data.entry = run[r].data.entry
                    /\ x.pc = "saving" => \A i \in DOMAIN config.save :
                         ~config.save[i].conditional => i \in x.todo
<1>. DEFINE Ends(x) == /\ x = Off("done")
                       /\ \/ torn' = torn \cup run[r].wrote
                          \/ ~\E i \in DOMAIN config.save : ~config.save[i].conditional
            Goes(x) == /\ x.pc \in {"checkpoint", "acting", "saving"}
                       /\ x.wrote = run[r].wrote /\ x.blind = run[r].blind
                       /\ Locked(run[r].data) => x.data.entry = run[r].data.entry
                       /\ x.pc = "saving" => \A i \in DOMAIN config.save :
                            ~config.save[i].conditional => i \in x.todo
<1>0. Off("done") \in RunRecord
  BY OffType
<1>1. ASSUME NEW x \in RunRecord, x.data = run[r].data, x.wrote = run[r].wrote,
             x.blind = run[r].blind
      PROVE  Save(x) \in RunRecord /\ (Ends(Save(x)) \/ Goes(Save(x)))
  <2>1. Locked(run[r].data) => Persisted(x) = run[r].data.entry
    BY <1>1, PersistedKeeps
  <2>2. \A i \in DOMAIN config.save : ~config.save[i].conditional => i \in Targets(x, FALSE)
    BY DEF Targets
  <2>. QED
    <3>1. /\ Save(x) \in RunRecord
          /\ \/ Save(x) = Off("done") /\ Targets(x, FALSE) = {}
             \/ /\ Save(x).pc = "saving" /\ Save(x).todo = Targets(x, FALSE)
                /\ Save(x).wrote = x.wrote /\ Save(x).blind = x.blind
                /\ Save(x).data.entry = Persisted(x)
      BY <1>1, SaveIs
    <3>2. Targets(x, FALSE) = {} => ~\E i \in DOMAIN config.save : ~config.save[i].conditional
      BY <2>2
    <3>. QED  BY <1>1, <2>1, <2>2, <3>1, <3>2
<1>. HIDE DEF Ends, Goes
<1>2. ASSUME NEW x \in RunRecord, run' = [run EXCEPT ![r] = x], Ends(x) \/ Goes(x),
             r \in Active, torn' \in {torn, torn \cup run[r].wrote}
      PROVE  /\ r \in Active /\ torn' \in {torn, torn \cup run[r].wrote}
             /\ \E y \in RunRecord : run' = [run EXCEPT ![r] = y] /\ (Ends(y) \/ Goes(y))
  BY <1>2
<1>3. CASE Resolve(r)
  <2>1. PICK x \in RunRecord :
          /\ x.pc = "loaded" /\ x.todo = {} /\ x.data = run[r].data
          /\ x.wrote = run[r].wrote /\ x.blind = run[r].blind
          /\ \/ /\ run' = [run EXCEPT ![r] = Off("done")]
                /\ torn' = torn \cup run[r].wrote
             \/ run' = [run EXCEPT ![r] = Checkpoint(x)]
             \/ run' = [run EXCEPT ![r] = Save(x)]
    BY <1>3, ResolveIs
  <2>2. torn' \in {torn, torn \cup run[r].wrote}
    BY <1>3, ResolveIs
  <2>3. r \in Active
    BY <1>3 DEF Resolve, Active
  <2>4. Checkpoint(x) \in RunRecord /\ Goes(Checkpoint(x))
    <3>1. Locked(run[r].data) => Persisted(x) = run[r].data.entry
      BY <2>1, PersistedKeeps
    <3>. QED  BY <2>1, <3>1, CheckpointIs DEF Goes
  <2>5. torn' = torn \cup run[r].wrote => Ends(Off("done"))
    BY DEF Ends
  <2>6. Save(x) \in RunRecord /\ (Ends(Save(x)) \/ Goes(Save(x)))
    BY <1>1, <2>1
  <2>7. PICK y \in RunRecord : run' = [run EXCEPT ![r] = y] /\ (Ends(y) \/ Goes(y))
    BY <1>0, <2>1, <2>4, <2>5, <2>6, Zenon
  <2>. QED  BY <2>2, <2>3, <2>7, Zenon DEF Ends, Goes
<1>4. CASE Act(r)
  <2>1. /\ run[r] \in RunRecord /\ torn' \in {torn, torn \cup run[r].wrote}
        /\ \/ /\ run' = [run EXCEPT ![r] = Off("done")]
              /\ torn' = torn \cup run[r].wrote
           \/ run' = [run EXCEPT ![r] = Save(run[r])]
    BY <1>4, ActIs
  <2>2. r \in Active
    BY <1>4 DEF Act, Active
  <2>3. torn' = torn \cup run[r].wrote => Ends(Off("done"))
    BY DEF Ends
  <2>4. Save(run[r]) \in RunRecord /\ (Ends(Save(run[r])) \/ Goes(Save(run[r])))
    BY <1>1, <2>1
  <2>5. PICK y \in RunRecord : run' = [run EXCEPT ![r] = y] /\ (Ends(y) \/ Goes(y))
    BY <1>0, <2>1, <2>3, <2>4, Zenon
  <2>. QED  BY <2>1, <2>2, <2>5, Zenon DEF Ends, Goes
<1>5. CASE Stop(r)
  <2>1. run' = [run EXCEPT ![r] = Off("done")] /\ torn' = torn \cup run[r].wrote
    BY <1>5, StopIs
  <2>2. r \in Active
    BY <1>5 DEF Stop
  <2>3. Ends(Off("done"))
    BY <2>1 DEF Ends
  <2>. QED  BY <1>0, <2>1, <2>2, <2>3, Zenon DEF Ends, Goes
<1>. QED  BY <1>3, <1>4, <1>5

\* So such a run that had the lock and goes on leaves it in memory.
LEMMA MemoryKeeps ==
  ASSUME TypeInv, NEW r \in Run, Resolve(r) \/ Act(r) \/ Stop(r),
         Locked(run[r].data), run'[r].pc \notin {"idle", "done"}
  PROVE  run'[r].data.entry = run[r].data.entry
<1>1. PICK x : /\ run' = [run EXCEPT ![r] = x]
               /\ x = Off("done") \/ x.data.entry = run[r].data.entry
  BY WorkIs
<1>2. run'[r] = x /\ Off("done").pc = "done"
  BY <1>1, OffType DEF TypeInv
<1>. QED  BY <1>1, <1>2

\* A write of a run that overlaps no other keeps the lock of the loaded document,
\* unless its target is lean; a lock it leaves there is the one in its memory.
LEMMA WriteKeeps ==
  ASSUME TypeInv, LockInv, NEW r \in Run, WriteTarget(r), config.load # None
  PROVE  LET t == config.save[First(run[r].todo)] IN
         /\ t.place # config.load => doc'[config.load] = doc[config.load]
         /\ t.place = config.load /\ t.format = "full" =>
              doc'[config.load] # None /\ doc'[config.load].entry = run[r].data.entry
         /\ t.place = config.load /\ t.format # "full" => ~Locked(doc'[config.load])
         /\ Locked(doc[config.load]) /\ r \notin overlap =>
              run[r].data.entry = doc[config.load].entry
<1>. DEFINE t == config.save[First(run[r].todo)]
            p == ProjectState(run[r].data, t.format)
<1>1. /\ t \in Target /\ run[r].data \in Doc /\ r \in Active
      /\ doc' = [doc EXCEPT ![t.place] = p]
  BY WriteIs
<1>2. p \in Doc /\ p.entry = IF t.format = "full" THEN run[r].data.entry ELSE None
  BY <1>1, ProjectIs DEF Target
<1>3. doc \in [Place -> Doc \cup {None}] /\ config.load \in Place
  BY RunStateAssumption DEF TypeInv, TypeOK
<1>. HIDE DEF p
<1>4. t.place # config.load => doc'[config.load] = doc[config.load]
  BY <1>1, <1>3
<1>5. t.place = config.load => doc'[config.load] = p
  BY <1>1, <1>3
<1>6. p # None
  BY <1>2, RunStateAssumption
<1>. QED
  BY <1>1, <1>2, <1>4, <1>5, <1>6 DEF Locked, LockInv

\* Every step keeps the lock in the memory of runs that overlap no write.
LEMMA LockStep == TypeInv /\ LockInv /\ [Next]_vars => LockInv'
<1>. SUFFICES ASSUME TypeInv, LockInv, [Next]_vars, config'.load # None,
                     NEW q \in Run, q \in Active', q \notin overlap',
                     Locked(doc'[config'.load])
              PROVE  run'[q].data.entry = doc'[config'.load].entry
  BY DEF LockInv, Active
<1>0. run \in [Run -> RunRecord] /\ Off("done").pc = "done"
  BY OffType DEF TypeInv
<1>1. CASE UNCHANGED vars
  BY <1>1 DEF vars, LockInv, Active
<1>2. ASSUME NEW r \in Run, r # q, run' = [run EXCEPT ![r] = run'[r]],
             UNCHANGED <<config, doc>>, overlap \subseteq overlap'
      PROVE  run'[q].data.entry = doc'[config'.load].entry
  BY <1>0, <1>2 DEF LockInv, Active
<1>3. ASSUME NEW r \in Run, Load(r) PROVE run'[q].data.entry = doc'[config'.load].entry
  <2>1. PICK x \in RunRecord : run' = [run EXCEPT ![r] = x] /\ x.data = Loaded
    BY <1>3, LoadIs
  <2>2. UNCHANGED <<config, doc>> /\ overlap \subseteq overlap'
    BY <1>3, Frame
  <2>3. CASE r = q
    BY <1>0, <2>1, <2>2, <2>3 DEF Loaded, Locked
  <2>4. CASE r # q
    BY <1>0, <1>2, <2>1, <2>2, <2>4
  <2>. QED  BY <2>3, <2>4
<1>4. ASSUME NEW r \in Run, Resolve(r) \/ Act(r) \/ Stop(r)
      PROVE  run'[q].data.entry = doc'[config'.load].entry
  <2>1. \E x : run' = [run EXCEPT ![r] = x]
    BY <1>4, ResolveIs, ActIs, StopIs
  <2>2. UNCHANGED <<config, doc, overlap>>
    BY <1>4, Frame
  <2>3. CASE r # q
    BY <1>0, <1>2, <2>1, <2>2, <2>3
  <2>4. CASE r = q
    <3>1. q \in Active \ overlap
      <4>1. run[r].pc \notin {"idle", "done"}
        <5>1. run[r].pc \in {"loaded", "acting"} \/ r \in Active
          BY <1>4 DEF Resolve, Act, Stop
        <5>. QED  BY <5>1 DEF Active
      <4>. QED  BY <2>2, <2>4, <4>1 DEF Active
    <3>2. run[q].data.entry = doc[config.load].entry
      BY <2>2, <3>1 DEF LockInv
    <3>3. Locked(run[q].data)
      <4>1. run[q].data \in Doc /\ None \notin Doc
        BY <1>0, RunStateAssumption DEF RunRecord
      <4>. QED  BY <2>2, <3>2, <4>1 DEF Locked
    <3>4. run'[q].pc \notin {"idle", "done"}
      BY DEF Active
    <3>. QED  BY <1>4, <2>2, <2>4, <3>2, <3>3, <3>4, MemoryKeeps
  <2>. QED  BY <2>3, <2>4
<1>5. ASSUME NEW r \in Run, WriteTarget(r)
      PROVE  run'[q].data.entry = doc'[config'.load].entry
  <2>1. PICK x \in RunRecord :
          /\ run' = [run EXCEPT ![r] = x]
          /\ x = Off("done") \/ x.data.entry = run[r].data.entry
    BY <1>5, WriteIs
  <2>2. overlap' = overlap \cup (Active \ {r}) /\ r \in Active /\ config' = config
    BY <1>5, WriteIs, Frame
  <2>3. q = r /\ q \notin overlap
    BY <1>0, <2>1, <2>2 DEF Active
  <2>4. run'[q].data.entry = run[r].data.entry
    BY <1>0, <2>1, <2>3 DEF Active
  <2>. QED  BY <1>5, <2>2, <2>3, <2>4, WriteKeeps
<1>. QED
  BY <1>1, <1>3, <1>4, <1>5 DEF Next

-----------------------------------------------------------------------------
(* Agreement *)

\* Where the loaded document is a checkpoint target, there is such a document.
LEMMA CheckpointedLoads ==
  ASSUME TypeInv, Checkpointed
  PROVE  config.load # None
<1>1. PICK i \in DOMAIN config.save : config.save[i].place = config.load
  BY DEF Checkpointed
<1>2. config.save \in Seq(Target)
  BY RunStateAssumption DEF TypeInv, TypeOK
<1>3. config.save[i] \in Target
  BY <1>1, <1>2
<1>4. config.load \in Place \cup {None}
  BY RunStateAssumption DEF TypeInv, TypeOK
<1>5. config.load \in Place
  BY <1>1, <1>3 DEF Target
<1>. QED  BY <1>5, RunStateAssumption

\* With a checkpoint of the loaded document and no overlap, a step keeps the value
\* that is locked there.
LEMMA HasStep ==
  ASSUME TypeInv, LockInv, [Next]_vars, Checkpointed, overlap = {}, NEW v, Has(v)
  PROVE  Has(v)'
<1>1. CASE UNCHANGED vars
  BY <1>1 DEF vars, Has
<1>2. ASSUME NEW r \in Run, Load(r) \/ Resolve(r) \/ Act(r) \/ Stop(r) PROVE Has(v)'
  BY <1>2, Frame DEF Has
<1>3. ASSUME NEW r \in Run, WriteTarget(r) PROVE Has(v)'
  <2>. DEFINE t == config.save[First(run[r].todo)]
  <2>1. t \in Target /\ config' = config /\ First(run[r].todo) \in DOMAIN config.save
    BY <1>3, WriteIs, Frame
  <2>2. config.load # None
    BY CheckpointedLoads
  <2>3. CASE t.place # config.load
    BY <1>3, <2>1, <2>2, <2>3, WriteKeeps DEF Has
  <2>4. CASE t.place = config.load
    <3>1. t.format = "full"
      BY <2>1, <2>4 DEF Checkpointed
    <3>2. /\ doc'[config.load] # None
          /\ doc'[config.load].entry = doc[config.load].entry
      BY <1>3, <2>2, <2>4, <3>1, WriteKeeps DEF Has
    <3>. QED  BY <2>1, <3>2 DEF Has, Locked
  <2>. QED  BY <2>3, <2>4
<1>. QED
  BY <1>1, <1>2, <1>3 DEF Next

\* A run that resolved an immutable value has its lock to write to the loaded
\* document, where that document is a checkpoint.
LEMMA CheckpointSecures ==
  ASSUME TypeInv, Checkpointed, NEW x \in RunRecord, x.pc = "loaded", x.todo = {},
         ~Differs(x), Binds(Checkpoint(x)) # None
  PROVE  Secured(Checkpoint(x))
<1>1. Binds(Checkpoint(x)) = Binds(x) /\ Binds(x) # None
  BY CheckpointIs
<1>2. Persisted(x) = [value |-> Binds(x), immutable |-> TRUE]
  BY <1>1, PersistedSecures
<1>3. \E i \in Targets(x, TRUE) : config.save[i].place = config.load
  BY DEF Checkpointed, Targets
<1>4. /\ Checkpoint(x).pc = "checkpoint" /\ Checkpoint(x).todo = Targets(x, TRUE)
      /\ Checkpoint(x).data.entry = Persisted(x)
  BY <1>3, CheckpointIs
<1>. QED  BY <1>1, <1>2, <1>3, <1>4 DEF Secured

\* A run that writes a checkpoint goes on with its lock written or to be written.
LEMMA WriteSecures ==
  ASSUME TypeInv, LockInv, Checkpointed, overlap = {}, NEW r \in Run, WriteTarget(r),
         Binds(run[r]) # None => Secured(run[r]), run[r].pc = "checkpoint",
         run'[r].pc \in {"checkpoint", "acting"}, Binds(run'[r]) # None
  PROVE  Secured(run[r])' /\ Binds(run[r])' = Binds(run[r])
<1>. DEFINE i == First(run[r].todo)
            t == config.save[i]
            v == Binds(run[r])
<1>0. run \in [Run -> RunRecord] /\ Off("done").pc = "done"
  BY OffType DEF TypeInv
<1>1. PICK x \in RunRecord :
        /\ run' = [run EXCEPT ![r] = x]
        /\ \/ x = Off("done")
           \/ /\ x.data.entry = run[r].data.entry
              /\ x.todo = run[r].todo \ {i} /\ Binds(x) = v
              /\ \/ x.pc = run[r].pc /\ x.todo # {}
                 \/ x.pc = "acting" /\ x.todo = {}
  BY WriteIs, SMTT(20)
<1>2. run'[r] = x /\ x # Off("done")
  BY <1>0, <1>1
<1>3. Binds(x) = v /\ v # None /\ Secured(run[r]) /\ x.data.entry = run[r].data.entry
  BY <1>1, <1>2
<1>4. config' = config /\ config.load # None /\ i \in DOMAIN config.save
  BY WriteIs, Frame, CheckpointedLoads
<1>5. CASE Has(v)
  <2>1. [Next]_vars
    BY DEF Next
  <2>2. \A u : Has(u) => Has(u)'
    BY <2>1, HasStep
  <2>3. Locked(doc'[config'.load]) /\ doc'[config'.load].entry.value = v
    BY <1>5, <2>2 DEF Has
  <2>. QED  BY <1>2, <1>3, <2>3 DEF Secured, Binds, Has, Locked
<1>6. CASE t.place = config.load
  <2>1. t.format = "full"
    BY <1>4, <1>6 DEF Checkpointed
  <2>2. doc'[config.load] # None /\ doc'[config.load].entry = run[r].data.entry
    BY <1>4, <1>6, <2>1, WriteKeeps
  <2>3. run[r].data.entry = [value |-> v, immutable |-> TRUE]
    BY <1>3 DEF Secured
  <2>4. doc'[config.load].entry # None
    <3>1. v \in Value
      BY <1>0, <1>3 DEF RunRecord, Binds
    <3>2. [value |-> v, immutable |-> TRUE] \in Entry
      BY <3>1 DEF Entry
    <3>. QED  BY <2>2, <2>3, <3>2, RunStateAssumption
  <2>5. Locked(doc'[config'.load]) /\ doc'[config'.load].entry.value = v
    <3>1. doc'[config.load].entry.immutable /\ doc'[config.load].entry.value = v
      BY <2>2, <2>3
    <3>. QED  BY <1>4, <2>2, <2>4, <3>1 DEF Locked
  <2>6. run'[r].data.entry = [value |-> Binds(run'[r]), immutable |-> TRUE]
    BY <1>2, <1>3, <2>3
  <2>. QED  BY <1>2, <1>3, <2>5, <2>6 DEF Secured, Binds, Has, Locked
<1>7. CASE ~Has(v) /\ t.place # config.load
  <2>1. \E k \in run[r].todo : config.save[k].place = config.load
    BY <1>3, <1>7 DEF Secured
  <2>2. \E k \in x.todo : config.save[k].place = config.load
    BY <1>1, <1>2, <1>7, <2>1
  <2>3. x.pc = "checkpoint"
    BY <1>1, <1>2, <2>2
  <2>. QED  BY <1>2, <1>3, <1>4, <2>2, <2>3 DEF Secured, Binds
<1>. QED  BY <1>5, <1>6, <1>7

\* Every step keeps the agreement.
LEMMA AgreeStep == TypeInv /\ LockInv /\ AgreeInv /\ [Next]_vars => AgreeInv'
<1>. SUFFICES ASSUME TypeInv, LockInv, AgreeInv, [Next]_vars, Checkpointed', overlap' = {}
              PROVE  \A q \in Run :
                       /\ acted'[q] # None /\ acted'[q].validation = "passed" =>
                            Has(acted[q].value)'
                       /\ run'[q].pc \in {"checkpoint", "acting"} /\ Binds(run'[q]) # None =>
                            Secured(run[q])'
  BY DEF AgreeInv
<1>0. /\ run \in [Run -> RunRecord] /\ acted \in [Run -> Seen \cup {None}]
      /\ Off("done").pc = "done"
  BY OffType DEF TypeInv, TypeOK
<1>1. CASE UNCHANGED vars
  BY <1>1 DEF vars, AgreeInv, Checkpointed, Has, Locked, Secured, Binds
<1>. SUFFICES ASSUME NEW r \in Run,
                     Load(r) \/ Resolve(r) \/ Act(r) \/ WriteTarget(r) \/ Stop(r),
                     NEW q \in Run
              PROVE  /\ acted'[q] # None /\ acted'[q].validation = "passed" =>
                            Has(acted[q].value)'
                     /\ run'[q].pc \in {"checkpoint", "acting"} /\ Binds(run'[q]) # None =>
                          Secured(run[q])'
  BY <1>1 DEF Next
<1>2. config' = config /\ Checkpointed /\ overlap = {}
  <2>1. config' = config /\ overlap \subseteq overlap'
    BY Frame, WriteIs
  <2>. QED  BY <2>1 DEF Checkpointed
<1>3. /\ acted[q] # None /\ acted[q].validation = "passed" => Has(acted[q].value)
      /\ \A s \in Run : run[s].pc \in {"checkpoint", "acting"} /\ Binds(run[s]) # None =>
                          Secured(run[s])
  BY <1>2 DEF AgreeInv
<1>4. acted'[q] # None /\ acted'[q].validation = "passed" => Has(acted[q].value)'
  <2>1. CASE acted'[q] = acted[q]
    <3>. SUFFICES ASSUME acted'[q] # None, acted'[q].validation = "passed"
                  PROVE  Has(acted[q].value)'
      OBVIOUS
    <3>1. Has(acted[q].value)
      BY <1>3, <2>1
    <3>. QED  BY <1>2, <2>1, <3>1, HasStep DEF Has
  <2>2. CASE acted'[q] # acted[q]
    <3>1. Act(r)
      BY <2>2, Frame
    <3>2. q = r /\ acted'[q] = Sees(run[q]) /\ run[q].pc = "acting"
      BY <1>0, <2>2, <3>1, ActIs
    <3>. SUFFICES ASSUME acted'[q] # None, acted'[q].validation = "passed"
                  PROVE  Has(acted[q].value)'
      OBVIOUS
    <3>3. Binds(run[q]) = acted'[q].value /\ Binds(run[q]) # None
      BY <3>2 DEF Sees, Binds
    <3>4. Has(Binds(run[q]))
      BY <1>3, <3>2, <3>3 DEF Secured
    <3>. QED  BY <3>1, <3>3, <3>4, Frame DEF Has, Locked
  <2>. QED  BY <2>1, <2>2
<1>5. ASSUME run'[q].pc \in {"checkpoint", "acting"}, Binds(run'[q]) # None
      PROVE  Secured(run[q])'
  <2>1. CASE WriteTarget(r)
    <3>1. q = r
      <4>1. Active \subseteq {r}
        BY <2>1, WriteIs
      <4>2. \E x : run' = [run EXCEPT ![r] = x]
        BY <2>1, WriteIs
      <4>. QED  BY <1>0, <1>5, <4>1, <4>2 DEF Active
    <3>2. run[r].pc = "checkpoint"
      <4>1. PICK x : run' = [run EXCEPT ![r] = x]
                     /\ (x = Off("done") \/ x.pc = run[r].pc \/ run[r].pc = "checkpoint")
        BY <2>1, WriteIs
      <4>2. run[r].pc \in {"checkpoint", "saving"}
        BY <2>1 DEF WriteTarget
      <4>. QED  BY <1>0, <1>5, <3>1, <4>1, <4>2
    <3>. QED  BY <1>2, <1>3, <1>5, <2>1, <3>1, <3>2, WriteSecures
  <2>2. CASE ~WriteTarget(r) /\ q # r
    <3>1. doc' = doc /\ \E x : run' = [run EXCEPT ![r] = x]
      BY <2>2, Frame, LoadIs, ResolveIs, ActIs, StopIs
    <3>2. run'[q] = run[q]
      BY <1>0, <2>2, <3>1
    <3>3. Secured(run[q])
      BY <1>3, <1>5, <3>2
    <3>. QED  BY <1>2, <3>1, <3>2, <3>3 DEF Secured, Has, Locked, Binds
  <2>3. CASE ~WriteTarget(r) /\ q = r
    <3>1. Resolve(r)
      <4>1. CASE Load(r)
        <5>1. PICK x : run' = [run EXCEPT ![r] = x] /\ x.pc = "loaded"
          BY <4>1, LoadIs
        <5>. QED  BY <1>0, <1>5, <2>3, <5>1
      <4>2. CASE Act(r)
        <5>1. run' = [run EXCEPT ![r] = Off("done")] \/ run' = [run EXCEPT ![r] = Save(run[r])]
          BY <4>2, ActIs
        <5>2. Save(run[r]).pc \in {"done", "saving"}
          BY <1>0, SaveIs
        <5>. QED  BY <1>0, <1>5, <2>3, <5>1, <5>2
      <4>3. CASE Stop(r)
        BY <1>0, <1>5, <2>3, <4>3, StopIs
      <4>. QED  BY <2>3, <4>1, <4>2, <4>3
    <3>2. PICK x \in RunRecord :
            /\ x.pc = "loaded" /\ x.todo = {}
            /\ \/ run' = [run EXCEPT ![r] = Off("done")]
               \/ ~Differs(x) /\ run' = [run EXCEPT ![r] = Checkpoint(x)]
               \/ run' = [run EXCEPT ![r] = Save(x)]
      BY <3>1, ResolveIs
    <3>3. Save(x).pc \in {"done", "saving"}
      BY <1>0, SaveIs
    <3>4. ~Differs(x) /\ run'[q] = Checkpoint(x)
      BY <1>0, <1>5, <2>3, <3>2, <3>3
    <3>5. Secured(Checkpoint(x))
      BY <1>2, <1>5, <3>2, <3>4, CheckpointSecures
    <3>6. doc' = doc
      BY <3>1, Frame
    <3>. QED  BY <1>2, <3>4, <3>5, <3>6 DEF Secured, Has, Locked, Binds
  <2>. QED  BY <2>1, <2>2, <2>3
<1>. QED  BY <1>4, <1>5

\* Every step of a run that resolves compares with the lock, and no later step of it
\* gives it another.
LEMMA VerifiedStep == TypeInv /\ VerifiedInv /\ [Next]_vars => VerifiedInv'
<1>. SUFFICES ASSUME TypeInv, VerifiedInv, [Next]_vars, NEW q \in Run,
                     run'[q].pc \in {"checkpoint", "acting"}
              PROVE  ~Differs(run'[q])
  BY DEF VerifiedInv
<1>0. run \in [Run -> RunRecord] /\ Off("done").pc = "done"
  BY OffType DEF TypeInv
<1>1. CASE run'[q] = run[q]
  BY <1>1 DEF VerifiedInv
<1>. SUFFICES ASSUME NEW r \in Run,
                     Load(r) \/ Resolve(r) \/ Act(r) \/ WriteTarget(r) \/ Stop(r),
                     run'[q] # run[q]
              PROVE  ~Differs(run'[q])
  BY <1>1 DEF Next, vars
<1>2. q = r
  BY <1>0, LoadIs, ResolveIs, ActIs, WriteIs, StopIs
<1>3. CASE Load(r)
  BY <1>0, <1>2, <1>3, LoadIs
<1>4. CASE Resolve(r)
  <2>1. PICK x \in RunRecord :
          /\ x.pc = "loaded" /\ x.todo = {}
          /\ \/ run' = [run EXCEPT ![r] = Off("done")]
             \/ ~Differs(x) /\ run' = [run EXCEPT ![r] = Checkpoint(x)]
             \/ run' = [run EXCEPT ![r] = Save(x)]
    BY <1>4, ResolveIs
  <2>2. Save(x).pc \in {"done", "saving"}
    BY <1>0, SaveIs
  <2>3. ~Differs(x) /\ run'[q] = Checkpoint(x)
    BY <1>0, <1>2, <2>1, <2>2
  <2>. QED  BY <2>1, <2>3, CheckpointAgrees
<1>5. CASE Act(r)
  <2>1. run' = [run EXCEPT ![r] = Off("done")] \/ run' = [run EXCEPT ![r] = Save(run[r])]
    BY <1>5, ActIs
  <2>2. Save(run[r]).pc \in {"done", "saving"}
    BY <1>0, SaveIs
  <2>. QED  BY <1>0, <1>2, <2>1, <2>2
<1>6. CASE WriteTarget(r)
  <2>1. run'[q].data.entry = run[q].data.entry
          /\ run'[q].kind = run[q].kind /\ run'[q].value = run[q].value
          /\ run'[q].validation = run[q].validation
    BY <1>0, <1>2, <1>6 DEF WriteTarget, RunRecord, Doc
  <2>2. run[q].pc = "checkpoint"
    BY <1>0, <1>2, <1>6 DEF WriteTarget
  <2>3. ~Differs(run[q])
    BY <2>2 DEF VerifiedInv
  <2>4. Locked(run'[q].data) => Locked(run[q].data)
    BY <1>0, <2>1, RunStateAssumption DEF Locked, RunRecord
  <2>. QED  BY <2>1, <2>3, <2>4 DEF Differs, Succeeded
<1>7. CASE Stop(r)
  BY <1>0, <1>2, <1>7, StopIs
<1>. QED  BY <1>3, <1>4, <1>5, <1>6, <1>7

-----------------------------------------------------------------------------
(* Locks in copies *)

\* A run with no document to load is blind.
BlindInv == config.load = None => \A r \in Active : run[r].blind

\* The loaded document is lean and shows no trace of a lock.
Lost == LoadLean(config) /\ (doc[config.load] = None \/ ~doc[config.load].created)

\* The loaded document has the entry.
Known(e) == doc[config.load] # None /\ doc[config.load].entry = e

\* The run has the entry in memory, or loaded a document without trace of it.
Knows(x, e) == x.data.entry = e \/ (LoadLean(config) /\ x.blind)

\* Documents that no run left or has yet to complete the loaded one after.
Settled == Place \ (torn \cup (UNION {run[r].wrote : r \in Run}))

SettledAgree == \A p \in Settled : Locked(doc[p]) => Lost \/ Known(doc[p].entry)

\* A run knows the locks of what it has written and of what no stopped run has.
KnowsLocks(r) ==
  \A p \in (Place \ torn) \cup run[r].wrote : Locked(doc[p]) => Knows(run[r], doc[p].entry)

\* A run that writes its last targets has the loaded document among them, or has
\* written it.
WillSettle(x) ==
  x.pc = "saving" =>
    \/ \E i \in x.todo : config.save[i].place = config.load
    \/ IF LoadLean(config) THEN Lost ELSE Known(x.data.entry)

Copies ==
  /\ SettledAgree
  /\ \A r \in Active : KnowsLocks(r)
  /\ \A r \in Run : WillSettle(run[r])

\* What every save rewrites has the locks of all other documents, as long as no two
\* runs overlap.
CopyInv == config.load # None /\ Rewrites(config) /\ overlap = {} => Copies

\* A run stays as blind as it was when it loaded.
LEMMA BlindStep == TypeInv /\ BlindInv /\ [Next]_vars => BlindInv'
<1>. SUFFICES ASSUME TypeInv, BlindInv, [Next]_vars, config'.load = None,
                     NEW q \in Run, q \in Active'
              PROVE  run'[q].blind
  BY DEF BlindInv, Active
<1>0. run \in [Run -> RunRecord] /\ Off("done").pc = "done"
  BY OffType DEF TypeInv
<1>1. CASE UNCHANGED vars
  BY <1>1 DEF vars, BlindInv, Active
<1>2. ASSUME NEW r \in Run, NEW x, run' = [run EXCEPT ![r] = x], config' = config,
             x = Off("done") \/ x.blind \/ (r \in Active /\ x.blind = run[r].blind)
      PROVE  run'[q].blind
  BY <1>0, <1>2 DEF BlindInv, Active
<1>3. ASSUME NEW r \in Run, Load(r) PROVE run'[q].blind
  <2>1. PICK x \in RunRecord : run' = [run EXCEPT ![r] = x] /\ (~Loaded.created => x.blind)
    BY <1>3, LoadIs
  <2>2. config' = config
    BY <1>3, Frame
  <2>3. ~Loaded.created
    BY <2>2 DEF Loaded, NewData
  <2>. QED  BY <1>2, <2>1, <2>2, <2>3
<1>4. ASSUME NEW r \in Run, Resolve(r) \/ Act(r) \/ Stop(r) PROVE run'[q].blind
  <2>1. PICK x : /\ run' = [run EXCEPT ![r] = x]
                 /\ x = Off("done") \/ x.blind = run[r].blind
    BY <1>4, WorkIs
  <2>. QED  BY <1>2, <1>4, <2>1, WorkIs, Frame
<1>5. ASSUME NEW r \in Run, WriteTarget(r) PROVE run'[q].blind
  <2>1. PICK x : /\ run' = [run EXCEPT ![r] = x]
                 /\ x = Off("done") \/ x.blind = run[r].blind
    BY <1>5, WriteIs
  <2>. QED  BY <1>2, <1>5, <2>1, WriteIs, Frame
<1>. QED
  BY <1>1, <1>3, <1>4, <1>5 DEF Next

\* A run that loads when no other has begun to write knows the locks of all
\* documents that are settled.
LEMMA LoadCopies ==
  ASSUME TypeInv, Copies, config.load # None, NEW r \in Run, Load(r), overlap' = {}
  PROVE  Copies'
<1>1. PICK x \in RunRecord :
        /\ run' = [run EXCEPT ![r] = x]
        /\ x.pc = "loaded" /\ x.todo = {} /\ x.wrote = {} /\ x.data = Loaded
        /\ ~Loaded.created => x.blind
  BY LoadIs
<1>2. UNCHANGED <<config, doc, torn>>
  BY Frame
<1>3. \A q \in Run : run[q].wrote = {}
  BY DEF Load
<1>4. run \in [Run -> RunRecord] /\ run'[r] = x /\ \A q \in Run : q # r => run'[q] = run[q]
  BY <1>1 DEF TypeInv
<1>5. \A q \in Run : run'[q].wrote = {}
  BY <1>1, <1>3, <1>4
<1>6. Settled = Place \ torn
  BY <1>3 DEF Settled
<1>7. Settled' = Place \ torn
  BY <1>2, <1>5 DEF Settled
<1>8. Lost' = Lost /\ \A e : Known(e)' = Known(e)
  BY <1>2 DEF Lost, Known
<1>9. SettledAgree /\ (\A q \in Active : KnowsLocks(q)) /\ (\A q \in Run : WillSettle(run[q]))
  BY DEF Copies
<1>10. SettledAgree'
  <2>. SUFFICES ASSUME NEW p \in Place \ torn, Locked(doc[p])
                PROVE  Lost' \/ Known(doc[p].entry)'
    BY <1>2, <1>7 DEF SettledAgree
  <2>. QED  BY <1>2, <1>6, <1>8, <1>9 DEF SettledAgree, Known
<1>11. ASSUME NEW q \in Run, q \in Active' PROVE KnowsLocks(q)'
  <2>. SUFFICES ASSUME NEW p \in Place \ torn, Locked(doc[p])
                PROVE  run'[q].data.entry = doc[p].entry \/ (LoadLean(config) /\ run'[q].blind)
    BY <1>2, <1>5, <1>11 DEF KnowsLocks, Knows
  <2>1. CASE q = r
    <3>1. Lost \/ Known(doc[p].entry)
      BY <1>6, <1>9 DEF SettledAgree
    <3>2. CASE Lost
      <4>1. ~Loaded.created
        BY <3>2 DEF Lost, Loaded, NewData
      <4>. QED  BY <1>1, <1>4, <2>1, <3>2, <4>1 DEF Lost
    <3>3. CASE Known(doc[p].entry)
      BY <1>1, <1>4, <2>1, <3>3 DEF Known, Loaded
    <3>. QED  BY <3>1, <3>2, <3>3
  <2>2. CASE q # r
    <3>1. q \in Active /\ run'[q] = run[q]
      BY <1>4, <1>11, <2>2 DEF Active
    <3>. QED  BY <1>9, <3>1 DEF KnowsLocks, Knows
  <2>. QED  BY <2>1, <2>2
<1>12. ASSUME NEW q \in Run PROVE WillSettle(run[q])'
  <2>1. CASE q = r
    BY <1>1, <1>4, <2>1 DEF WillSettle
  <2>2. CASE q # r
    BY <1>2, <1>4, <1>8, <1>9, <2>2 DEF WillSettle, Known
  <2>. QED  BY <2>1, <2>2
<1>. QED
  BY <1>10, <1>11, <1>12 DEF Copies, Active

\* Work that writes nothing leaves what runs know, and to write, as it was; what a
\* run that ends has written is no longer settled.
LEMMA WorkCopies ==
  ASSUME TypeInv, Copies, config.load # None, Rewrites(config),
         NEW r \in Run, Resolve(r) \/ Act(r) \/ Stop(r)
  PROVE  Copies'
<1>1. torn' \in {torn, torn \cup run[r].wrote}
  BY WorkIs
<1>2. PICK x \in RunRecord :
        /\ run' = [run EXCEPT ![r] = x]
        /\ \/ /\ x = Off("done")
              /\ \/ torn' = torn \cup run[r].wrote
                 \/ ~\E i \in DOMAIN config.save : ~config.save[i].conditional
           \/ /\ x.pc \in {"checkpoint", "acting", "saving"}
              /\ x.wrote = run[r].wrote /\ x.blind = run[r].blind
              /\ Locked(run[r].data) => x.data.entry = run[r].data.entry
              /\ x.pc = "saving" => \A i \in DOMAIN config.save :
                   ~config.save[i].conditional => i \in x.todo
  BY WorkIs
<1>3. UNCHANGED <<config, doc>>
  BY Frame
<1>4. /\ run \in [Run -> RunRecord] /\ run'[r] = x
      /\ \A q \in Run : q # r => run'[q] = run[q]
  BY <1>2 DEF TypeInv
<1>5. PICK j \in DOMAIN config.save :
        config.save[j].place = config.load /\ ~config.save[j].conditional
  BY DEF Rewrites
<1>6. Off("done").pc = "done" /\ (x = Off("done") => torn' = torn \cup run[r].wrote)
  BY <1>2, <1>5, OffType
<1>7. Lost' = Lost /\ \A e : Known(e)' = Known(e)
  BY <1>3 DEF Lost, Known
<1>8. SettledAgree /\ (\A q \in Active : KnowsLocks(q)) /\ (\A q \in Run : WillSettle(run[q]))
  BY DEF Copies
<1>9. SettledAgree'
  <2>. SUFFICES ASSUME NEW p \in Settled', Locked(doc[p])
                PROVE  Lost' \/ Known(doc[p].entry)'
    BY <1>3 DEF SettledAgree, Known
  <2>1. p \in Place /\ p \notin torn' /\ \A q \in Run : p \notin run'[q].wrote
    BY DEF Settled
  <2>2. p \notin run[r].wrote
    BY <1>2, <1>4, <1>6, <2>1
  <2>3. \A q \in Run : p \notin run[q].wrote
    BY <1>4, <2>1, <2>2
  <2>4. p \in Settled
    BY <1>1, <2>1, <2>3 DEF Settled
  <2>5. Lost \/ Known(doc[p].entry)
    BY <1>8, <2>4 DEF SettledAgree
  <2>. QED  BY <1>3, <2>5 DEF Lost, Known
<1>10. ASSUME NEW q \in Run, q \in Active' PROVE KnowsLocks(q)'
  <2>. SUFFICES ASSUME NEW p \in (Place \ torn) \cup run'[q].wrote, Locked(doc[p])
                PROVE  run'[q].data.entry = doc[p].entry \/ (LoadLean(config) /\ run'[q].blind)
    BY <1>1, <1>3 DEF KnowsLocks, Knows
  <2>1. CASE q = r
    <3>1. x # Off("done")
      BY <1>4, <1>6, <1>10, <2>1 DEF Active
    <3>2. r \in Active /\ p \in (Place \ torn) \cup run[r].wrote
      BY <1>2, <1>4, <2>1, <3>1, WorkIs
    <3>3. Knows(run[r], doc[p].entry)
      BY <1>8, <3>2 DEF KnowsLocks
    <3>4. run[r].data.entry = doc[p].entry => Locked(run[r].data)
      BY <1>4, RunStateAssumption DEF Locked, RunRecord
    <3>. QED  BY <1>2, <1>4, <2>1, <3>1, <3>3, <3>4 DEF Knows
  <2>2. CASE q # r
    <3>1. q \in Active /\ run'[q] = run[q]
      BY <1>4, <1>10, <2>2 DEF Active
    <3>. QED  BY <1>8, <3>1 DEF KnowsLocks, Knows
  <2>. QED  BY <2>1, <2>2
<1>11. ASSUME NEW q \in Run PROVE WillSettle(run[q])'
  <2>1. CASE q = r /\ x = Off("done")
    BY <1>4, <1>6, <2>1 DEF WillSettle
  <2>2. CASE q = r /\ x # Off("done")
    <3>1. x.pc = "saving" => j \in x.todo
      BY <1>2, <1>5, <2>2
    <3>. QED  BY <1>3, <1>4, <1>5, <2>2, <3>1 DEF WillSettle
  <2>3. CASE q # r
    BY <1>3, <1>4, <1>7, <1>8, <2>3 DEF WillSettle, Known
  <2>. QED  BY <2>1, <2>2, <2>3
<1>. QED
  BY <1>9, <1>10, <1>11 DEF Copies, Active

\* A write of the only run there is.  It leaves its lock in its target, and the
\* loaded document comes to have what the run knows before the run is over.
LEMMA WriteCopies ==
  ASSUME TypeInv, Copies, config.load # None, Rewrites(config),
         NEW r \in Run, WriteTarget(r), overlap' = {}
  PROVE  Copies'
<1>. DEFINE i == First(run[r].todo)
            t == config.save[i]
            d == run[r].data
<1>1. /\ i \in run[r].todo /\ i \in DOMAIN config.save /\ t \in Target
      /\ r \in Active /\ d \in Doc
      /\ doc' = [doc EXCEPT ![t.place] = ProjectState(d, t.format)]
      /\ Active \subseteq {r}
  BY WriteIs
<1>2. PICK x \in RunRecord :
        /\ run' = [run EXCEPT ![r] = x]
        /\ \/ x = Off("done") /\ run[r].pc = "saving" /\ run[r].todo = {i}
           \/ /\ x.data.entry = d.entry /\ x.todo = run[r].todo \ {i}
              /\ x.wrote = run[r].wrote \cup {t.place} /\ x.blind = run[r].blind
              /\ x.pc = run[r].pc \/ x.pc = "acting"
  BY WriteIs
<1>3. UNCHANGED <<config, torn>>
  BY Frame
<1>4. /\ run \in [Run -> RunRecord] /\ run'[r] = x
      /\ \A q \in Run : q # r => run'[q] = run[q]
  BY <1>2 DEF TypeInv
<1>5. doc \in [Place -> Doc \cup {None}] /\ config.load \in Place
  BY RunStateAssumption DEF TypeInv, TypeOK
<1>6. /\ doc'[t.place] # None
      /\ doc'[t.place].entry = IF t.format = "full" THEN d.entry ELSE None
      /\ t.format # "full" => ~doc'[t.place].created
      /\ \A p \in Place : p # t.place => doc'[p] = doc[p]
  <2>1. doc'[t.place] = ProjectState(d, t.format)
    BY <1>1, <1>5 DEF Target
  <2>2. /\ ProjectState(d, t.format) \in Doc
        /\ ProjectState(d, t.format).entry = IF t.format = "full" THEN d.entry ELSE None
    BY <1>1, ProjectIs DEF Target
  <2>3. t.format # "full" => ~ProjectState(d, t.format).created
    BY DEF ProjectState, NewData
  <2>4. ProjectState(d, t.format) # None
    BY <2>2, RunStateAssumption
  <2>5. \A p \in Place : p # t.place => doc'[p] = doc[p]
    BY <1>1, <1>5
  <2>. QED  BY <2>1, <2>2, <2>3, <2>4, <2>5
<1>7. /\ SettledAgree /\ (\A q \in Run : WillSettle(run[q]))
      /\ KnowsLocks(r)
  BY <1>1 DEF Copies
<1>8. t.place \in Place /\ t.format \in {"full", "intent"}
  BY <1>1 DEF Target
<1>. DEFINE lost == LoadLean(config) /\ (doc'[config.load] = None \/ ~doc'[config.load].created)
            known(e) == doc'[config.load] # None /\ doc'[config.load].entry = e
            passed == IF LoadLean(config) THEN lost ELSE known(d.entry)
<1>9. Lost' = lost /\ \A e : Known(e)' = known(e)
  BY <1>3 DEF Lost, Known
<1>10. t.place # config.load => Lost = lost /\ \A e : Known(e) = known(e)
  BY <1>5, <1>6 DEF Lost, Known
<1>11. t.place = config.load => passed
  <2>. SUFFICES ASSUME t.place = config.load PROVE passed
    OBVIOUS
  <2>1. CASE LoadLean(config)
    <3>1. t.format = "intent"
      BY <1>1, <2>1 DEF LoadLean
    <3>. QED  BY <1>6, <2>1, <3>1
  <2>2. CASE ~LoadLean(config)
    <3>1. t.format = "full"
      BY <1>1, <2>2 DEF Rewrites, LoadFull
    <3>. QED  BY <1>6, <2>2, <3>1
  <2>. QED  BY <2>1, <2>2
<1>12. x = Off("done") => passed
  <2>. SUFFICES ASSUME x = Off("done"), t.place # config.load PROVE passed
    BY <1>11
  <2>1. run[r].pc = "saving" /\ run[r].todo = {i}
    BY <1>2, <1>4, OffType, WriteIs
  <2>2. IF LoadLean(config) THEN Lost ELSE Known(d.entry)
    BY <1>7, <2>1 DEF WillSettle
  <2>. QED  BY <1>10, <2>2
<1>13. ASSUME NEW p \in (Place \ torn) \cup run[r].wrote, Locked(doc[p]), passed
       PROVE  lost \/ known(doc[p].entry)
  BY <1>7, <1>13 DEF KnowsLocks, Knows
<1>14. ASSUME Locked(doc'[t.place]) PROVE doc'[t.place].entry = d.entry
  BY <1>6, <1>14 DEF Locked
<1>. HIDE DEF lost, known, passed
<1>15. SettledAgree'
  <2>. SUFFICES ASSUME NEW p \in Settled', Locked(doc'[p])
                PROVE  lost \/ known(doc'[p].entry)
    BY <1>9 DEF SettledAgree, Known, known
  <2>1. p \in Place /\ p \notin torn /\ \A q \in Run : p \notin run'[q].wrote
    BY <1>3 DEF Settled
  <2>2. p \in run[r].wrote \cup {t.place} => x = Off("done")
    BY <1>2, <1>4, <2>1
  <2>3. CASE p = t.place
    <3>1. passed
      BY <1>12, <2>2, <2>3
    <3>. QED  BY <1>14, <2>3, <3>1 DEF passed
  <2>4. CASE p # t.place /\ (p \in run[r].wrote \/ t.place = config.load)
    <3>1. passed
      BY <1>11, <1>12, <2>2, <2>4
    <3>. QED  BY <1>6, <1>13, <2>1, <2>4, <3>1
  <2>5. CASE p # t.place /\ p \notin run[r].wrote /\ t.place # config.load
    <3>1. p \in Settled
      BY <1>4, <2>1, <2>5 DEF Settled
    <3>. QED  BY <1>6, <1>7, <1>10, <2>1, <2>5, <3>1 DEF SettledAgree
  <2>. QED  BY <2>3, <2>4, <2>5
<1>16. ASSUME NEW q \in Run, q \in Active' PROVE KnowsLocks(q)'
  <2>1. q = r /\ x # Off("done")
    BY <1>1, <1>4, <1>16, OffType DEF Active
  <2>. SUFFICES ASSUME NEW p \in (Place \ torn) \cup run[r].wrote \cup {t.place}, Locked(doc'[p])
                PROVE  x.data.entry = doc'[p].entry \/ (LoadLean(config) /\ x.blind)
    BY <1>2, <1>3, <1>4, <2>1 DEF KnowsLocks, Knows
  <2>2. CASE p = t.place
    BY <1>2, <1>14, <2>1, <2>2
  <2>3. CASE p # t.place
    <3>1. p \in Place
      <4>1. run[r].wrote \subseteq Place
        BY DEF TypeInv, TypeOK
      <4>. QED  BY <1>8, <4>1
    <3>. QED  BY <1>2, <1>6, <1>7, <2>1, <2>3, <3>1 DEF KnowsLocks, Knows
  <2>. QED  BY <2>2, <2>3
<1>17. ASSUME NEW q \in Run, run'[q].pc = "saving"
       PROVE  \/ \E k \in run'[q].todo : config.save[k].place = config.load
              \/ IF LoadLean(config) THEN lost ELSE known(run'[q].data.entry)
  <2>1. q = r /\ x # Off("done")
    BY <1>1, <1>4, <1>17, OffType DEF Active
  <2>2. x.data.entry = d.entry /\ x.todo = run[r].todo \ {i} /\ run[r].pc = "saving"
    BY <1>2, <1>4, <1>17, <2>1
  <2>3. CASE t.place = config.load
    BY <1>4, <1>11, <2>1, <2>2, <2>3 DEF passed
  <2>4. CASE t.place # config.load
    <3>1. \/ \E k \in run[r].todo : config.save[k].place = config.load
          \/ IF LoadLean(config) THEN Lost ELSE Known(d.entry)
      BY <1>7, <2>2 DEF WillSettle
    <3>. QED  BY <1>4, <1>10, <2>1, <2>2, <2>4, <3>1
  <2>. QED  BY <2>3, <2>4
<1>18. ASSUME NEW q \in Run PROVE WillSettle(run[q])'
  BY <1>3, <1>9, <1>17 DEF WillSettle, Known, known
<1>. QED
  BY <1>15, <1>16, <1>18 DEF Copies, Active

\* Every step keeps the locks of other documents in the loaded one.
LEMMA CopyStep == TypeInv /\ CopyInv /\ [Next]_vars => CopyInv'
<1>. SUFFICES ASSUME TypeInv, CopyInv, [Next]_vars, config'.load # None,
                     Rewrites(config'), overlap' = {}
              PROVE  Copies'
  BY DEF CopyInv, Rewrites, LoadLean, LoadFull
<1>1. CASE UNCHANGED vars
  <2>1. Copies
    BY <1>1 DEF vars, CopyInv
  <2>. QED
    BY <1>1, <2>1 DEF vars, Copies, SettledAgree, Settled, KnowsLocks, Knows, WillSettle,
                      Lost, Known, Active
<1>2. CASE ~(UNCHANGED vars)
  <2>1. PICK r \in Run : Load(r) \/ Resolve(r) \/ Act(r) \/ WriteTarget(r) \/ Stop(r)
    BY <1>2 DEF Next
  <2>2. config' = config /\ overlap \subseteq overlap'
    BY <2>1, Frame, WriteIs
  <2>3. Copies /\ config.load # None /\ Rewrites(config)
    BY <2>2 DEF CopyInv
  <2>. QED  BY <2>1, <2>3, LoadCopies, WorkCopies, WriteCopies
<1>. QED  BY <1>1, <1>2

-----------------------------------------------------------------------------
(* Theorems *)

\* The invariant holds at the start.
LEMMA InitInv == Init => Inv
<1>. SUFFICES ASSUME Init PROVE Inv
  OBVIOUS
<1>1. /\ config \in Config /\ doc \in [Place -> Doc \cup {None}]
      /\ \A p \in Place : doc[p] # None /\ ~doc[p].created => doc[p].entry = None
      /\ run = [r \in Run |-> Off("idle")] /\ acted = [r \in Run |-> None]
      /\ overlap = {} /\ torn = {}
  BY RunStateAssumption DEF Init
<1>2. Off("idle") \in RunRecord /\ Off("idle").pc = "idle" /\ Off("idle").todo = {}
        /\ Off("idle").data.param = None
  BY OffType DEF NewData
<1>3. /\ accepted \subseteq Param \cup {None} /\ None \in accepted
      /\ \A p \in Place : doc[p] # None => doc[p].param \in accepted
  <2>1. \A p \in Place : doc[p] # None => doc[p].param \in Param \cup {None}
    BY <1>1 DEF Doc
  <2>. QED  BY <2>1 DEF Init
<1>4. TypeInv
  BY <1>1, <1>2, <1>3 DEF TypeInv, TypeOK, RunRecord
<1>5. ParamInv
  BY <1>1, <1>2, <1>3 DEF ParamInv, ParametersSucceeded
<1>6. LockInv /\ AgreeInv /\ VerifiedInv
  BY <1>1, <1>2 DEF LockInv, AgreeInv, VerifiedInv, Active
<1>. QED  BY <1>4, <1>5, <1>6 DEF Inv

\* The invariant always holds.
THEOREM Invariance == Spec => []Inv
<1>1. Inv /\ [Next]_vars => Inv'
  BY TypeStep, ParamStep, LockStep, AgreeStep, VerifiedStep DEF Inv
<1>. QED  BY <1>1, InitInv, PTL DEF Spec

\* Documents without a creation time have no locks and a run has targets to write
\* exactly while it writes (Manager.Load, Checkpoint, Save, write).
THEOREM TypeCorrect == Spec => []TypeOK
<1>1. Inv => TypeOK
  BY DEF Inv, TypeInv
<1>. QED  BY <1>1, Invariance, PTL

\* No document gets a parameter of a run that did not come to its end, neither by
\* a checkpoint nor by a save after a failure (Manager.Checkpoint, Save).
THEOREM ParametersHold == Spec => []ParametersSucceeded
<1>1. Inv => ParametersSucceeded
  BY DEF Inv, ParamInv
<1>. QED  BY <1>1, Invariance, PTL

\* However many runs follow each other and fail or crash where they stand: once
\* actions have run with an immutable value that passed validation, and the loaded
\* document is a checkpoint, later actions see the same one, also where a deferred
\* validation fails under the "warn" policy; only a value its own rule rejected is
\* left out (PersistResolvers, VerifyImmutables, Checkpoint before the actions).
THEOREM AgreementHolds == Spec => ActionsAgree
<1>. DEFINE Agree == Checkpointed /\ overlap = {} =>
                      \A r, q \in Run :
                        /\ acted[q] # None /\ acted[q].validation = "passed"
                        /\ acted'[r] \notin {acted[r], None} /\ acted'[r].validation # "rejected"
                        => acted'[r].value = acted[q].value
<1>1. Inv /\ [Next]_vars => [Agree]_vars
  <2>. SUFFICES ASSUME Inv, Next, Checkpointed, overlap = {}, NEW r \in Run, NEW q \in Run,
                       acted[q] # None, acted[q].validation = "passed",
                       acted'[r] \notin {acted[r], None}, acted'[r].validation # "rejected"
                PROVE  acted'[r].value = acted[q].value
    OBVIOUS
  <2>. DEFINE x == run[r]
  <2>1. /\ TypeInv /\ LockInv /\ AgreeInv /\ VerifiedInv
        /\ acted \in [Run -> Seen \cup {None}]
    BY DEF Inv, TypeInv, TypeOK
  <2>2. PICK s \in Run : Act(s)
    BY Frame DEF Next
  <2>3. s = r /\ acted'[r] = Sees(x) /\ x \in RunRecord /\ x.pc = "acting"
    BY <2>1, <2>2, ActIs
  <2>4. r \in Active \ overlap
    BY <2>3 DEF Active
  <2>5. config.load # None
    BY <2>1, CheckpointedLoads
  <2>6. Has(acted[q].value)
    BY <2>1 DEF AgreeInv
  <2>7. x.data.entry = doc[config.load].entry
    BY <2>1, <2>4, <2>5, <2>6 DEF LockInv, Has
  <2>8. Locked(x.data) /\ x.data.entry.value = acted[q].value
    <3>1. x.data \in Doc
      BY <2>3 DEF RunRecord
    <3>2. x.data # None
      BY <3>1, RunStateAssumption
    <3>. QED  BY <2>6, <2>7, <3>2 DEF Has, Locked
  <2>9. ~Differs(x)
    BY <2>1, <2>3 DEF VerifiedInv
  <2>10. /\ x.kind = "immutable" /\ x.value # None /\ x.validation # "rejected"
         /\ acted'[r].value = x.value
    BY <2>3 DEF Sees
  <2>. QED  BY <2>8, <2>9, <2>10 DEF Differs, Succeeded
<1>2. [][Agree]_vars => ActionsAgree
  BY PTL DEF ActionsAgree
<1>. QED  BY <1>1, <1>2, Invariance, PTL DEF Spec

\* A run that overlaps no other leaves the lock of the loaded document in place,
\* unless it writes that document in the lean format (PersistResolvers, writeTarget).
THEOREM LoadedLocksHold == Spec => LoadedLocksAreKept
<1>. DEFINE Kept == config.load # None /\ Locked(doc[config.load])
                      /\ doc'[config.load].entry # doc[config.load].entry =>
                    \E r \in Run :
                      /\ run'[r] # run[r] /\ run[r].todo # {}
                      /\ LET t == config.save[First(run[r].todo)] IN
                         t.place = config.load /\ (r \in overlap \/ t.format = "intent")
<1>1. Inv /\ [Next]_vars => [Kept]_vars
  <2>. SUFFICES ASSUME Inv, Next, config.load # None, Locked(doc[config.load]),
                       doc'[config.load].entry # doc[config.load].entry
                PROVE  \E r \in Run :
                         /\ run'[r] # run[r] /\ run[r].todo # {}
                         /\ LET t == config.save[First(run[r].todo)] IN
                            t.place = config.load /\ (r \in overlap \/ t.format = "intent")
    OBVIOUS
  <2>1. PICK r \in Run : WriteTarget(r)
    BY Frame DEF Next
  <2>. DEFINE t == config.save[First(run[r].todo)]
  <2>2. TypeInv /\ LockInv /\ t \in Target /\ run \in [Run -> RunRecord]
    BY <2>1, WriteIs DEF Inv, TypeInv
  <2>3. t.place = config.load /\ (r \in overlap \/ t.format = "intent")
    BY <2>1, <2>2, WriteKeeps DEF Target
  <2>4. run'[r] # run[r] /\ run[r].todo # {}
    <3>1. First(run[r].todo) \in run[r].todo
      BY <2>1, <2>2, WriteIs
    <3>2. PICK x : /\ run' = [run EXCEPT ![r] = x]
                   /\ x = Off("done") \/ x.todo = run[r].todo \ {First(run[r].todo)}
      BY <2>1, <2>2, WriteIs
    <3>. QED  BY <2>2, <3>1, <3>2, OffType
  <2>. QED  BY <2>3, <2>4
<1>2. [][Kept]_vars => LoadedLocksAreKept
  BY PTL DEF LoadedLocksAreKept
<1>. QED  BY <1>1, <1>2, Invariance, PTL DEF Spec

\* The locks of copies are in the loaded document at the start, where the documents
\* that are found agree.
LEMMA InitCopies ==
  ASSUME Init, \A c \in Config : \A f \in Found : LocksAgree(f, c)
  PROVE  BlindInv /\ CopyInv
<1>1. /\ LocksAgree(doc, config) /\ torn = {}
      /\ run = [r \in Run |-> Off("idle")]
  BY DEF Init
<1>2. Off("idle").pc = "idle" /\ Off("idle").wrote = {}
  BY OffType
<1>3. Active = {} /\ (\A r \in Run : run[r].wrote = {} /\ run[r].pc = "idle")
  BY <1>1, <1>2 DEF Active
<1>4. Settled = Place
  BY <1>1, <1>3 DEF Settled
<1>5. config.load # None => SettledAgree
  BY <1>1, <1>4 DEF SettledAgree, LocksAgree, Lost, Known
<1>. QED
  BY <1>3, <1>5 DEF BlindInv, CopyInv, Copies, WillSettle

\* Where every state block saves what it loads and the documents found agree, the
\* lock of any document, copies included, stays until a run that overlaps another,
\* a lean target, or a run that could not know of the lock replaces it
\* (CheckMissingLocks, PersistResolvers, writeTarget).
THEOREM LocksHold ==
  ASSUME \A c \in Config : SavesWhatItLoads(c) /\ \A f \in Found : LocksAgree(f, c)
  PROVE  Spec => LocksAreKept
<1>. DEFINE All == Inv /\ BlindInv /\ CopyInv
            Kept == \A p \in Place :
              Locked(doc[p]) /\ doc'[p].entry # doc[p].entry =>
                \E r \in Run :
                  /\ run'[r] # run[r] /\ run[r].todo # {}
                  /\ LET t == config.save[First(run[r].todo)] IN
                     /\ t.place = p
                     /\ \/ r \in overlap \/ t.format = "intent"
                        \/ p # config.load /\ (run[r].blind \/ p \in torn \/ overlap # {})
<1>1. Init => All
  BY InitInv, InitCopies
<1>2. All /\ [Next]_vars => All'
  BY TypeStep, ParamStep, LockStep, AgreeStep, VerifiedStep, BlindStep, CopyStep DEF Inv
<1>3. All /\ [Next]_vars => [Kept]_vars
  <2>. SUFFICES ASSUME Inv, BlindInv, CopyInv, Next,
                       NEW p \in Place, Locked(doc[p]), doc'[p].entry # doc[p].entry
                PROVE  \E r \in Run :
                         /\ run'[r] # run[r] /\ run[r].todo # {}
                         /\ LET t == config.save[First(run[r].todo)] IN
                            /\ t.place = p
                            /\ \/ r \in overlap \/ t.format = "intent"
                               \/ p # config.load
                                    /\ (run[r].blind \/ p \in torn \/ overlap # {})
    OBVIOUS
  <2>1. PICK r \in Run : WriteTarget(r)
    BY Frame DEF Next
  <2>. DEFINE t == config.save[First(run[r].todo)]
              d == run[r].data
  <2>2. /\ TypeInv /\ LockInv /\ run \in [Run -> RunRecord]
        /\ doc \in [Place -> Doc \cup {None}]
    BY DEF Inv, TypeInv, TypeOK
  <2>3. /\ t \in Target /\ d \in Doc /\ r \in Active /\ First(run[r].todo) \in run[r].todo
        /\ doc' = [doc EXCEPT ![t.place] = ProjectState(d, t.format)]
        /\ First(run[r].todo) \in DOMAIN config.save
    BY <2>1, <2>2, WriteIs
  <2>4. t.place = p
    BY <2>2, <2>3 DEF Target
  <2>5. run'[r] # run[r] /\ run[r].todo # {}
    <3>1. PICK x : /\ run' = [run EXCEPT ![r] = x]
                   /\ x = Off("done") \/ x.todo = run[r].todo \ {First(run[r].todo)}
      BY <2>1, <2>2, WriteIs
    <3>. QED  BY <2>2, <2>3, <3>1, OffType
  <2>6. doc'[p].entry = d.entry \/ t.format = "intent"
    <3>1. doc'[p] = ProjectState(d, t.format)
      BY <2>2, <2>3, <2>4
    <3>2. t.format = "full" => ProjectState(d, t.format).entry = d.entry
      BY <2>3, ProjectIs DEF Target
    <3>. QED  BY <2>3, <3>1, <3>2 DEF Target
  <2>7. CASE p = config.load
    <3>1. config.load # None
      BY <2>7, RunStateAssumption
    <3>2. r \in overlap \/ t.format = "intent"
      BY <2>1, <2>2, <2>3, <2>6, <2>7, <3>1 DEF LockInv
    <3>. QED  BY <2>4, <2>5, <3>2
  <2>8. CASE p # config.load
    <3>1. config \in Config
      BY <2>2 DEF TypeInv, TypeOK
    <3>2. config.load = None => run[r].blind
      BY <2>3 DEF BlindInv
    <3>3. config.load # None => Rewrites(config)
      BY <2>3, <2>4, <2>8, <3>1 DEF SavesWhatItLoads
    <3>4. config.load # None /\ overlap = {} /\ p \notin torn =>
            d.entry = doc[p].entry \/ run[r].blind
      BY <2>3, <3>3 DEF CopyInv, Copies, KnowsLocks, Knows
    <3>. QED  BY <2>4, <2>5, <2>6, <2>8, <3>2, <3>4
  <2>. QED  BY <2>7, <2>8
<1>4. [][Kept]_vars => LocksAreKept
  BY PTL DEF LocksAreKept
<1>. QED  BY <1>1, <1>2, <1>3, <1>4, PTL DEF Spec

===============================================================================
