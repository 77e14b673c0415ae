-------------------------------- MODULE RunState --------------------------------
(***************************************************************************)
(* Saved state around runs of a solution: Manager of pkg/state (load,       *)
(* Checkpoint, Save, write, PersistResolvers, VerifyImmutables,             *)
(* CheckMissingLocks) and its use in pkg/cmd/scafctl/run.                   *)
(*                                                                         *)
(* A state document holds one parameter and one resolver's entry.  A run    *)
(* is a process: it loads a document, resolves, writes the checkpoint       *)
(* targets, runs the actions and writes every target.  The file provider    *)
(* replaces a file by a rename, and nothing locks it against other runs: a  *)
(* step is one read or one write of a document, or work of one process in   *)
(* between.                                                                 *)
(***************************************************************************)
EXTENDS Naturals, Sequences, FiniteSets

CONSTANTS
  Run,       \* the runs
  Place,     \* where documents are: paths, URLs
  Config,    \* the state blocks solutions may have, and --allow-missing-locks
  Value,     \* values of the resolver
  Param,     \* values of the parameter
  Given,     \* those the command line may give
  Found,     \* the documents that may be there before any run
  Parallel,  \* bound: runs at the same time
  None       \* nil

Entry == [value : Value, immutable : BOOLEAN]

\* created: Metadata.CreatedAt is set, as every full write does.
Doc == [param : Param \cup {None}, created : BOOLEAN, entry : Entry \cup {None}]

\* How the resolver's value fared: "rejected" by its own rule, its result has the
\* status failed; where only a deferred rule failed, its result is a success.
Validation == {"passed", "deferred", "rejected"}

\* What actions saw.
Seen == [value : Value, validation : Validation]

\* SaveTarget; "conditional" targets have an enabled condition.
Target == [place : Place, format : {"full", "intent"}, checkpoint : BOOLEAN,
           conditional : BOOLEAN]

ASSUME RunStateAssumption ==
  /\ Config \subseteq [load : Place \cup {None}, save : Seq(Target), allow : BOOLEAN]
  /\ \A c \in Config : \A i \in DOMAIN c.save :
       c.save[i].checkpoint => c.save[i].format = "full"
  /\ Found \subseteq [Place -> Doc \cup {None}]
  /\ \A f \in Found : \A p \in Place : f[p] # None /\ ~f[p].created => f[p].entry = None
  /\ Given \subseteq Param /\ Parallel \in Nat
  /\ None \notin Place \cup Value \cup Param \cup Entry \cup Doc \cup Seen

VARIABLES
  config,    \* the solution's state block
  doc,       \* the documents
  run,       \* what each run has in memory
  acted,     \* the immutable value each run's actions saw, and how it was validated
  accepted,  \* parameters of runs that came to their end
  overlap,   \* runs that loaded or wrote amid another's writes
  torn       \* places written by a run that stopped before its end

vars == <<config, doc, run, acted, accepted, overlap, torn>>

NewData == [param |-> None, created |-> FALSE, entry |-> None]

Off(pc) == [pc |-> pc, data |-> NewData, param |-> None, kind |-> "plain",
            value |-> None, validation |-> "passed", off |-> FALSE,
            blind |-> FALSE, todo |-> {}, wrote |-> {}]

Active == {r \in Run : run[r].pc \notin {"idle", "done"}}
Locked(d) == d # None /\ d.entry # None /\ d.entry.immutable

Init ==
  /\ config \in Config
  /\ doc \in Found
  /\ run = [r \in Run |-> Off("idle")]
  /\ acted = [r \in Run |-> None]
  /\ accepted = UNION {{doc[p].param : p \in {q \in Place : doc[q] # None}}, {None}}
  /\ overlap = {} /\ torn = {}

-----------------------------------------------------------------------------
(* Load. *)

Loaded ==
  IF config.load = None THEN NewData
  ELSE IF doc[config.load] = None THEN NewData ELSE doc[config.load]

\* CheckMissingLocks: parameters and no creation time, and no lock.
MissingLocks(d, kind) ==
  /\ config.load # None /\ ~d.created /\ d.param # None
  /\ kind = "immutable" /\ ~Locked(d)

\* Nothing holds such a document against the run: it shows no trace of a lock.
Blind(d, kind) == ~d.created /\ (d.param = None \/ kind # "immutable" \/ config.allow)

\* MergeParameters: what the command line gives wins.
MergeParameters(saved, cli) == IF cli # None THEN cli ELSE saved

\* A solution's version says whether the resolver is immutable, persisted or
\* neither; --allow-missing-locks lets a load without locks pass.  A load that
\* fails, or a state block that is not enabled, is as if the run did not begin.
Load(r) ==
  /\ run[r].pc = "idle" /\ Cardinality(Active) < Parallel
  /\ \E kind \in {"plain", "persist", "immutable"}, cli \in Given \cup {None} :
       /\ MissingLocks(Loaded, kind) => config.allow
       /\ run' = [run EXCEPT ![r] = [Off("loaded") EXCEPT
            !.data = Loaded, !.param = MergeParameters(Loaded.param, cli),
            !.kind = kind, !.blind = Blind(Loaded, kind)]]
  /\ overlap' = IF \E q \in Run : run[q].wrote # {} THEN overlap \cup {r} ELSE overlap
  /\ UNCHANGED <<config, doc, acted, accepted, torn>>

-----------------------------------------------------------------------------
(* Resolve, verify, lock. *)

\* The result has the status success; a rejected value is there all the same.
Succeeded(x) == x.value # None /\ x.validation # "rejected"

\* Faulty variant: a resolver that is only persisted overwrites the lock.
Downgraded(x) ==
  IF x.kind = "plain" \/ ~Succeeded(x) THEN x.data.entry
  ELSE [value |-> x.value, immutable |-> x.kind = "immutable"]

\* PersistResolvers.  A resolver that did not succeed keeps its entry, and so does
\* a locked one; a value whose deferred validation failed is not locked.
Persisted(x) ==
  IF \/ x.kind = "plain" \/ ~Succeeded(x) \/ Locked(x.data)
     \/ x.kind = "immutable" /\ x.validation = "deferred"
  THEN x.data.entry
  ELSE [value |-> x.value, immutable |-> x.kind = "immutable"]

\* Faulty variant: what may not be locked is not compared with its lock either.
DiffersIfPassed(x) ==
  /\ x.kind = "immutable" /\ Locked(x.data)
  /\ x.value # None /\ x.validation = "passed" /\ x.value # x.data.entry.value

\* VerifyImmutables.
Differs(x) ==
  x.kind = "immutable" /\ Locked(x.data) /\ Succeeded(x) /\ x.value # x.data.entry.value

Targets(x, checkpoint) ==
  {i \in DOMAIN config.save : /\ checkpoint => config.save[i].checkpoint
                              /\ config.save[i].conditional => ~x.off}

\* Faulty variant: the checkpoint has the merged parameters.
CheckpointMerged(x) == [x.data EXCEPT !.entry = Persisted(x), !.param = x.param]

CheckpointData(x) == [x.data EXCEPT !.entry = Persisted(x)]

Checkpoint(x) ==
  IF Targets(x, TRUE) = {} THEN [x EXCEPT !.pc = "acting"]
  ELSE [x EXCEPT !.pc = "checkpoint", !.data = CheckpointData(x), !.todo = Targets(x, TRUE)]

Save(x) ==
  IF Targets(x, FALSE) = {} THEN Off("done")
  ELSE [Off("saving") EXCEPT
          !.todo = Targets(x, FALSE), !.wrote = x.wrote, !.blind = x.blind,
          !.data = [x.data EXCEPT !.param = x.param, !.entry = Persisted(x)]]

\* The run ends where it stands, by an error or by a crash.
Stops(r) ==
  /\ run' = [run EXCEPT ![r] = Off("done")]
  /\ torn' = torn \cup run[r].wrote

\* The value of a resolver that leaves nothing in state does not matter.  Under
\* the "warn" policy a run with failed validations goes on to its actions, which see
\* the value; "run resolver" saves nothing then.
Resolve(r) ==
  /\ run[r].pc = "loaded"
  /\ \E v \in Value \cup {None}, validation \in Validation, off \in BOOLEAN,
        command \in {"solution", "resolver"} :
       LET x == [run[r] EXCEPT !.value = v, !.validation = validation, !.off = off] IN
       /\ x.kind = "plain" => v = None
       /\ validation # "passed" => x.kind = "immutable" /\ v # None /\ command = "solution"
       /\ off => \E i \in DOMAIN config.save : config.save[i].conditional
       /\ \/ Differs(x) /\ Stops(r) /\ UNCHANGED accepted
          \/ /\ ~Differs(x) /\ command = "solution"
             /\ run' = [run EXCEPT ![r] = Checkpoint(x)]
             /\ UNCHANGED <<accepted, torn>>
          \/ /\ ~Differs(x) /\ command = "resolver"
             /\ run' = [run EXCEPT ![r] = Save(x)]
             /\ accepted' = accepted \cup {x.param}
             /\ UNCHANGED torn
  /\ UNCHANGED <<config, doc, acted, overlap>>

-----------------------------------------------------------------------------
(* The actions, and the writes before and after them. *)

\* What the actions of a run see of an immutable resolver, under every policy.
Sees(x) ==
  IF x.kind = "immutable" /\ x.value # None
  THEN [value |-> x.value, validation |-> x.validation] ELSE None

Act(r) ==
  LET x == run[r] IN
  /\ x.pc = "acting"
  /\ acted' = [acted EXCEPT ![r] = Sees(x)]
  /\ \/ Stops(r) /\ UNCHANGED accepted
     \/ /\ run' = [run EXCEPT ![r] = Save(x)]
        /\ accepted' = accepted \cup {x.param}
        /\ UNCHANGED torn
  /\ UNCHANGED <<config, doc, overlap>>

\* Faulty variant: the lean format has everything but the creation time.
IntentWithEntry(d, format) == [d EXCEPT !.created = format = "full"]

\* projectState.
ProjectState(d, format) ==
  IF format = "full" THEN [d EXCEPT !.created = TRUE]
  ELSE [NewData EXCEPT !.param = d.param]

First(todo) == CHOOSE i \in todo : \A j \in todo : i <= j

\* writeTarget, in the order of the targets; after the last the run goes on.
WriteTarget(r) ==
  LET x == run[r]
      i == First(x.todo)
      t == config.save[i]
  IN
  /\ x.pc \in {"checkpoint", "saving"}
  /\ doc' = [doc EXCEPT ![t.place] = ProjectState(x.data, t.format)]
  /\ run' = [run EXCEPT ![r] =
       IF x.todo # {i}
       THEN [x EXCEPT !.todo = @ \ {i}, !.wrote = @ \cup {t.place}, !.data.created = TRUE]
       ELSE IF x.pc = "saving" THEN Off("done")
       ELSE [x EXCEPT !.pc = "acting", !.todo = {}, !.wrote = @ \cup {t.place},
                      !.data.created = TRUE]]
  /\ overlap' = overlap \cup (Active \ {r})
  /\ UNCHANGED <<config, acted, accepted, torn>>

Stop(r) ==
  /\ r \in Active
  /\ Stops(r)
  /\ UNCHANGED <<config, doc, acted, accepted, overlap>>

Next ==
  \E r \in Run : \/ Load(r) \/ Resolve(r) \/ Act(r)
                 \/ WriteTarget(r) \/ Stop(r)

Spec == Init /\ [][Next]_vars

-----------------------------------------------------------------------------
(* Properties *)

\* Types: a document without a creation time is parameters-only, and a run has
\* targets to write exactly while it writes.
TypeOK ==
  /\ config \in Config
  /\ doc \in [Place -> Doc \cup {None}]
  /\ \A p \in Place : doc[p] # None /\ ~doc[p].created => doc[p].entry = None
  /\ \A r \in Run :
       /\ run[r].pc \in {"idle", "loaded", "checkpoint", "acting", "saving", "done"}
       /\ run[r].data \in Doc
       /\ run[r].param \in Param \cup {None}
       /\ run[r].value \in Value \cup {None}
       /\ run[r].todo \subseteq DOMAIN config.save
       /\ run[r].todo # {} <=> run[r].pc \in {"checkpoint", "saving"}
       /\ run[r].wrote \subseteq Place
  /\ acted \in [Run -> Seen \cup {None}]
  /\ accepted \subseteq Param \cup {None}
  /\ overlap \subseteq Run /\ torn \subseteq Place

\* A saved immutable value changes or goes away only where a run that overlaps
\* another writes, or a target in the lean format, which has no locks.  In a
\* document other than the one runs load, also where the loaded one shows no trace
\* of the lock and CheckMissingLocks has nothing against it, or where a run stopped
\* before it wrote everything or runs have overlapped.  In the loaded document a
\* failed run, a solution that no longer declares the resolver immutable or a value
\* that differs never replace one.
LocksAreKept ==
  [][\A p \in Place :
       Locked(doc[p]) /\ doc'[p].entry # doc[p].entry =>
         \E r \in Run :
           /\ run'[r] # run[r] /\ run[r].todo # {}
           /\ LET t == config.save[First(run[r].todo)] IN
              /\ t.place = p
              /\ \/ r \in overlap \/ t.format = "intent"
                 \/ p # config.load /\ (run[r].blind \/ p \in torn \/ overlap # {})]_vars

\* The targets at the document runs load are all lean, or all full.
LoadLean(c) ==
  \A i \in DOMAIN c.save : c.save[i].place = c.load => c.save[i].format = "intent"
LoadFull(c) ==
  \A i \in DOMAIN c.save : c.save[i].place = c.load => c.save[i].format = "full"

\* Every save rewrites the document that runs load, always in one format.
Rewrites(c) ==
  /\ \E i \in DOMAIN c.save : c.save[i].place = c.load /\ ~c.save[i].conditional
  /\ LoadLean(c) \/ LoadFull(c)

\* What LocksAreKept asks of a state block: there is nothing to load, there are no
\* copies, or every save rewrites what is loaded.
SavesWhatItLoads(c) ==
  \/ c.load = None
  \/ \A i \in DOMAIN c.save : c.save[i].place = c.load
  \/ Rewrites(c)

\* What it asks of the documents that are there before: a lock in a copy is in the
\* loaded document, or that one is lean.
LocksAgree(f, c) ==
  c.load # None => \A p \in Place : Locked(f[p]) =>
    \/ f[c.load] # None /\ f[c.load].entry = f[p].entry
    \/ LoadLean(c) /\ (f[c.load] = None \/ ~f[c.load].created)

\* The document runs load is a checkpoint target and nothing else replaces it.
Checkpointed ==
  /\ \E i \in DOMAIN config.save :
       /\ config.save[i].place = config.load /\ config.save[i].checkpoint
       /\ ~config.save[i].conditional
  /\ \A i \in DOMAIN config.save :
       config.save[i].place = config.load => config.save[i].format = "full"

\* With such a checkpoint, and no two runs at the same time, once actions have run
\* with an immutable value that passed validation, those of every later run see the
\* same one, whichever runs failed or crashed, also a run under the "warn" policy
\* whose deferred validation fails.  Two kinds of runs are left out, both under that
\* policy: a value that its own rule rejected is neither compared with the lock nor
\* locked, and one whose deferred rule failed before there is a lock binds nobody.
ActionsAgree ==
  [][Checkpointed /\ overlap = {} =>
       \A r, q \in Run :
         /\ acted[q] # None /\ acted[q].validation = "passed"
         /\ acted'[r] \notin {acted[r], None} /\ acted'[r].validation # "rejected"
         => acted'[r].value = acted[q].value]_vars

\* A parameter in a document was there before, or belongs to a run that came to
\* its end: neither a checkpoint nor a failed run saves new ones.
ParametersSucceeded ==
  \A p \in Place : doc[p] # None => doc[p].param \in accepted
=================================================================================
