------------------------------ MODULE SecretStore ------------------------------
(***************************************************************************)
(* The secret store of pkg/secrets: encrypted files in one directory and   *)
(* the master key in a chain of keyrings, both shared by every process of  *)
(* the program on the machine.                                             *)
(*                                                                         *)
(* The mutex of a store orders the operations of its own process only, so  *)
(* a process is sequential here and processes interleave between any two   *)
(* accesses to a file or to the keyring.  A ciphertext is the pair of its  *)
(* key and its plaintext: decryption is authenticated and succeeds with    *)
(* that key only.  A process may end at any step and start again.          *)
(***************************************************************************)
EXTENDS Naturals, FiniteSets

CONSTANTS
  Name,      \* names of secrets
  Value,     \* plaintexts
  Process,   \* processes of the program
  Cleaner,   \* processes that open the store WithOrphanCleanup(true)
  EnvKeys,   \* what SCAFCTL_SECRET_KEY may hold: key 1, or None
  Outages,   \* whether the OS keyring may become unavailable, and lose its key
  Keys,      \* bound: master keys made in a run
  None       \* no file, no key, no secret

Key == 1..Keys

ASSUME StoreAssumption ==
  /\ Cleaner \subseteq Process
  /\ EnvKeys \subseteq {None, 1} /\ Keys \in Nat \ {0}
  /\ Outages \in BOOLEAN
  /\ None \notin Key \cup Value \cup [key : Key, val : Value]

VARIABLES
  file,      \* the secrets directory: the ciphertext under each name
  keyring,   \* the key each backend of the chain holds
  osUp,      \* the OS keyring answers
  keys,      \* keys generated so far
  proc,      \* where a process is, its masterKey, and the locals of its operation
  stored,    \* what the last acknowledged Set or Delete of a name left
  causes     \* what has happened that may lose a secret

vars == <<file, keyring, osUp, keys, proc, stored, causes>>

-----------------------------------------------------------------------------
(* The chain: the OS keyring, the environment, a key file. *)

\* chainKeyring.Get, when the OS keyring is reachable or not: a backend that is
\* unavailable is passed over like one that has no key.
AnswerWhen(up) ==
  IF up /\ keyring["os"] # None THEN keyring["os"]
  ELSE IF keyring["env"] # None THEN keyring["env"]
  ELSE keyring["file"]

Answer == AnswerWhen(osUp)

\* chainKeyring.Set: the environment is read-only, an unavailable backend is
\* passed over.
Writable == IF osUp THEN "os" ELSE "file"
Keep(k) == [keyring EXCEPT ![Writable] = k]

\* A backend before the one written holds another key.
Shadows(k) ==
  \/ Writable = "file" /\ keyring["os"] \notin {None, k}
  \/ Writable = "file" /\ keyring["os"] = None /\ keyring["env"] \notin {None, k}

-----------------------------------------------------------------------------

Down    == [pc |-> "down", key |-> None, newKey |-> None, left |-> {},
            plain |-> [n \in Name |-> None]]
Ready(k) == [Down EXCEPT !.pc = "ready", !.key = k]

Present  == {n \in Name : file[n] # None}
Running(p)  == proc[p].pc # "down"
Others(p) == {q \in Process \ {p} : Running(q)}
Rotating(p) == proc[p].pc \in {"read", "write", "rollback"}

Goto(p, state) == proc' = [proc EXCEPT ![p] = state]
BlameAll(happened) == causes' = causes \cup {c \in DOMAIN happened : happened[c]}
Blame(cause, happened) == causes' = IF happened THEN causes \cup {cause} ELSE causes

Init ==
  /\ file = [n \in Name |-> None]
  /\ \E k \in EnvKeys :
       /\ keyring = [b \in {"os", "env", "file"} |-> IF b = "env" THEN k ELSE None]
       /\ keys = (IF k = None THEN 0 ELSE 1)
  /\ osUp \in (IF Outages THEN BOOLEAN ELSE {TRUE})
  /\ proc = [p \in Process |-> Down]
  /\ stored = [n \in Name |-> None]
  /\ causes = {}

-----------------------------------------------------------------------------
(* newStore and initMasterKey. *)

\* Faulty variant: no key in the keyring is not an error, and none is made.
OpenKeyless(p) == Goto(p, Ready(Answer))

Open(p) ==
  Goto(p, IF Answer # None THEN Ready(Answer) ELSE [Down EXCEPT !.pc = "list"])

Start(p) ==
  /\ ~Running(p)
  /\ Open(p)
  /\ BlameAll([unavailable |-> Answer # AnswerWhen(TRUE),
               beside |-> \E q \in Process : Rotating(q)])
  /\ UNCHANGED <<file, keyring, osUp, keys, stored>>

\* No key: secrets that exist are orphans, an error or deleted.
CheckOrphans(p) ==
  /\ proc[p].pc = "list"
  /\ Goto(p, IF Present = {} THEN [Down EXCEPT !.pc = "generate"]
             ELSE IF p \in Cleaner THEN [Down EXCEPT !.pc = "clean", !.left = Present]
             ELSE Down)
  /\ Blame("together", AnswerWhen(TRUE) # None)
  /\ UNCHANGED <<file, keyring, osUp, keys, stored>>

DeleteOrphan(p) ==
  /\ proc[p].pc = "clean"
  /\ \E n \in proc[p].left :
       /\ file' = [file EXCEPT ![n] = None]
       /\ Goto(p, [proc[p] EXCEPT !.left = @ \ {n},
                                  !.pc = IF proc[p].left = {n} THEN "generate" ELSE @])
  /\ Blame("together", AnswerWhen(TRUE) # None)
  /\ UNCHANGED <<keyring, osUp, keys, stored>>

\* A new key; storing it may fail, and then the store is not opened.
CreateKey(p) ==
  /\ proc[p].pc = "generate" /\ keys < Keys
  /\ keys' = keys + 1
  /\ \/ /\ keyring' = Keep(keys + 1)
        /\ Goto(p, Ready(keys + 1))
        /\ BlameAll([together |-> AnswerWhen(TRUE) # None, shadowed |-> Shadows(keys + 1),
                       beside |-> \E q \in Others(p) : proc[q].key # None])
     \/ Goto(p, Down) /\ UNCHANGED <<keyring, causes>>
  /\ UNCHANGED <<file, osUp, stored>>

-----------------------------------------------------------------------------
(* Get, Set and Delete. *)

Encrypted(k, v) == [key |-> k, val |-> v]

Undecryptable(p, n) == file[n].key # proc[p].key

\* Get of a secret that decrypts, or is not there, changes nothing.  One that
\* does not decrypt ...
GetFails(p) ==
  /\ proc[p].pc = "ready"
  /\ \E n \in Present : /\ Undecryptable(p, n)
                        /\ Goto(p, [proc[p] EXCEPT !.pc = "corrupted", !.left = {n}])
  /\ UNCHANGED <<file, keyring, osUp, keys, stored, causes>>

\* ... is deleted, whatever is under the name by now.
DeleteCorrupted(p) ==
  /\ proc[p].pc = "corrupted"
  /\ file' = [n \in Name |-> IF n \in proc[p].left THEN None ELSE file[n]]
  /\ Goto(p, Ready(proc[p].key))
  /\ UNCHANGED <<keyring, osUp, keys, stored, causes>>

\* A write of another process while one rotates, or deletes the name, is undone.
Crossed(p, n) ==
  \E q \in Others(p) : Rotating(q) \/ (proc[q].pc = "corrupted" /\ n \in proc[q].left)

Set(p, n, v) ==
  /\ proc[p].pc = "ready"
  /\ file' = [file EXCEPT ![n] = Encrypted(proc[p].key, v)]
  /\ stored' = [stored EXCEPT ![n] = v]
  /\ Blame("crossed", Crossed(p, n))
  /\ UNCHANGED <<keyring, osUp, keys, proc>>

Delete(p, n) ==
  /\ proc[p].pc = "ready"
  /\ file' = [file EXCEPT ![n] = None]
  /\ stored' = [stored EXCEPT ![n] = None]
  /\ Blame("crossed", Crossed(p, n))
  /\ UNCHANGED <<keyring, osUp, keys, proc>>

-----------------------------------------------------------------------------
(* Rotate. *)

StartRotate(p) ==
  /\ proc[p].pc = "ready"
  /\ Goto(p, [proc[p] EXCEPT !.pc = "read", !.left = Present])
  /\ UNCHANGED <<file, keyring, osUp, keys, stored, causes>>

\* One secret is read and decrypted; one that cannot be ends the rotation.
ReadOne(p) ==
  /\ proc[p].pc = "read"
  /\ \E n \in proc[p].left :
       IF file[n] = None \/ (file[n] # None /\ Undecryptable(p, n))
       THEN Goto(p, Ready(proc[p].key))
       ELSE Goto(p, [proc[p] EXCEPT !.left = @ \ {n}, !.plain[n] = file[n].val])
  /\ UNCHANGED <<file, keyring, osUp, keys, stored, causes>>

WasRead(p) == {n \in Name : proc[p].plain[n] # None}

NewKey(p) ==
  /\ proc[p].pc = "read" /\ proc[p].left = {} /\ keys < Keys
  /\ keys' = keys + 1
  /\ Goto(p, [proc[p] EXCEPT !.pc = "write", !.newKey = keys + 1, !.left = WasRead(p)])
  /\ UNCHANGED <<file, keyring, osUp, stored, causes>>

\* One secret is written under the new key, or the writing stops and what was
\* written is to be restored.
WriteOne(p) ==
  /\ proc[p].pc = "write"
  /\ \E n \in proc[p].left :
       \/ /\ file' = [file EXCEPT ![n] = Encrypted(proc[p].newKey, proc[p].plain[n])]
          /\ Goto(p, [proc[p] EXCEPT !.left = @ \ {n}])
          /\ Blame("beside", Others(p) # {})
       \/ /\ Goto(p, [proc[p] EXCEPT !.pc = "rollback", !.left = WasRead(p) \ @])
          /\ UNCHANGED <<file, causes>>
  /\ UNCHANGED <<keyring, osUp, keys, stored>>

\* The keyring takes the new key and then the process does; or everything is to
\* be restored.
SetKey(p) ==
  /\ proc[p].pc = "write" /\ proc[p].left = {}
  /\ \/ /\ keyring' = Keep(proc[p].newKey)
        /\ Goto(p, Ready(proc[p].newKey))
        /\ BlameAll([beside |-> Others(p) # {}, shadowed |-> Shadows(proc[p].newKey)])
     \/ /\ Goto(p, [proc[p] EXCEPT !.pc = "rollback", !.left = WasRead(p)])
        /\ UNCHANGED <<keyring, causes>>
  /\ UNCHANGED <<file, osUp, keys, stored>>

\* Faulty variant: the rollback writes the ciphertexts it has at hand.
SameAgain(p, n) == Encrypted(proc[p].newKey, proc[p].plain[n])

Restored(p, n) == Encrypted(proc[p].key, proc[p].plain[n])

\* Faulty variant: the new key is in memory before the keyring has it.
KeepsNewKey(p) == Ready(proc[p].newKey)

AfterRollback(p) == Ready(proc[p].key)

\* One secret is written back; a failure is logged and passed over.
RollbackOne(p) ==
  /\ proc[p].pc = "rollback"
  /\ \/ \E n \in proc[p].left :
          /\ \/ /\ file' = [file EXCEPT ![n] = Restored(p, n)]
                /\ Blame("beside", Others(p) # {})
             \/ Blame("rollback", TRUE) /\ UNCHANGED file
          /\ Goto(p, [proc[p] EXCEPT !.left = @ \ {n}])
     \/ /\ proc[p].left = {}
        /\ Goto(p, AfterRollback(p))
        /\ UNCHANGED <<file, causes>>
  /\ UNCHANGED <<keyring, osUp, keys, stored>>

-----------------------------------------------------------------------------
(* The end of a process, and the OS keyring. *)

\* Between the first write of a rotation and its end.
HalfRotated(p) ==
  \/ proc[p].pc = "write" /\ proc[p].left # WasRead(p)
  \/ proc[p].pc = "rollback" /\ proc[p].left # {}

End(p) ==
  /\ Running(p)
  /\ Goto(p, Down)
  /\ Blame("interrupted", HalfRotated(p))
  /\ UNCHANGED <<file, keyring, osUp, keys, stored>>

ToggleOs ==
  /\ Outages /\ osUp' = ~osUp
  /\ UNCHANGED <<file, keyring, keys, proc, stored, causes>>

\* A keychain reset or reinstall.
ResetOs ==
  /\ Outages /\ keyring["os"] # None
  /\ keyring' = [keyring EXCEPT !["os"] = None]
  /\ BlameAll([reset |-> TRUE, beside |-> \E p \in Process : Running(p)])
  /\ UNCHANGED <<file, osUp, keys, proc, stored>>

-----------------------------------------------------------------------------

Rotate(p) == \/ StartRotate(p) \/ ReadOne(p) \/ NewKey(p) \/ WriteOne(p) \/ SetKey(p)
             \/ RollbackOne(p)

Next ==
  \/ \E p \in Process :
       \/ Start(p) \/ CheckOrphans(p) \/ DeleteOrphan(p) \/ CreateKey(p)
       \/ GetFails(p) \/ DeleteCorrupted(p)
       \/ \E n \in Name : Delete(p, n) \/ \E v \in Value : Set(p, n, v)
       \/ Rotate(p) \/ End(p)
  \/ ToggleOs \/ ResetOs

Spec == Init /\ [][Next]_vars

-----------------------------------------------------------------------------
(* Properties *)

\* Types: a process that serves requests has a key, and one that rotates a new
\* one for what it has read.
TypeOK ==
  /\ file \in [Name -> [key : Key, val : Value] \cup {None}]
  /\ keyring \in [{"os", "env", "file"} -> Key \cup {None}]
  /\ osUp \in BOOLEAN /\ keys \in 0..Keys
  /\ stored \in [Name -> Value \cup {None}]
  /\ \A p \in Process :
       /\ proc[p].pc \in {"down", "list", "clean", "generate", "ready", "corrupted",
                          "read", "write", "rollback"}
       /\ proc[p].left \subseteq Name
       /\ (proc[p].key \in Key) <=> proc[p].pc \notin {"down", "list", "clean", "generate"}
       /\ (proc[p].newKey \in Key) <=> proc[p].pc \in {"write", "rollback"}

\* A secret that was stored can be read by the next process, with the value last
\* stored, whatever rotations succeeded or failed: these are all the ways to lose
\* one, by what Rotate, initMasterKey and the chain of keyrings do.
LossHasCause ==
  causes = {} /\ (\A p \in Process : ~Rotating(p)) =>
    \A n \in Name :
      file[n] = IF stored[n] = None THEN None ELSE Encrypted(AnswerWhen(TRUE), stored[n])

\* Get and the deletion of orphans destroy only what no backend has a key for.
\* (Several processes, or an OS keyring that comes and goes, void that.)
DestroysOnlyUnreadable ==
  [][\A p \in Process : DeleteOrphan(p) \/ DeleteCorrupted(p) =>
       \A n \in Name :
         file[n] # None /\ file'[n] = None =>
           \/ \A b \in DOMAIN keyring : keyring[b] # file[n].key
           \/ causes' \cap {"unavailable", "shadowed", "beside",
                            "together", "crossed"} # {}]_vars
=============================================================================
