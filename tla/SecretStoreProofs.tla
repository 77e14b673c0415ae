--------------------------- MODULE SecretStoreProofs ---------------------------
(***************************************************************************)
(* Proofs about SecretStore, for any number of names, values, processes    *)
(* and keys: TypeOK, LossHasCause and DestroysOnlyUnreadable.              *)
(***************************************************************************)
EXTENDS SecretStore, TLAPS

Backend  == {"os", "env", "file"}
Keyless  == {"down", "list", "clean", "generate"}
TwoKeyed == {"write", "rollback"}

Local == [pc     : Keyless \cup {"ready", "corrupted", "read"} \cup TwoKeyed,
          key    : Key \cup {None},
          newKey : Key \cup {None},
          left   : SUBSET Name,
          plain  : [Name -> Value \cup {None}]]

\* The places of a process and what it holds there.
LocalOK(s) ==
  /\ s.key # None <=> s.pc \notin Keyless
  /\ s.newKey # None <=> s.pc \in TwoKeyed
  /\ s.pc \notin TwoKeyed \cup {"read"} => \A n \in Name : s.plain[n] = None
  /\ s.pc \in TwoKeyed => \A n \in s.left : s.plain[n] # None

\* Keys are numbered as they are generated.
Generated(k) == k # None => k <= keys

TypeInv ==
  /\ file \in [Name -> [key : Key, val : Value] \cup {None}]
  /\ keyring \in [Backend -> Key \cup {None}]
  /\ osUp \in BOOLEAN /\ keys \in 0..Keys
  /\ stored \in [Name -> Value \cup {None}]
  /\ proc \in [Process -> Local]
  /\ \A p \in Process : LocalOK(proc[p])

KeysInv ==
  /\ \A b \in Backend : Generated(keyring[b])
  /\ \A n \in Present : file[n].key <= keys
  /\ \A p \in Process : Generated(proc[p].key) /\ Generated(proc[p].newKey)

\* What the next process reads as its master key, when every backend answers.
MasterKey == AnswerWhen(TRUE)

Expected(n) == IF stored[n] = None THEN None ELSE Encrypted(MasterKey, stored[n])

\* The names a rotation has written under its new key, and not restored.
Touched(p) ==
  {n \in Name : \/ proc[p].pc = "write" /\ n \in WasRead(p) \ proc[p].left
                \/ proc[p].pc = "rollback" /\ n \in proc[p].left}

\* A rotation has read, or will have read, every secret as it was stored.
ReadsAll(p) ==
  Rotating(p) =>
    /\ \A n \in WasRead(p) : proc[p].plain[n] = stored[n]
    /\ WasRead(p) \cup (IF proc[p].pc = "read" THEN proc[p].left ELSE {})
         = {n \in Name : stored[n] # None}

\* While nothing has happened that loses a secret: every process has the key of
\* the keyring, and every file is the ciphertext of what was stored last, under
\* that key or under the new key of the one rotation that runs, alone.
Unharmed ==
  /\ MasterKey = None => \A n \in Name : file[n] = None /\ stored[n] = None
  /\ \A p \in Process :
       /\ proc[p].key \in {None, MasterKey} /\ proc[p].pc # "corrupted"
       /\ ReadsAll(p)
       /\ Touched(p) # {} => Others(p) = {}
       /\ \A n \in Touched(p) : file[n] = Encrypted(proc[p].newKey, stored[n])
  /\ \A n \in Name : (\A p \in Process : n \notin Touched(p)) => file[n] = Expected(n)

LossInv == causes = {} => Unharmed

\* What voids the promise of DestroysOnlyUnreadable.
Interference == {"unavailable", "shadowed", "beside", "together", "crossed"}

\* What a process in the middle of an operation may rely on.
Holds(p) ==
  /\ proc[p].key \in {None, MasterKey}
  /\ proc[p].pc = "corrupted" =>
       \A n \in proc[p].left : file[n] # None => file[n].key # proc[p].key
  /\ proc[p].pc \in TwoKeyed => \A b \in Backend : keyring[b] # proc[p].newKey
  /\ proc[p].pc = "read" => Present \subseteq proc[p].left \cup WasRead(p)
  /\ proc[p].pc = "write" =>
       /\ Present \subseteq WasRead(p)
       /\ \A n \in Present \ proc[p].left : file[n].key = proc[p].newKey

\* A file is under the master key or under a key that no backend holds, also
\* when rotations were interrupted, rollbacks failed and the OS keyring was reset.
Undisturbed ==
  /\ \A n \in Present : \/ file[n].key = MasterKey
                        \/ \A b \in Backend : keyring[b] # file[n].key
  /\ \A b, c \in Backend : keyring[b] = keyring[c] => b = c \/ keyring[b] = None
  /\ \A p \in Process : Holds(p)

DestroyInv == causes \cap Interference = {} => Undisturbed

-----------------------------------------------------------------------------
(* Types. *)

\* The states of a process without an operation.
LEMMA DownState ==
  /\ Down \in Local /\ LocalOK(Down)
  /\ Down.pc = "down" /\ Down.key = None /\ Down.newKey = None
  /\ \A n \in Name : Down.plain[n] = None
BY DEF Down, Local, LocalOK, Keyless, TwoKeyed

LEMMA ReadyState ==
  ASSUME NEW k \in Key
  PROVE  /\ Ready(k) \in Local /\ LocalOK(Ready(k))
         /\ Ready(k).pc = "ready" /\ Ready(k).key = k /\ Ready(k).newKey = None
         /\ \A n \in Name : Ready(k).plain[n] = None
BY StoreAssumption DEF Down, Ready, Local, LocalOK, Keyless, TwoKeyed

LEMMA OpeningState ==
  ASSUME NEW pc \in {"list", "generate"}
  PROVE  LET s == [Down EXCEPT !.pc = pc]
         IN  /\ s \in Local /\ LocalOK(s) /\ s.pc = pc /\ s.key = None /\ s.newKey = None
             /\ \A n \in Name : s.plain[n] = None
BY DEF Down, Local, LocalOK, Keyless, TwoKeyed

LEMMA CleaningState ==
  ASSUME NEW left \in SUBSET Name
  PROVE  LET s == [Down EXCEPT !.pc = "clean", !.left = left]
         IN  /\ s \in Local /\ LocalOK(s) /\ s.pc = "clean" /\ s.key = None /\ s.newKey = None
             /\ \A n \in Name : s.plain[n] = None
BY DEF Down, Local, LocalOK, Keyless, TwoKeyed

\* What Goto does to the states of all processes.
LEMMA GotoLocal ==
  ASSUME TypeInv, NEW p \in Process, NEW s \in Local, LocalOK(s), Goto(p, s)
  PROVE  /\ proc' \in [Process -> Local] /\ \A q \in Process : LocalOK(proc'[q])
         /\ proc'[p] = s /\ \A q \in Process \ {p} : proc'[q] = proc[q]
BY DEF TypeInv, Goto

LEMMA InitTypeInv == Init => TypeInv /\ KeysInv
<1> SUFFICES ASSUME Init PROVE TypeInv /\ KeysInv
  OBVIOUS
<1>1. PICK k \in EnvKeys :
        /\ keyring = [b \in Backend |-> IF b = "env" THEN k ELSE None]
        /\ keys = IF k = None THEN 0 ELSE 1
  BY DEF Init, Backend
<1>2. k \in {None, 1} /\ 1 \in Key /\ Keys \in Nat
  BY StoreAssumption DEF Key
<1>3. /\ keyring \in [Backend -> Key \cup {None}] /\ keys \in 0..Keys
      /\ \A b \in Backend : Generated(keyring[b])
  BY <1>1, <1>2 DEF Key, Generated
<1>4. /\ proc \in [Process -> Local]
      /\ \A p \in Process : LocalOK(proc[p]) /\ proc[p].key = None /\ proc[p].newKey = None
  BY DownState DEF Init
<1>5. osUp \in BOOLEAN
  BY StoreAssumption DEF Init
<1>. QED
  BY <1>3, <1>4, <1>5 DEF Init, TypeInv, KeysInv, Generated, Present

-----------------------------------------------------------------------------
(* The steps: what each leaves in the process that takes it, and the types. *)

\* A step of one process leaves the others where they are.
OthersKept(p) == \A q \in Process \ {p} : proc'[q] = proc[q]

Typed == TypeInv /\ KeysInv

\* The state of a process that has no key and no operation.
Idle(s) == s.key = None /\ s.newKey = None /\ \A n \in Name : s.plain[n] = None

LEMMA AnswerIsKey ==
  ASSUME Typed, NEW up \in BOOLEAN
  PROVE  AnswerWhen(up) \in Key \cup {None} /\ Generated(AnswerWhen(up))
BY DEF Typed, TypeInv, KeysInv, AnswerWhen, Backend

LEMMA StartStep ==
  ASSUME Typed, NEW p \in Process, Start(p)
  PROVE  /\ Typed' /\ OthersKept(p)
         /\ \/ Answer # None /\ proc'[p] = Ready(Answer)
            \/ Answer = None /\ proc'[p].pc = "list" /\ Idle(proc'[p])
<1>1. Answer \in Key \cup {None} /\ Generated(Answer)
  BY AnswerIsKey DEF Answer, Typed, TypeInv
<1>2. CASE Answer # None
  <2>1. /\ proc' \in [Process -> Local] /\ \A q \in Process : LocalOK(proc'[q])
        /\ proc'[p] = Ready(Answer) /\ OthersKept(p)
    BY <1>1, <1>2, ReadyState, GotoLocal DEF Start, Open, Typed, OthersKept
  <2>. QED  BY <1>1, <1>2, <2>1, ReadyState DEF Start, Typed, TypeInv, KeysInv, OthersKept, Generated, Present
<1>3. CASE Answer = None
  <2>1. /\ proc' \in [Process -> Local] /\ \A q \in Process : LocalOK(proc'[q])
        /\ proc'[p] = [Down EXCEPT !.pc = "list"] /\ OthersKept(p)
    BY <1>3, OpeningState, GotoLocal DEF Start, Open, Typed, OthersKept
  <2>2. proc'[p].pc = "list" /\ Idle(proc'[p])
    BY <2>1, OpeningState DEF Idle
  <2>. QED  BY <1>3, <2>1, <2>2 DEF Start, Typed, TypeInv, KeysInv, OthersKept, Generated, Present, Idle
<1>. QED  BY <1>2, <1>3

LEMMA CheckOrphansStep ==
  ASSUME Typed, NEW p \in Process, CheckOrphans(p)
  PROVE  /\ Typed' /\ OthersKept(p)
         /\ proc'[p].pc \in {"generate", "clean", "down"} /\ Idle(proc'[p])
<1>1. PICK s \in Local :
        /\ LocalOK(s) /\ Goto(p, s) /\ s.pc \in {"generate", "clean", "down"} /\ Idle(s)
  <2>1. CASE Present = {}
    BY <2>1, OpeningState DEF CheckOrphans, Idle
  <2>2. CASE Present # {} /\ p \in Cleaner
    BY <2>2, CleaningState DEF CheckOrphans, Idle, Present
  <2>3. CASE Present # {} /\ p \notin Cleaner
    BY <2>3, DownState DEF CheckOrphans, Idle
  <2>. QED  BY <2>1, <2>2, <2>3
<1>2. /\ proc' \in [Process -> Local] /\ \A q \in Process : LocalOK(proc'[q])
      /\ proc'[p] = s /\ OthersKept(p)
  BY <1>1, GotoLocal DEF Typed, OthersKept
<1>. QED  BY <1>1, <1>2 DEF CheckOrphans, Typed, TypeInv, KeysInv, OthersKept, Generated, Present, Idle

LEMMA DeleteOrphanStep ==
  ASSUME Typed, NEW p \in Process, DeleteOrphan(p)
  PROVE  /\ Typed' /\ OthersKept(p)
         /\ proc'[p].pc \in {"generate", "clean"} /\ Idle(proc'[p])
         /\ \A n \in Name : file'[n] \in {file[n], None}
<1>1. PICK n \in proc[p].left :
        /\ file' = [file EXCEPT ![n] = None]
        /\ Goto(p, [proc[p] EXCEPT !.left = @ \ {n},
                                   !.pc = IF proc[p].left = {n} THEN "generate" ELSE @])
  BY DEF DeleteOrphan
<1>2. proc[p].pc = "clean" /\ proc[p] \in Local /\ LocalOK(proc[p]) /\ Idle(proc[p]) /\ n \in Name
  BY DEF DeleteOrphan, Typed, TypeInv, LocalOK, Idle, Keyless, TwoKeyed, Local
<1>. DEFINE s == [proc[p] EXCEPT !.left = @ \ {n},
                                 !.pc = IF proc[p].left = {n} THEN "generate" ELSE @]
<1>3. s \in Local /\ LocalOK(s) /\ Goto(p, s) /\ s.pc \in {"generate", "clean"} /\ Idle(s)
  BY <1>1, <1>2 DEF Local, LocalOK, Keyless, TwoKeyed, Idle
<1>4. /\ proc' \in [Process -> Local] /\ \A q \in Process : LocalOK(proc'[q])
      /\ proc'[p] = s /\ OthersKept(p)
  BY <1>3, GotoLocal DEF Typed, OthersKept
<1>5. /\ file' \in [Name -> [key : Key, val : Value] \cup {None}]
      /\ \A m \in Name : file'[m] \in {file[m], None}
  BY <1>1, <1>2 DEF Typed, TypeInv
<1>. QED
  BY <1>3, <1>4, <1>5 DEF DeleteOrphan, Typed, TypeInv, KeysInv, OthersKept, Generated, Present, Idle

\* A process keeps its key from one step of an operation to the next.
Keeps(p) == proc'[p].key = proc[p].key /\ proc[p].key \in Key

LEMMA CreateKeyStep ==
  ASSUME Typed, NEW p \in Process, CreateKey(p)
  PROVE  /\ Typed' /\ OthersKept(p) /\ keys + 1 \in Key /\ keys' = keys + 1
         /\ \/ keyring' = Keep(keys + 1) /\ proc'[p] = Ready(keys + 1)
            \/ keyring' = keyring /\ proc'[p] = Down
<1>1. keys + 1 \in Key /\ keys' = keys + 1 /\ keys \in Nat /\ keys' \in 0..Keys
  BY StoreAssumption DEF CreateKey, Typed, TypeInv, Key
<1>2. ASSUME NEW k \in Backend
      PROVE  keyring[k] \in Key => keyring[k] <= keys
  BY StoreAssumption DEF Typed, KeysInv, Generated
<1>3. CASE keyring' = Keep(keys + 1) /\ Goto(p, Ready(keys + 1))
  <2>1. /\ proc' \in [Process -> Local] /\ \A q \in Process : LocalOK(proc'[q])
        /\ proc'[p] = Ready(keys + 1) /\ OthersKept(p)
    BY <1>1, <1>3, ReadyState, GotoLocal DEF Typed, OthersKept
  <2>2. proc'[p].key = keys + 1 /\ proc'[p].newKey = None
    BY <1>1, <2>1, ReadyState
  <2>3. /\ keyring' \in [Backend -> Key \cup {None}]
        /\ \A b \in Backend : Generated(keyring[b])' 
    BY <1>1, <1>2, <1>3 DEF Keep, Writable, Backend, Typed, TypeInv, Generated, Key
  <2>4. TypeInv'
    BY <1>1, <2>1, <2>3 DEF CreateKey, Typed, TypeInv
  <2>5. KeysInv'
    BY <1>1, <2>1, <2>2, <2>3
    DEF CreateKey, Typed, TypeInv, KeysInv, OthersKept, Generated, Present, Key, Local
  <2>. QED  BY <1>1, <1>3, <2>1, <2>4, <2>5 DEF Typed
<1>4. CASE keyring' = keyring /\ Goto(p, Down)
  <2>1. /\ proc' \in [Process -> Local] /\ \A q \in Process : LocalOK(proc'[q])
        /\ proc'[p] = Down /\ OthersKept(p)
    BY <1>4, DownState, GotoLocal DEF Typed, OthersKept
  <2>2. TypeInv'
    BY <1>1, <1>4, <2>1 DEF CreateKey, Typed, TypeInv
  <2>3. KeysInv'
    <3>1. \A k \in Key \cup {None} : Generated(k) => k = None \/ k <= keys + 1
      BY <1>1 DEF Generated, Key
    <3>2. \A n \in Present : file[n].key <= keys + 1
      BY <1>1 DEF Typed, TypeInv, KeysInv, Present, Key
    <3>3. \A b \in Backend : keyring'[b] = None \/ keyring'[b] <= keys + 1
      BY <1>4, <3>1 DEF Typed, TypeInv, KeysInv
    <3>4. \A q \in Process : /\ proc'[q].key = None \/ proc'[q].key <= keys + 1
                             /\ proc'[q].newKey = None \/ proc'[q].newKey <= keys + 1
      BY <2>1, <3>1, DownState DEF OthersKept, Typed, TypeInv, KeysInv, Local
    <3>. QED  BY <1>1, <3>2, <3>3, <3>4 DEF CreateKey, KeysInv, Present, Generated
  <2>. QED  BY <1>1, <1>4, <2>1, <2>2, <2>3 DEF Typed
<1>. QED  BY <1>3, <1>4 DEF CreateKey

LEMMA GetFailsStep ==
  ASSUME Typed, NEW p \in Process, GetFails(p)
  PROVE  /\ Typed' /\ OthersKept(p) /\ Keeps(p) /\ proc'[p].pc = "corrupted"
         /\ \E n \in Present : Undecryptable(p, n) /\ proc'[p].left = {n}
<1>1. PICK n \in Present : /\ Undecryptable(p, n)
                           /\ Goto(p, [proc[p] EXCEPT !.pc = "corrupted", !.left = {n}])
  BY DEF GetFails
<1>. DEFINE s == [proc[p] EXCEPT !.pc = "corrupted", !.left = {n}]
<1>2. /\ s \in Local /\ LocalOK(s) /\ s.pc = "corrupted" /\ s.left = {n}
      /\ s.key = proc[p].key /\ s.key \in Key /\ s.newKey = None
  BY DEF GetFails, Typed, TypeInv, Local, LocalOK, Keyless, TwoKeyed, Present
<1>3. /\ proc' \in [Process -> Local] /\ \A q \in Process : LocalOK(proc'[q])
      /\ proc'[p] = s /\ OthersKept(p)
  BY <1>1, <1>2, GotoLocal DEF Typed, OthersKept
<1>. HIDE DEF s
<1>. QED  BY <1>1, <1>2, <1>3
          DEF GetFails, Typed, TypeInv, KeysInv, OthersKept, Generated, Present, Keeps

LEMMA DeleteCorruptedStep ==
  ASSUME Typed, NEW p \in Process, DeleteCorrupted(p)
  PROVE  /\ Typed' /\ OthersKept(p) /\ proc[p].key \in Key /\ proc'[p] = Ready(proc[p].key)
         /\ \A n \in Name : file'[n] = IF n \in proc[p].left THEN None ELSE file[n]
<1>1. proc[p].key \in Key
  BY DEF DeleteCorrupted, Typed, TypeInv, Local, LocalOK, Keyless
<1>2. /\ proc' \in [Process -> Local] /\ \A q \in Process : LocalOK(proc'[q])
      /\ proc'[p] = Ready(proc[p].key) /\ OthersKept(p)
  BY <1>1, ReadyState, GotoLocal DEF DeleteCorrupted, Typed, OthersKept
<1>3. proc'[p].key = proc[p].key /\ proc'[p].newKey = None
  BY <1>1, <1>2, ReadyState
<1>. QED  BY <1>1, <1>2, <1>3
          DEF DeleteCorrupted, Typed, TypeInv, KeysInv, OthersKept, Generated, Present

LEMMA SetStep ==
  ASSUME Typed, NEW p \in Process, NEW n \in Name, NEW v \in Value, Set(p, n, v)
  PROVE  /\ Typed' /\ proc[p].key \in Key /\ Encrypted(proc[p].key, v) # None
         /\ Encrypted(proc[p].key, v) \in [key : Key, val : Value]
         /\ \A m \in Name : /\ file'[m] = IF m = n THEN Encrypted(proc[p].key, v) ELSE file[m]
                            /\ stored'[m] = IF m = n THEN v ELSE stored[m]
<1>1. proc[p].key \in Key
  BY DEF Set, Typed, TypeInv, Local, LocalOK, Keyless
<1>2. Encrypted(proc[p].key, v) \in [key : Key, val : Value]
  BY <1>1 DEF Encrypted
<1>. QED
  BY <1>1, <1>2, StoreAssumption DEF Set, Typed, TypeInv, KeysInv, Present, Generated, Encrypted

LEMMA DeleteStep ==
  ASSUME Typed, NEW p \in Process, NEW n \in Name, Delete(p, n)
  PROVE  /\ Typed'
         /\ \A m \in Name : /\ file'[m] = IF m = n THEN None ELSE file[m]
                            /\ stored'[m] = IF m = n THEN None ELSE stored[m]
BY DEF Delete, Typed, TypeInv, KeysInv, Present, Generated

LEMMA StartRotateStep ==
  ASSUME Typed, NEW p \in Process, StartRotate(p)
  PROVE  /\ Typed' /\ OthersKept(p) /\ Keeps(p) /\ proc'[p].pc = "read"
         /\ proc'[p].left = Present /\ \A n \in Name : proc'[p].plain[n] = None
<1>. DEFINE s == [proc[p] EXCEPT !.pc = "read", !.left = Present]
<1>1. /\ s \in Local /\ LocalOK(s) /\ s.pc = "read" /\ s.left = Present
      /\ s.key = proc[p].key /\ s.key \in Key /\ s.newKey = None
      /\ \A n \in Name : s.plain[n] = None
  BY DEF StartRotate, Typed, TypeInv, Local, LocalOK, Keyless, TwoKeyed, Present
<1>2. /\ proc' \in [Process -> Local] /\ \A q \in Process : LocalOK(proc'[q])
      /\ proc'[p] = s /\ OthersKept(p)
  BY <1>1, GotoLocal DEF StartRotate, Typed, OthersKept
<1>. HIDE DEF s
<1>. QED  BY <1>1, <1>2
          DEF StartRotate, Typed, TypeInv, KeysInv, OthersKept, Generated, Present, Keeps

LEMMA ReadOneStep ==
  ASSUME Typed, NEW p \in Process, ReadOne(p)
  PROVE  /\ Typed' /\ OthersKept(p) /\ proc[p].key \in Key
         /\ \E n \in proc[p].left :
              \/ proc'[p] = Ready(proc[p].key)
              \/ /\ file[n] # None /\ ~Undecryptable(p, n) /\ Keeps(p)
                 /\ proc'[p].pc = "read" /\ proc'[p].left = proc[p].left \ {n}
                 /\ \A m \in Name :
                      proc'[p].plain[m] = IF m = n THEN file[n].val ELSE proc[p].plain[m]
<1>1. /\ proc[p].key \in Key /\ proc[p].pc = "read" /\ proc[p].left \subseteq Name
      /\ proc[p].newKey = None
  BY DEF ReadOne, Typed, TypeInv, Local, LocalOK, Keyless, TwoKeyed
<1>2. PICK n \in proc[p].left :
        IF file[n] = None \/ (file[n] # None /\ Undecryptable(p, n))
        THEN Goto(p, Ready(proc[p].key))
        ELSE Goto(p, [proc[p] EXCEPT !.left = @ \ {n}, !.plain[n] = file[n].val])
  BY DEF ReadOne
<1>3. CASE Goto(p, Ready(proc[p].key))
  <2>1. /\ proc' \in [Process -> Local] /\ \A q \in Process : LocalOK(proc'[q])
        /\ proc'[p] = Ready(proc[p].key) /\ OthersKept(p)
    BY <1>1, <1>3, ReadyState, GotoLocal DEF Typed, OthersKept
  <2>2. proc'[p].key = proc[p].key /\ proc'[p].newKey = None
    BY <1>1, <2>1, ReadyState
  <2>. QED  BY <1>1, <1>2, <2>1, <2>2
            DEF ReadOne, Typed, TypeInv, KeysInv, OthersKept, Generated, Present
<1>4. CASE /\ file[n] # None /\ ~Undecryptable(p, n)
           /\ Goto(p, [proc[p] EXCEPT !.left = @ \ {n}, !.plain[n] = file[n].val])
  <2>. DEFINE s == [proc[p] EXCEPT !.left = @ \ {n}, !.plain[n] = file[n].val]
  <2>1. file[n].val \in Value
    BY <1>1, <1>4 DEF Typed, TypeInv
  <2>2. /\ s \in Local /\ LocalOK(s) /\ s.pc = "read" /\ s.left = proc[p].left \ {n}
        /\ s.key = proc[p].key /\ s.newKey = None
        /\ \A m \in Name : s.plain[m] = IF m = n THEN file[n].val ELSE proc[p].plain[m]
    <3>1. proc[p] \in Local /\ LocalOK(proc[p]) /\ proc[p].plain \in [Name -> Value \cup {None}]
      BY DEF Typed, TypeInv, Local
    <3>2. /\ s.plain = [proc[p].plain EXCEPT ![n] = file[n].val]
          /\ s.plain \in [Name -> Value \cup {None}]
          /\ \A m \in Name : s.plain[m] = IF m = n THEN file[n].val ELSE proc[p].plain[m]
      BY <1>1, <2>1, <3>1 DEF Local
    <3>3. /\ s.pc = "read" /\ s.left = proc[p].left \ {n}
          /\ s.key = proc[p].key /\ s.newKey = None
      BY <1>1, <3>1 DEF Local
    <3>4. s \in Local
      BY <1>1, <2>1, <3>1, <3>2 DEF Local
    <3>. HIDE DEF s
    <3>5. LocalOK(s)
      BY <1>1, <3>1, <3>3 DEF LocalOK, Keyless, TwoKeyed
    <3>. QED  BY <3>2, <3>3, <3>4, <3>5
  <2>3. /\ proc' \in [Process -> Local] /\ \A q \in Process : LocalOK(proc'[q])
        /\ proc'[p] = s /\ OthersKept(p)
    BY <1>4, <2>2, GotoLocal DEF Typed, OthersKept
  <2>. HIDE DEF s
  <2>. QED  BY <1>1, <1>4, <2>2, <2>3
            DEF ReadOne, Typed, TypeInv, KeysInv, OthersKept, Generated, Present, Keeps
<1>. QED  BY <1>2, <1>3, <1>4

LEMMA NewKeyStep ==
  ASSUME Typed, NEW p \in Process, NewKey(p)
  PROVE  /\ Typed' /\ OthersKept(p) /\ Keeps(p) /\ proc'[p].pc = "write"
         /\ proc'[p].left = WasRead(p) /\ proc'[p].plain = proc[p].plain
         /\ proc'[p].newKey = keys + 1 /\ keys + 1 \in Key
<1>1. keys + 1 \in Key /\ keys' = keys + 1 /\ keys \in Nat /\ keys' \in 0..Keys
  BY StoreAssumption DEF NewKey, Typed, TypeInv, Key
<1>. DEFINE s == [proc[p] EXCEPT !.pc = "write", !.newKey = keys + 1, !.left = WasRead(p)]
<1>2. /\ s \in Local /\ LocalOK(s) /\ s.pc = "write" /\ s.left = WasRead(p)
      /\ s.key = proc[p].key /\ s.key \in Key /\ s.newKey = keys + 1 /\ s.plain = proc[p].plain
  <2>1. proc[p] \in Local /\ LocalOK(proc[p]) /\ WasRead(p) \subseteq Name
    BY DEF Typed, TypeInv, WasRead
  <2>2. proc[p].pc = "read" /\ proc[p].key \in Key
    BY <2>1 DEF NewKey, Local, LocalOK, Keyless
  <2>3. /\ s \in Local /\ s.pc = "write" /\ s.left = WasRead(p)
        /\ s.key = proc[p].key /\ s.newKey = keys + 1 /\ s.plain = proc[p].plain
    BY <1>1, <2>1, <2>2 DEF Local, TwoKeyed
  <2>4. keys + 1 # None
    BY <1>1, StoreAssumption
  <2>. HIDE DEF s
  <2>5. LocalOK(s)
    BY <2>1, <2>2, <2>3, <2>4 DEF LocalOK, Keyless, TwoKeyed, WasRead
  <2>. QED  BY <2>2, <2>3, <2>5
<1>3. /\ proc' \in [Process -> Local] /\ \A q \in Process : LocalOK(proc'[q])
      /\ proc'[p] = s /\ OthersKept(p)
  BY <1>2, GotoLocal DEF NewKey, Typed, OthersKept
<1>. HIDE DEF s
<1>4. TypeInv'
  BY <1>1, <1>3 DEF NewKey, Typed, TypeInv
<1>5. KeysInv'
  <2>1. \A k \in Key \cup {None} : Generated(k) => k = None \/ k <= keys + 1
    BY <1>1 DEF Generated, Key
  <2>2. \A n \in Present : file[n].key <= keys + 1
    BY <1>1 DEF Typed, TypeInv, KeysInv, Present, Key
  <2>3. \A b \in Backend : keyring[b] = None \/ keyring[b] <= keys + 1
    BY <2>1 DEF Typed, TypeInv, KeysInv
  <2>4. \A q \in Process : /\ proc'[q].key = None \/ proc'[q].key <= keys + 1
                           /\ proc'[q].newKey = None \/ proc'[q].newKey <= keys + 1
    <3>1. \A q \in Process : /\ proc[q].key = None \/ proc[q].key <= keys + 1
                             /\ proc[q].newKey = None \/ proc[q].newKey <= keys + 1
      BY <2>1 DEF Typed, TypeInv, KeysInv, Local
    <3>. QED  BY <1>1, <1>2, <1>3, <3>1 DEF OthersKept
  <2>. QED  BY <1>1, <2>2, <2>3, <2>4 DEF NewKey, KeysInv, Present, Generated
<1>. QED  BY <1>1, <1>2, <1>3, <1>4, <1>5 DEF Typed, Keeps

\* Where the process of a rotation stands when it has a new key.
LEMMA TwoKeys ==
  ASSUME Typed, NEW p \in Process, proc[p].pc \in TwoKeyed
  PROVE  /\ proc[p] \in Local /\ LocalOK(proc[p])
         /\ proc[p].key \in Key /\ proc[p].newKey \in Key
         /\ proc[p].left \subseteq WasRead(p) /\ WasRead(p) \subseteq Name
         /\ \A n \in WasRead(p) : proc[p].plain[n] \in Value
         /\ Generated(proc[p].key) /\ Generated(proc[p].newKey)
<1>1. proc[p] \in Local /\ LocalOK(proc[p])
  BY DEF Typed, TypeInv
<1>. QED  BY <1>1 DEF Typed, KeysInv, Local, LocalOK, Keyless, TwoKeyed, WasRead

\* What a rotation that goes on keeps: its keys and what it has read.
Continues(p) ==
  /\ OthersKept(p) /\ Keeps(p) /\ proc'[p].newKey = proc[p].newKey
  /\ proc'[p].plain = proc[p].plain /\ proc'[p].pc \in TwoKeyed

\* A rotation that goes on with its keys and what it has read.
LEMMA GoesOn ==
  ASSUME Typed, NEW p \in Process, proc[p].pc \in TwoKeyed, NEW s \in Local, Goto(p, s),
         s.pc \in TwoKeyed, s.left \subseteq WasRead(p), s.key = proc[p].key,
         s.newKey = proc[p].newKey, s.plain = proc[p].plain
  PROVE  /\ proc' \in [Process -> Local] /\ \A q \in Process : LocalOK(proc'[q])
         /\ Continues(p) /\ proc'[p] = s
<1>1. LocalOK(s)
  BY TwoKeys DEF LocalOK, Keyless, TwoKeyed, WasRead
<1>. QED  BY <1>1, TwoKeys, GotoLocal DEF Typed, OthersKept, Keeps, Continues

LEMMA WriteOneStep ==
  ASSUME Typed, NEW p \in Process, WriteOne(p)
  PROVE  /\ Typed' /\ Continues(p)
         /\ \E n \in proc[p].left :
              \/ /\ file' = [file EXCEPT ![n] = Encrypted(proc[p].newKey, proc[p].plain[n])]
                 /\ Encrypted(proc[p].newKey, proc[p].plain[n]) # None
                 /\ proc'[p].pc = "write" /\ proc'[p].left = proc[p].left \ {n}
                 /\ Blame("beside", Others(p) # {})
              \/ /\ file' = file /\ causes' = causes
                 /\ proc'[p].pc = "rollback" /\ proc'[p].left = WasRead(p) \ proc[p].left
<1>1. proc[p].pc = "write" /\ proc[p].pc \in TwoKeyed
  BY DEF WriteOne, TwoKeyed
<1>2. PICK n \in proc[p].left :
       \/ /\ file' = [file EXCEPT ![n] = Encrypted(proc[p].newKey, proc[p].plain[n])]
          /\ Goto(p, [proc[p] EXCEPT !.left = @ \ {n}])
          /\ Blame("beside", Others(p) # {})
       \/ /\ Goto(p, [proc[p] EXCEPT !.pc = "rollback", !.left = WasRead(p) \ @])
          /\ UNCHANGED <<file, causes>>
  BY DEF WriteOne
<1>3. CASE /\ file' = [file EXCEPT ![n] = Encrypted(proc[p].newKey, proc[p].plain[n])]
           /\ Goto(p, [proc[p] EXCEPT !.left = @ \ {n}])
           /\ Blame("beside", Others(p) # {})
  <2>. DEFINE s == [proc[p] EXCEPT !.left = @ \ {n}]
  <2>1. /\ s \in Local /\ s.pc = "write" /\ s.left = proc[p].left \ {n} /\ Goto(p, s)
        /\ s.key = proc[p].key /\ s.newKey = proc[p].newKey /\ s.plain = proc[p].plain
    BY <1>1, <1>3, TwoKeys DEF Local
  <2>. HIDE DEF s
  <2>2. Encrypted(proc[p].newKey, proc[p].plain[n]) \in [key : Key, val : Value]
    BY <1>1, TwoKeys DEF Encrypted
  <2>3. /\ proc' \in [Process -> Local] /\ \A q \in Process : LocalOK(proc'[q])
        /\ Continues(p) /\ proc'[p].pc = "write" /\ proc'[p].left = proc[p].left \ {n}
    <3>1. s.pc \in TwoKeyed /\ s.left \subseteq WasRead(p)
      BY <1>1, <2>1, TwoKeys DEF TwoKeyed
    <3>. QED  BY <1>1, <2>1, <3>1, GoesOn
  <2>4. TypeInv'
    BY <1>3, <2>2, <2>3 DEF WriteOne, Typed, TypeInv
  <2>5. KeysInv'
    BY <1>1, <1>3, <2>3, TwoKeys, StoreAssumption
    DEF WriteOne, Typed, TypeInv, KeysInv, Continues, OthersKept, Keeps, Generated, Present,
        Encrypted
  <2>. QED  BY <1>3, <2>2, <2>3, <2>4, <2>5, StoreAssumption DEF Typed
<1>4. CASE /\ Goto(p, [proc[p] EXCEPT !.pc = "rollback", !.left = WasRead(p) \ @])
           /\ UNCHANGED <<file, causes>>
  <2>. DEFINE s == [proc[p] EXCEPT !.pc = "rollback", !.left = WasRead(p) \ @]
  <2>1. /\ s \in Local /\ s.pc = "rollback" /\ s.left = WasRead(p) \ proc[p].left /\ Goto(p, s)
        /\ s.key = proc[p].key /\ s.newKey = proc[p].newKey /\ s.plain = proc[p].plain
    <3>1. proc[p] \in Local /\ WasRead(p) \ proc[p].left \in SUBSET Name
      BY <1>1, TwoKeys
    <3>2. s \in Local /\ s.pc = "rollback" /\ s.left = WasRead(p) \ proc[p].left
      BY <3>1 DEF Local, TwoKeyed
    <3>3. s.key = proc[p].key /\ s.newKey = proc[p].newKey /\ s.plain = proc[p].plain
      BY <3>1 DEF Local
    <3>. QED  BY <1>4, <3>2, <3>3
  <2>. HIDE DEF s
  <2>2. /\ proc' \in [Process -> Local] /\ \A q \in Process : LocalOK(proc'[q])
        /\ Continues(p) /\ proc'[p].pc = "rollback" /\ proc'[p].left = WasRead(p) \ proc[p].left
    <3>1. s.pc \in TwoKeyed /\ s.left \subseteq WasRead(p)
      BY <2>1 DEF TwoKeyed
    <3>. QED  BY <1>1, <2>1, <3>1, GoesOn
  <2>3. Typed'
    BY <1>1, <1>4, <2>2, TwoKeys
    DEF WriteOne, Typed, TypeInv, KeysInv, Continues, OthersKept, Keeps, Generated, Present
  <2>. QED  BY <1>4, <2>2, <2>3
<1>. QED  BY <1>2, <1>3, <1>4

LEMMA RollbackOneStep ==
  ASSUME Typed, NEW p \in Process, RollbackOne(p)
  PROVE  /\ Typed' /\ OthersKept(p)
         /\ \/ \E n \in proc[p].left :
                 /\ Continues(p)
                 /\ proc'[p].pc = "rollback" /\ proc'[p].left = proc[p].left \ {n}
                 /\ \/ /\ file' = [file EXCEPT ![n] = Restored(p, n)] /\ Restored(p, n) # None
                       /\ Blame("beside", Others(p) # {})
                    \/ Blame("rollback", TRUE) /\ file' = file
            \/ /\ proc[p].left = {} /\ proc'[p] = Ready(proc[p].key) /\ proc[p].key \in Key
               /\ UNCHANGED <<file, causes>>
<1>1. proc[p].pc = "rollback" /\ proc[p].pc \in TwoKeyed
  BY DEF RollbackOne, TwoKeyed
<1>2. ASSUME NEW n \in proc[p].left,
             \/ /\ file' = [file EXCEPT ![n] = Restored(p, n)]
                /\ Blame("beside", Others(p) # {})
             \/ Blame("rollback", TRUE) /\ UNCHANGED file,
             Goto(p, [proc[p] EXCEPT !.left = @ \ {n}])
      PROVE  /\ Typed' /\ Continues(p) /\ Restored(p, n) # None
             /\ proc'[p].pc = "rollback" /\ proc'[p].left = proc[p].left \ {n}
  <2>. DEFINE s == [proc[p] EXCEPT !.left = @ \ {n}]
  <2>1. /\ s \in Local /\ s.pc = "rollback" /\ s.left = proc[p].left \ {n} /\ Goto(p, s)
        /\ s.key = proc[p].key /\ s.newKey = proc[p].newKey /\ s.plain = proc[p].plain
    BY <1>1, <1>2, TwoKeys DEF Local
  <2>. HIDE DEF s
  <2>2. Restored(p, n) \in [key : Key, val : Value]
    BY <1>1, TwoKeys DEF Restored, Encrypted
  <2>3. /\ proc' \in [Process -> Local] /\ \A q \in Process : LocalOK(proc'[q])
        /\ Continues(p) /\ proc'[p].pc = "rollback" /\ proc'[p].left = proc[p].left \ {n}
    <3>1. s.pc \in TwoKeyed /\ s.left \subseteq WasRead(p)
      BY <1>1, <2>1, TwoKeys DEF TwoKeyed
    <3>. QED  BY <1>1, <2>1, <3>1, GoesOn
  <2>4. TypeInv'
    BY <1>2, <2>2, <2>3 DEF RollbackOne, Typed, TypeInv
  <2>5. KeysInv'
    <3>1. /\ keys' = keys /\ keyring' = keyring
          /\ \A q \in Process : Generated(proc'[q].key) /\ Generated(proc'[q].newKey)
      BY <1>1, <2>3, TwoKeys
      DEF RollbackOne, Typed, KeysInv, Continues, OthersKept, Keeps, Generated
    <3>2. Restored(p, n).key <= keys
      BY <1>1, TwoKeys, StoreAssumption DEF Restored, Encrypted, Generated
    <3>3. \A m \in Name : file'[m] # None => file'[m].key <= keys
      BY <1>2, <3>2 DEF Typed, TypeInv, KeysInv, Present
    <3>. QED  BY <3>1, <3>3 DEF Typed, KeysInv, Generated, Present
  <2>. QED  BY <2>2, <2>3, <2>4, <2>5, StoreAssumption DEF Typed
<1>3. ASSUME proc[p].left = {}, Goto(p, AfterRollback(p)), UNCHANGED <<file, causes>>
      PROVE  /\ Typed' /\ OthersKept(p) /\ proc[p].key \in Key /\ proc'[p] = Ready(proc[p].key)
  <2>1. /\ proc' \in [Process -> Local] /\ \A q \in Process : LocalOK(proc'[q])
        /\ proc'[p] = Ready(proc[p].key) /\ OthersKept(p)
    BY <1>1, <1>3, TwoKeys, ReadyState, GotoLocal DEF AfterRollback, Typed, OthersKept
  <2>2. proc'[p].key = proc[p].key /\ proc'[p].newKey = None
    BY <1>1, <2>1, TwoKeys, ReadyState
  <2>. QED  BY <1>1, <1>3, <2>1, <2>2, TwoKeys
            DEF RollbackOne, Typed, TypeInv, KeysInv, OthersKept, Generated, Present
<1>4. CASE \E n \in proc[p].left :
             /\ \/ /\ file' = [file EXCEPT ![n] = Restored(p, n)]
                   /\ Blame("beside", Others(p) # {})
                \/ Blame("rollback", TRUE) /\ UNCHANGED file
             /\ Goto(p, [proc[p] EXCEPT !.left = @ \ {n}])
  BY <1>2, <1>4 DEF Continues
<1>. QED  BY <1>3, <1>4 DEF RollbackOne

LEMMA SetKeyStep ==
  ASSUME Typed, NEW p \in Process, SetKey(p)
  PROVE  /\ Typed' /\ OthersKept(p) /\ proc[p].left = {}
         /\ \/ /\ keyring' = Keep(proc[p].newKey) /\ proc'[p] = Ready(proc[p].newKey)
               /\ proc[p].newKey \in Key
               /\ BlameAll([beside |-> Others(p) # {}, shadowed |-> Shadows(proc[p].newKey)])
            \/ /\ keyring' = keyring /\ causes' = causes /\ Continues(p)
               /\ proc'[p].pc = "rollback" /\ proc'[p].left = WasRead(p)
<1>1. proc[p].pc \in TwoKeyed /\ proc[p].left = {}
  BY DEF SetKey, TwoKeyed
<1>2. CASE /\ keyring' = Keep(proc[p].newKey)
           /\ Goto(p, Ready(proc[p].newKey))
           /\ BlameAll([beside |-> Others(p) # {}, shadowed |-> Shadows(proc[p].newKey)])
  <2>1. /\ proc' \in [Process -> Local] /\ \A q \in Process : LocalOK(proc'[q])
        /\ proc'[p] = Ready(proc[p].newKey) /\ OthersKept(p) /\ proc[p].newKey \in Key
    BY <1>1, <1>2, TwoKeys, ReadyState, GotoLocal DEF Typed, OthersKept
  <2>2. proc'[p].key = proc[p].newKey /\ proc'[p].newKey = None
    BY <2>1, ReadyState
  <2>3. /\ keyring' \in [Backend -> Key \cup {None}]
        /\ \A b \in Backend : keyring'[b] \in {keyring[b], proc[p].newKey}
    BY <1>2, <2>1 DEF Keep, Writable, Backend, Typed, TypeInv
  <2>4. TypeInv'
    BY <2>1, <2>3 DEF SetKey, Typed, TypeInv
  <2>5. KeysInv'
    BY <1>1, <2>1, <2>2, <2>3, TwoKeys
    DEF SetKey, Typed, KeysInv, OthersKept, Generated, Present
  <2>. QED  BY <1>1, <1>2, <2>1, <2>4, <2>5 DEF Typed
<1>3. CASE /\ Goto(p, [proc[p] EXCEPT !.pc = "rollback", !.left = WasRead(p)])
           /\ UNCHANGED <<keyring, causes>>
  <2>. DEFINE s == [proc[p] EXCEPT !.pc = "rollback", !.left = WasRead(p)]
  <2>1. proc[p] \in Local /\ WasRead(p) \in SUBSET Name
    BY <1>1, TwoKeys
  <2>2. s \in Local /\ s.pc = "rollback" /\ s.left = WasRead(p) /\ Goto(p, s)
    BY <1>3, <2>1 DEF Local, TwoKeyed
  <2>3. s.key = proc[p].key /\ s.newKey = proc[p].newKey /\ s.plain = proc[p].plain
    BY <2>1 DEF Local
  <2>. HIDE DEF s
  <2>4. /\ proc' \in [Process -> Local] /\ \A q \in Process : LocalOK(proc'[q])
        /\ Continues(p) /\ proc'[p] = s
    <3>1. s.pc \in TwoKeyed /\ s.left \subseteq WasRead(p)
      BY <2>2 DEF TwoKeyed
    <3>. QED  BY <1>1, <2>2, <2>3, <3>1, GoesOn
  <2>5. Typed'
    BY <1>1, <1>3, <2>4, TwoKeys
    DEF SetKey, Typed, TypeInv, KeysInv, Continues, OthersKept, Keeps, Generated, Present
  <2>. QED  BY <1>1, <1>3, <2>2, <2>4, <2>5 DEF Continues
<1>. QED  BY <1>2, <1>3 DEF SetKey

LEMMA EndStep ==
  ASSUME Typed, NEW p \in Process, End(p)
  PROVE  Typed' /\ OthersKept(p) /\ proc'[p] = Down
<1>1. /\ proc' \in [Process -> Local] /\ \A q \in Process : LocalOK(proc'[q])
      /\ proc'[p] = Down /\ OthersKept(p)
  BY DownState, GotoLocal DEF End, Typed, OthersKept
<1>. QED  BY <1>1, DownState
          DEF End, Typed, TypeInv, KeysInv, OthersKept, Generated, Present

LEMMA OsStep ==
  ASSUME Typed, ToggleOs \/ ResetOs
  PROVE  Typed'
BY DEF ToggleOs, ResetOs, Typed, TypeInv, KeysInv, Generated, Present, Backend

LEMMA NextTyped == Typed /\ [Next]_vars => Typed'
<1> SUFFICES ASSUME Typed, [Next]_vars PROVE Typed'
  OBVIOUS
<1>1. CASE UNCHANGED vars
  BY <1>1 DEF vars, Typed, TypeInv, KeysInv, Generated, Present
<1>2. CASE ToggleOs \/ ResetOs
  BY <1>2, OsStep
<1>3. CASE \E p \in Process :
             \/ Start(p) \/ CheckOrphans(p) \/ DeleteOrphan(p) \/ CreateKey(p)
             \/ GetFails(p) \/ DeleteCorrupted(p)
             \/ \E n \in Name : Delete(p, n) \/ \E v \in Value : Set(p, n, v)
             \/ Rotate(p) \/ End(p)
  BY <1>3, StartStep, CheckOrphansStep, DeleteOrphanStep, CreateKeyStep, GetFailsStep,
     DeleteCorruptedStep, DeleteStep, SetStep, StartRotateStep, ReadOneStep, NewKeyStep,
     WriteOneStep, SetKeyStep, RollbackOneStep, EndStep DEF Rotate
<1>. QED  BY <1>1, <1>2, <1>3 DEF Next

LEMMA TypedImplies == Typed => TypeOK
<1> SUFFICES ASSUME Typed PROVE TypeOK
  OBVIOUS
<1>1. \A p \in Process : proc[p] \in Local /\ LocalOK(proc[p])
  BY DEF Typed, TypeInv
<1>. QED  BY <1>1, StoreAssumption DEF Typed, TypeInv, TypeOK, Local, LocalOK, Keyless, TwoKeyed,
              Backend

\* Every process holds the keys its place calls for, and files, keyring and
\* processes hold only keys that were generated.
THEOREM TypeCorrect == Spec => []TypeOK
BY InitTypeInv, NextTyped, TypedImplies, PTL DEF Spec, Typed

-----------------------------------------------------------------------------
(* No secret is lost without a cause. *)

LEMMA CausesGrow == [Next]_vars => causes \subseteq causes'
BY DEF Next, vars, Start, CheckOrphans, DeleteOrphan, CreateKey, GetFails, DeleteCorrupted,
       Delete, Set, Rotate, StartRotate, ReadOne, NewKey, WriteOne, SetKey, RollbackOne, End,
       ToggleOs, ResetOs, Blame, BlameAll

\* A key that was just generated is in no backend.
LEMMA FreshKey ==
  ASSUME Typed, keys + 1 \in Key
  PROVE  /\ keyring # Keep(keys + 1) /\ keys + 1 # None
         /\ \A b \in Backend : keyring[b] # keys + 1
         /\ \A n \in Present : file[n].key # keys + 1
         /\ \A q \in Process : proc[q].newKey # keys + 1
<1>1. \A k \in Key \cup {None} : Generated(k) => k # keys + 1
  BY StoreAssumption DEF Generated, Key, Typed, TypeInv
<1>2. /\ \A b \in Backend : keyring[b] # keys + 1
      /\ \A q \in Process : proc[q].newKey # keys + 1
      /\ \A n \in Present : file[n].key # keys + 1
  BY <1>1 DEF Typed, TypeInv, KeysInv, Local, Present, Generated
<1>3. Keep(keys + 1)[Writable] = keys + 1 /\ Writable \in Backend
  BY DEF Keep, Writable, Backend, Typed, TypeInv
<1>. QED  BY <1>2, <1>3, StoreAssumption

LEMMA BlameRecord ==
  ASSUME NEW happened, NEW c \in DOMAIN happened, BlameAll(happened), c \notin causes'
  PROVE  ~happened[c]
BY DEF BlameAll

\* What no step has done when nothing is blamed on it.
LEMMA NotBlamed ==
  ASSUME NEW p \in Process
  PROVE  /\ Start(p) /\ "unavailable" \notin causes' => Answer = MasterKey
         /\ Start(p) /\ "beside" \notin causes' => \A q \in Process : ~Rotating(q)
         /\ CreateKey(p) /\ keyring' # keyring /\ "beside" \notin causes'
              => \A q \in Others(p) : proc[q].key = None
         /\ CreateKey(p) /\ keyring' # keyring /\ "together" \notin causes' => MasterKey = None
         /\ CreateKey(p) /\ keyring' # keyring /\ "shadowed" \notin causes' => ~Shadows(keys + 1)
<1>1. ASSUME Start(p), "unavailable" \notin causes' PROVE Answer = MasterKey
  <2>1. BlameAll([unavailable |-> Answer # MasterKey, beside |-> \E q \in Process : Rotating(q)])
    BY <1>1 DEF Start, MasterKey
  <2>2. ~(Answer # MasterKey)
    <3>. DEFINE unavailable == Answer # MasterKey
    <3>1. BlameAll([unavailable |-> unavailable, beside |-> \E q \in Process : Rotating(q)])
      BY <2>1
    <3>. HIDE DEF unavailable
    <3>2. ~unavailable
      BY <1>1, <3>1, BlameRecord
    <3>. QED  BY <3>2 DEF unavailable
  <2>. QED  BY <2>2
<1>2. ASSUME Start(p), "beside" \notin causes' PROVE \A q \in Process : ~Rotating(q)
  BY <1>2, BlameRecord DEF Start
<1>3. ASSUME CreateKey(p), keyring' # keyring, "beside" \notin causes'
      PROVE  \A q \in Others(p) : proc[q].key = None
  BY <1>3, BlameRecord DEF CreateKey
<1>4. ASSUME CreateKey(p), keyring' # keyring, "together" \notin causes'
      PROVE  MasterKey = None
  <2>1. BlameAll([together |-> MasterKey # None, shadowed |-> Shadows(keys + 1),
                  beside |-> \E q \in Others(p) : proc[q].key # None])
    BY <1>4 DEF CreateKey, MasterKey
  <2>2. ~(MasterKey # None)
    <3>. DEFINE together == MasterKey # None
    <3>1. BlameAll([together |-> together, shadowed |-> Shadows(keys + 1),
                    beside |-> \E q \in Others(p) : proc[q].key # None])
      BY <2>1
    <3>. HIDE DEF together
    <3>2. ~together
      BY <1>4, <3>1, BlameRecord
    <3>. QED  BY <3>2 DEF together
  <2>. QED  BY <2>2
<1>5. ASSUME CreateKey(p), keyring' # keyring, "shadowed" \notin causes'
      PROVE  ~Shadows(keys + 1)
  BY <1>5, BlameRecord DEF CreateKey
<1>. QED  BY <1>1, <1>2, <1>3, <1>4, <1>5

\* A process that runs and does not rotate keeps every rotation from writing.
LEMMA NobodyWrites ==
  ASSUME Unharmed, NEW p \in Process, Running(p), ~Rotating(p)
  PROVE  /\ \A q \in Process : Touched(q) = {}
         /\ \A n \in Name : file[n] = Expected(n)
<1>1. ASSUME NEW q \in Process PROVE Touched(q) = {}
  <2>1. CASE q = p
    BY <2>1 DEF Touched, Rotating
  <2>2. CASE q # p
    BY <2>2 DEF Unharmed, Others
  <2>. QED  BY <2>1, <2>2
<1>. QED  BY <1>1 DEF Unharmed

\* A rotation that writes does so alone.
LEMMA OnlyOneWrites ==
  ASSUME Unharmed, NEW p \in Process, Running(p), NEW q \in Process \ {p}
  PROVE  Touched(q) = {}
BY DEF Unharmed, Others

\* A step of a process that moves no file and no key.
LEMMA LocalStep ==
  ASSUME Typed, Typed', Unharmed, NEW p \in Process, OthersKept(p),
         UNCHANGED <<file, stored, keyring>>,
         proc'[p].key \in {None, MasterKey}, proc'[p].pc # "corrupted",
         Running(p) \/ \A q \in Process : ~Rotating(q),
         Touched(p)' = Touched(p), Touched(p) # {} => proc'[p].newKey = proc[p].newKey,
         ReadsAll(p)'
  PROVE  Unharmed'
<1>1. MasterKey' = MasterKey /\ \A n \in Name : Expected(n)' = Expected(n)
  BY DEF MasterKey, AnswerWhen, Expected
<1>2. \A q \in Process : Touched(q)' = Touched(q)
  BY DEF OthersKept, Touched, WasRead
<1>3. ASSUME NEW q \in Process, Touched(q) # {}
      PROVE  Others(q)' = {} /\ \A n \in Touched(q) : proc'[q].newKey = proc[q].newKey
  <2>1. CASE q = p
    <3>1. /\ Others(q)' = Others(q) /\ Touched(p)' # {}
          /\ Running(p) /\ Running(p)'
      BY <1>3, <2>1 DEF OthersKept, Others, Running, Touched
    <3>. QED  BY <3>1, <1>3, <2>1 DEF Unharmed
  <2>2. CASE q # p
    BY <1>3, <2>2 DEF Unharmed, Others, OthersKept, Running, Rotating, Touched
  <2>. QED  BY <2>1, <2>2
<1>4. ASSUME NEW q \in Process
      PROVE  /\ proc'[q].key \in {None, MasterKey} /\ proc'[q].pc # "corrupted"
             /\ ReadsAll(q)'
  BY DEF Unharmed, OthersKept, ReadsAll, Rotating, WasRead
<1>. QED  BY <1>1, <1>2, <1>3, <1>4 DEF Unharmed

\* The steps that open a store and serve a request.
LEMMA OpenUnharmed ==
  ASSUME Typed, Typed', Unharmed, causes' = {}, NEW p \in Process,
         \/ Start(p) \/ CheckOrphans(p) \/ DeleteOrphan(p) \/ CreateKey(p)
  PROVE  Unharmed'
<1>1. CASE Start(p)
  <2>1. Answer = MasterKey /\ \A q \in Process : ~Rotating(q)
    BY <1>1, NotBlamed
  <2>2. /\ OthersKept(p) /\ UNCHANGED <<file, stored, keyring>>
        /\ proc'[p].key \in {None, MasterKey} /\ proc'[p].pc \in {"ready", "list"}
    <3>1. Answer \in Key \cup {None}
      BY AnswerIsKey DEF Answer, Typed, TypeInv
    <3>. QED  BY <1>1, <2>1, <3>1, StartStep, ReadyState DEF Start, Idle
  <2>3. Touched(p)' = {} /\ Touched(p) = {} /\ ReadsAll(p)'
    BY <2>1, <2>2 DEF Touched, ReadsAll, Rotating
  <2>. QED  BY <2>1, <2>2, <2>3, LocalStep
<1>2. CASE CheckOrphans(p)
  <2>1. /\ OthersKept(p) /\ UNCHANGED <<file, stored, keyring>> /\ proc[p].pc = "list"
        /\ proc'[p].key = None /\ proc'[p].pc \in {"generate", "clean", "down"}
    BY <1>2, CheckOrphansStep DEF CheckOrphans, Idle
  <2>2. Touched(p)' = {} /\ Touched(p) = {} /\ ReadsAll(p)' /\ Running(p)
    BY <2>1 DEF Touched, ReadsAll, Rotating, Running
  <2>. QED  BY <2>1, <2>2, LocalStep
<1>3. CASE DeleteOrphan(p)
  <2>1. /\ OthersKept(p) /\ UNCHANGED <<stored, keyring>> /\ proc[p].pc = "clean"
        /\ proc'[p].key = None /\ proc'[p].pc \in {"generate", "clean"}
        /\ \A n \in Name : file'[n] \in {file[n], None}
    BY <1>3, DeleteOrphanStep DEF DeleteOrphan, Idle
  <2>2. MasterKey = None
    BY <1>3 DEF DeleteOrphan, Blame, MasterKey
  <2>3. file' = file
    BY <2>1, <2>2 DEF Unharmed, Typed, TypeInv
  <2>4. Touched(p)' = {} /\ Touched(p) = {} /\ ReadsAll(p)' /\ Running(p)
    BY <2>1 DEF Touched, ReadsAll, Rotating, Running
  <2>. QED  BY <2>1, <2>3, <2>4, LocalStep
<1>4. CASE CreateKey(p) /\ keyring' = keyring /\ proc'[p] = Down
  <2>1. /\ OthersKept(p) /\ UNCHANGED <<file, stored, keyring>> /\ proc[p].pc = "generate"
        /\ proc'[p].key = None /\ proc'[p].pc = "down"
    BY <1>4, CreateKeyStep, DownState DEF CreateKey
  <2>2. Touched(p)' = {} /\ Touched(p) = {} /\ ReadsAll(p)' /\ Running(p)
    BY <2>1 DEF Touched, ReadsAll, Rotating, Running
  <2>. QED  BY <2>1, <2>2, LocalStep
<1>5. CASE CreateKey(p) /\ keyring' = Keep(keys + 1) /\ proc'[p] = Ready(keys + 1)
  <2>1. /\ OthersKept(p) /\ UNCHANGED <<file, stored>> /\ keys + 1 \in Key
        /\ proc'[p].key = keys + 1 /\ proc'[p].pc = "ready"
    BY <1>5, CreateKeyStep, ReadyState DEF CreateKey
  <2>2. /\ MasterKey = None /\ ~Shadows(keys + 1)
        /\ \A q \in Others(p) : proc[q].key = None
    BY <1>5, FreshKey, CreateKeyStep, NotBlamed DEF CreateKey
  <2>3. \A q \in Process \ {p} : proc'[q].key = None /\ proc'[q].pc \in Keyless
    BY <2>1, <2>2 DEF OthersKept, Others, Running, Typed, TypeInv, LocalOK, Keyless
  <2>4. \A q \in Process : Touched(q)' = {} /\ ~Rotating(q)'
    BY <2>1, <2>3 DEF Touched, Rotating, Keyless
  <2>5. MasterKey' = keys + 1 /\ keys + 1 # None
    BY <1>5, <2>1, <2>2, StoreAssumption
    DEF MasterKey, AnswerWhen, Keep, Writable, Shadows, Typed, TypeInv, Backend
  <2>6. \A n \in Name : Expected(n)' = None /\ file'[n] = None
    BY <2>1, <2>2 DEF Unharmed, Expected
  <2>. QED  BY <2>1, <2>3, <2>4, <2>5, <2>6 DEF Unharmed, ReadsAll, Keyless
<1>. QED  BY <1>1, <1>2, <1>3, <1>4, <1>5, CreateKeyStep

LEMMA RequestUnharmed ==
  ASSUME Typed, Typed', Unharmed, causes' = {}, NEW p \in Process,
         \/ GetFails(p) \/ DeleteCorrupted(p)
         \/ \E n \in Name : Delete(p, n) \/ \E v \in Value : Set(p, n, v)
  PROVE  Unharmed'
<1>1. ~DeleteCorrupted(p)
  BY DEF DeleteCorrupted, Unharmed
<1>2. ~GetFails(p)
  <2> SUFFICES ASSUME GetFails(p) PROVE FALSE
    OBVIOUS
  <2>1. PICK n \in Present : Undecryptable(p, n)
    BY DEF GetFails
  <2>2. Running(p) /\ ~Rotating(p) /\ proc[p].key # None
    BY DEF GetFails, Running, Rotating, Typed, TypeInv, LocalOK, Keyless
  <2>3. file[n] = Expected(n) /\ file[n] # None
    BY <2>1, <2>2, NobodyWrites DEF Present
  <2>. QED  BY <2>1, <2>2, <2>3 DEF Expected, Encrypted, Undecryptable, Unharmed
<1>3. ASSUME NEW n \in Name, Delete(p, n) \/ \E v \in Value : Set(p, n, v)
      PROVE  Unharmed'
  <2>1. /\ proc[p].pc = "ready" /\ proc' = proc /\ keyring' = keyring
        /\ \A q \in Others(p) : ~Rotating(q)
    BY <1>3 DEF Delete, Set, Blame, Crossed
  <2>2. \A q \in Process : ~Rotating(q) /\ Touched(q) = {}
    BY <2>1 DEF Others, Rotating, Running, Touched
  <2>3. /\ \A m \in Name \ {n} : file'[m] = file[m] /\ stored'[m] = stored[m]
        /\ \/ file'[n] = None /\ stored'[n] = None
           \/ \E v \in Value : file'[n] = Encrypted(proc[p].key, v) /\ stored'[n] = v
    BY <1>3, SetStep, DeleteStep
  <2>4. MasterKey' = MasterKey /\ MasterKey = proc[p].key /\ MasterKey # None
    BY <2>1 DEF MasterKey, AnswerWhen, Unharmed, Typed, TypeInv, LocalOK, Keyless
  <2>5. \A q \in Process : ~Rotating(q)' /\ Touched(q)' = {}
    BY <2>1, <2>2 DEF Rotating, Touched
  <2>6. \A m \in Name : file'[m] = Expected(m)'
    BY <2>2, <2>3, <2>4, StoreAssumption DEF Unharmed, Expected, Encrypted
  <2>. QED  BY <2>1, <2>4, <2>5, <2>6 DEF Unharmed, ReadsAll
<1>. QED  BY <1>1, <1>2, <1>3

\* The steps of a rotation before it writes.
LEMMA ReadUnharmed ==
  ASSUME Typed, Typed', Unharmed, NEW p \in Process,
         StartRotate(p) \/ ReadOne(p) \/ NewKey(p)
  PROVE  Unharmed'
<1>1. proc[p].key \in {None, MasterKey} /\ proc[p].pc # "corrupted" /\ ReadsAll(p)
  BY DEF Unharmed
<1>2. CASE StartRotate(p)
  <2>1. /\ OthersKept(p) /\ UNCHANGED <<file, stored, keyring>> /\ Running(p) /\ ~Rotating(p)
        /\ proc'[p].key = proc[p].key /\ proc'[p].pc = "read"
        /\ proc'[p].left = Present /\ \A n \in Name : proc'[p].plain[n] = None
    BY <1>2, StartRotateStep DEF StartRotate, Running, Rotating, Keeps
  <2>2. Present = {n \in Name : stored[n] # None}
    <3>1. MasterKey \in Key
      BY <1>1, <2>1 DEF Running, Rotating, StartRotate, Typed, TypeInv, LocalOK, Keyless, Local
    <3>2. \A n \in Name : stored[n] # None => Expected(n) # None
      BY <3>1, StoreAssumption DEF Expected, Encrypted, Typed, TypeInv
    <3>. QED  BY <2>1, <3>2, NobodyWrites DEF Present, Expected
  <2>3. ReadsAll(p)' /\ Touched(p)' = {} /\ Touched(p) = {}
    BY <2>1, <2>2 DEF ReadsAll, WasRead, Touched, Rotating
  <2>. QED  BY <1>1, <2>1, <2>3, LocalStep
<1>3. CASE ReadOne(p) /\ proc'[p] = Ready(proc[p].key)
  <2>1. /\ OthersKept(p) /\ UNCHANGED <<file, stored, keyring>> /\ proc[p].pc = "read"
        /\ proc'[p].key = proc[p].key /\ proc'[p].pc = "ready"
    <3>1. OthersKept(p) /\ proc[p].key \in Key
      BY <1>3, ReadOneStep
    <3>. QED  BY <1>3, <3>1, ReadyState DEF ReadOne
  <2>2. ReadsAll(p)' /\ Touched(p)' = {} /\ Touched(p) = {} /\ Running(p)
    BY <2>1 DEF ReadsAll, Rotating, Touched, Running
  <2>. QED  BY <1>1, <2>1, <2>2, LocalStep
<1>4. CASE ReadOne(p) /\ proc'[p] # Ready(proc[p].key)
  <2>1. PICK n \in proc[p].left :
           /\ file[n] # None /\ ~Undecryptable(p, n) /\ Keeps(p)
           /\ proc'[p].pc = "read" /\ proc'[p].left = proc[p].left \ {n}
           /\ \A m \in Name :
                proc'[p].plain[m] = IF m = n THEN file[n].val ELSE proc[p].plain[m]
    BY <1>4, ReadOneStep
  <2>2. /\ OthersKept(p) /\ UNCHANGED <<file, stored, keyring>> /\ proc[p].pc = "read"
        /\ Running(p) /\ n \in Name
    BY <1>4, ReadOneStep DEF ReadOne, Running, Typed, TypeInv, Local
  <2>3. \A q \in Process : n \notin Touched(q)
    <3>1. Touched(p) = {}
      BY <2>2 DEF Touched
    <3>. QED  BY <2>2, <3>1, OnlyOneWrites
  <2>4. file[n].val = stored[n] /\ stored[n] # None
    <3>1. file[n] = Expected(n)
      BY <2>2, <2>3 DEF Unharmed
    <3>. QED  BY <2>1, <3>1 DEF Expected, Encrypted
  <2>5. WasRead(p)' = WasRead(p) \cup {n}
    BY <2>1, <2>2, <2>4 DEF WasRead
  <2>6. ReadsAll(p)'
    BY <1>1, <2>1, <2>2, <2>4, <2>5 DEF ReadsAll, Rotating, WasRead
  <2>7. Touched(p)' = {} /\ Touched(p) = {}
    BY <2>1, <2>2 DEF Touched
  <2>. QED  BY <1>1, <2>1, <2>2, <2>6, <2>7, LocalStep DEF Keeps
<1>5. CASE NewKey(p)
  <2>1. /\ OthersKept(p) /\ UNCHANGED <<file, stored, keyring>> /\ Running(p)
        /\ proc[p].pc = "read" /\ proc[p].left = {}
        /\ proc'[p].key = proc[p].key /\ proc'[p].pc = "write"
        /\ proc'[p].left = WasRead(p) /\ proc'[p].plain = proc[p].plain
    BY <1>5, NewKeyStep DEF NewKey, Running, Keeps
  <2>2. ReadsAll(p)' /\ Touched(p)' = {} /\ Touched(p) = {}
    BY <1>1, <2>1 DEF ReadsAll, Rotating, Touched, WasRead
  <2>. QED  BY <1>1, <2>1, <2>2, LocalStep
<1>. QED  BY <1>2, <1>3, <1>4, <1>5

\* The steps of a rotation that leave the files alone.
LEMMA TurnUnharmed ==
  ASSUME Typed, Typed', Unharmed, NEW p \in Process, Continues(p), proc[p].pc \in TwoKeyed,
         UNCHANGED <<file, stored, keyring>>, Touched(p)' = Touched(p)
  PROVE  Unharmed'
<1>1. ReadsAll(p)'
  BY DEF Unharmed, Continues, ReadsAll, Rotating, WasRead, TwoKeyed
<1>2. /\ proc'[p].key \in {None, MasterKey} /\ proc'[p].pc # "corrupted" /\ Running(p)
      /\ OthersKept(p) /\ proc'[p].newKey = proc[p].newKey
  BY DEF Unharmed, Continues, Keeps, Running, TwoKeyed
<1>. QED  BY <1>1, <1>2, LocalStep

\* The steps of a rotation that write one file, when nobody else runs.
LEMMA WriteUnharmed ==
  ASSUME Typed, Typed', Unharmed, NEW p \in Process, Continues(p), proc[p].pc \in TwoKeyed,
         UNCHANGED <<stored, keyring>>, Others(p) = {}, NEW n \in WasRead(p),
         \/ /\ file' = [file EXCEPT ![n] = Encrypted(proc[p].newKey, proc[p].plain[n])]
            /\ Touched(p)' = Touched(p) \cup {n}
         \/ /\ file' = [file EXCEPT ![n] = Restored(p, n)]
            /\ Touched(p)' = Touched(p) \ {n}
  PROVE  Unharmed'
<1>1. MasterKey' = MasterKey /\ \A m \in Name : Expected(m)' = Expected(m)
  BY DEF MasterKey, AnswerWhen, Expected
<1>2. /\ proc[p].key = MasterKey /\ MasterKey # None /\ Running(p) /\ Rotating(p)
      /\ n \in Name
      /\ \A m \in WasRead(p) : proc[p].plain[m] = stored[m] /\ stored[m] # None
  BY TwoKeys DEF Unharmed, ReadsAll, Running, Rotating, TwoKeyed, LocalOK, Keyless, WasRead
<1>3. \A q \in Process \ {p} : ~Running(q) /\ Touched(q) = {} /\ Touched(q)' = {}
  BY DEF Others, Running, Touched, Continues, OthersKept
<1>4. Others(p)' = {}
  BY <1>3 DEF Others, Running, Continues, OthersKept
<1>5. ReadsAll(p)'
  BY DEF Unharmed, Continues, ReadsAll, Rotating, WasRead, TwoKeyed
<1>6. \A m \in Touched(p)' : file'[m] = Encrypted(proc'[p].newKey, stored'[m])
  BY <1>2 DEF Unharmed, Continues, Typed, TypeInv, Touched
<1>7. \A m \in Name : m \notin Touched(p)' => file'[m] = Expected(m)
  BY <1>2, <1>3 DEF Unharmed, Expected, Restored, Typed, TypeInv
<1>8. \A q \in Process : proc'[q].key \in {None, MasterKey} /\ proc'[q].pc # "corrupted"
                         /\ ReadsAll(q)'
  BY <1>2, <1>5 DEF Unharmed, Continues, Keeps, OthersKept, ReadsAll, Rotating, WasRead, TwoKeyed
<1>. QED  BY <1>1, <1>2, <1>3, <1>4, <1>6, <1>7, <1>8 DEF Unharmed

LEMMA WriteOneUnharmed ==
  ASSUME Typed, Typed', Unharmed, causes' = {}, NEW p \in Process, WriteOne(p)
  PROVE  Unharmed'
<1>1. PICK n \in proc[p].left :
         \/ /\ file' = [file EXCEPT ![n] = Encrypted(proc[p].newKey, proc[p].plain[n])]
            /\ proc'[p].pc = "write" /\ proc'[p].left = proc[p].left \ {n}
            /\ Blame("beside", Others(p) # {})
         \/ /\ file' = file
            /\ proc'[p].pc = "rollback" /\ proc'[p].left = WasRead(p) \ proc[p].left
  BY WriteOneStep
<1>2. /\ proc[p].pc = "write" /\ proc[p].pc \in TwoKeyed /\ Continues(p)
      /\ UNCHANGED <<stored, keyring>>
      /\ proc'[p].plain = proc[p].plain /\ proc[p].left \subseteq WasRead(p)
  BY WriteOneStep, TwoKeys DEF WriteOne, TwoKeyed, Continues
<1>3. CASE /\ file' = [file EXCEPT ![n] = Encrypted(proc[p].newKey, proc[p].plain[n])]
           /\ proc'[p].pc = "write" /\ proc'[p].left = proc[p].left \ {n}
           /\ Blame("beside", Others(p) # {})
  <2>1. Touched(p)' = Touched(p) \cup {n} /\ n \in WasRead(p)
    BY <1>1, <1>2, <1>3 DEF Touched, WasRead
  <2>2. Others(p) = {}
    BY <1>3 DEF Blame
  <2>. QED  BY <1>2, <1>3, <2>1, <2>2, WriteUnharmed
<1>4. CASE /\ file' = file
           /\ proc'[p].pc = "rollback" /\ proc'[p].left = WasRead(p) \ proc[p].left
  <2>1. Touched(p)' = Touched(p)
    BY <1>2, <1>4 DEF Touched, WasRead
  <2>. QED  BY <1>2, <1>4, <2>1, TurnUnharmed
<1>. QED  BY <1>1, <1>3, <1>4

LEMMA RollbackOneUnharmed ==
  ASSUME Typed, Typed', Unharmed, causes' = {}, NEW p \in Process, RollbackOne(p)
  PROVE  Unharmed'
<1>1. /\ proc[p].pc = "rollback" /\ proc[p].pc \in TwoKeyed /\ OthersKept(p)
      /\ UNCHANGED <<stored, keyring>> /\ proc[p].left \subseteq WasRead(p)
  BY RollbackOneStep, TwoKeys DEF RollbackOne, TwoKeyed
<1>2. ~Blame("rollback", TRUE)
  BY DEF Blame
<1>3. ASSUME NEW n \in proc[p].left, Continues(p), proc'[p].pc = "rollback",
             proc'[p].left = proc[p].left \ {n},
             file' = [file EXCEPT ![n] = Restored(p, n)], Blame("beside", Others(p) # {})
      PROVE  Unharmed'
  <2>1. Touched(p)' = Touched(p) \ {n} /\ n \in WasRead(p)
    BY <1>1, <1>3 DEF Touched
  <2>2. Others(p) = {}
    BY <1>3 DEF Blame
  <2>. QED  BY <1>1, <1>3, <2>1, <2>2, WriteUnharmed
<1>4. ASSUME proc[p].left = {}, proc'[p] = Ready(proc[p].key), proc[p].key \in Key, file' = file
      PROVE  Unharmed'
  <2>1. proc'[p].pc = "ready" /\ proc'[p].key = proc[p].key
    BY <1>4, ReadyState
  <2>2. Touched(p)' = {} /\ Touched(p) = {} /\ ReadsAll(p)' /\ Running(p)
    BY <1>1, <1>4, <2>1 DEF Touched, ReadsAll, Rotating, Running
  <2>3. proc'[p].key \in {None, MasterKey} /\ proc'[p].pc # "corrupted"
    BY <2>1 DEF Unharmed
  <2>. QED  BY <1>1, <1>4, <2>2, <2>3, LocalStep
<1>. QED  BY <1>2, <1>3, <1>4, RollbackOneStep

LEMMA SetKeyUnharmed ==
  ASSUME Typed, Typed', Unharmed, causes' = {}, NEW p \in Process, SetKey(p)
  PROVE  Unharmed'
<1>1. /\ proc[p].pc = "write" /\ proc[p].pc \in TwoKeyed /\ OthersKept(p)
      /\ UNCHANGED <<file, stored>> /\ proc[p].left = {} /\ proc[p].newKey \in Key
  BY SetKeyStep, TwoKeys DEF SetKey, TwoKeyed
<1>2. CASE keyring' = keyring /\ Continues(p) /\ proc'[p].pc = "rollback"
             /\ proc'[p].left = WasRead(p)
  <2>1. Touched(p)' = Touched(p)
    BY <1>1, <1>2 DEF Touched, WasRead, Continues
  <2>. QED  BY <1>1, <1>2, <2>1, TurnUnharmed
<1>3. CASE /\ keyring' = Keep(proc[p].newKey) /\ proc'[p] = Ready(proc[p].newKey)
           /\ BlameAll([beside |-> Others(p) # {}, shadowed |-> Shadows(proc[p].newKey)])
  <2>1. Others(p) = {} /\ ~Shadows(proc[p].newKey)
    <3>. DEFINE beside == Others(p) # {}
    <3>1. BlameAll([beside |-> beside, shadowed |-> Shadows(proc[p].newKey)])
      BY <1>3
    <3>. HIDE DEF beside
    <3>2. ~beside /\ ~Shadows(proc[p].newKey)
      BY <3>1, BlameRecord
    <3>. QED  BY <3>2 DEF beside
  <2>2. MasterKey' = proc[p].newKey /\ MasterKey' # None
    BY <1>1, <1>3, <2>1, StoreAssumption
    DEF MasterKey, AnswerWhen, Keep, Writable, Shadows, Typed, TypeInv, Backend
  <2>3. /\ proc'[p].pc = "ready" /\ proc'[p].key = MasterKey'
        /\ \A q \in Process \ {p} : proc[q].pc = "down" /\ proc'[q] = proc[q] /\ proc[q].key = None
    BY <1>1, <1>3, <2>1, <2>2, ReadyState
    DEF Others, Running, OthersKept, Typed, TypeInv, LocalOK, Keyless
  <2>4. \A q \in Process : Touched(q)' = {} /\ ~Rotating(q)'
    BY <2>3 DEF Touched, Rotating
  <2>5. Touched(p) = {n \in Name : stored[n] # None}
    BY <1>1 DEF Unharmed, ReadsAll, Rotating, Touched, WasRead
  <2>6. \A n \in Name : file'[n] = Expected(n)'
    <3>1. \A n \in Name : stored[n] # None => file[n] = Encrypted(MasterKey', stored[n])
      BY <2>2, <2>5 DEF Unharmed
    <3>2. \A n \in Name : stored[n] = None => file[n] = None
      <4>1. \A q \in Process \ {p} : Touched(q) = {}
        BY <2>3 DEF Touched
      <4>. QED  BY <2>5, <4>1 DEF Unharmed, Expected
    <3>. QED  BY <1>1, <3>1, <3>2 DEF Expected
  <2>. QED  BY <2>2, <2>3, <2>4, <2>6 DEF Unharmed, ReadsAll
<1>. QED  BY <1>2, <1>3, SetKeyStep

LEMMA EndUnharmed ==
  ASSUME Typed, Typed', Unharmed, causes' = {}, NEW p \in Process, End(p)
  PROVE  Unharmed'
<1>1. /\ OthersKept(p) /\ UNCHANGED <<file, stored, keyring>> /\ Running(p)
      /\ proc'[p].pc = "down" /\ proc'[p].key = None /\ ~HalfRotated(p)
  BY EndStep, DownState DEF End, Blame
<1>2. Touched(p)' = {} /\ Touched(p) = {} /\ ReadsAll(p)'
  BY <1>1 DEF Touched, ReadsAll, Rotating, HalfRotated
<1>. QED  BY <1>1, <1>2, LocalStep

LEMMA NextLossInv == Typed /\ LossInv /\ [Next]_vars => LossInv'
<1> SUFFICES ASSUME Typed, LossInv, [Next]_vars, causes' = {} PROVE Unharmed'
  BY DEF LossInv
<1>1. Unharmed /\ Typed'
  BY CausesGrow, NextTyped DEF LossInv
<1>2. CASE UNCHANGED vars \/ ToggleOs
  BY <1>1, <1>2
  DEF vars, ToggleOs, Unharmed, MasterKey, AnswerWhen, Touched, WasRead, ReadsAll, Rotating,
      Others, Running, Expected
<1>3. CASE ResetOs
  <2>1. BlameAll([reset |-> TRUE, beside |-> \E p \in Process : Running(p)])
    BY <1>3 DEF ResetOs
  <2>. QED  BY <2>1, BlameRecord
<1>4. CASE \E p \in Process :
             \/ Start(p) \/ CheckOrphans(p) \/ DeleteOrphan(p) \/ CreateKey(p)
             \/ GetFails(p) \/ DeleteCorrupted(p)
             \/ \E n \in Name : Delete(p, n) \/ \E v \in Value : Set(p, n, v)
             \/ Rotate(p) \/ End(p)
  BY <1>1, <1>4, OpenUnharmed, RequestUnharmed, ReadUnharmed, WriteOneUnharmed,
     RollbackOneUnharmed, SetKeyUnharmed, EndUnharmed DEF Rotate
<1>. QED  BY <1>2, <1>3, <1>4 DEF Next

LEMMA InitLossInv == Init => LossInv
<1> SUFFICES ASSUME Init PROVE Unharmed
  BY DEF LossInv
<1>1. \A p \in Process : proc[p].key = None /\ proc[p].pc = "down"
  BY DownState DEF Init
<1>. QED  BY <1>1 DEF Init, Unharmed, ReadsAll, Rotating, Touched, Expected

LEMMA LossInvImplies == LossInv => LossHasCause
BY DEF LossInv, Unharmed, LossHasCause, Touched, Rotating, Expected, MasterKey

\* Whatever rotations of whichever processes succeeded, failed or were rolled
\* back: as long as none of the causes has come to pass, every secret is under
\* the key the next process will read, with the value stored last.
THEOREM NothingLost == Spec => []LossHasCause
BY InitTypeInv, NextTyped, InitLossInv, NextLossInv, LossInvImplies, PTL DEF Spec, Typed

-----------------------------------------------------------------------------
(* Only what cannot be read is destroyed. *)

\* A step after which each file is as it was or gone, and the keys are as they were.
LEMMA VanishStep ==
  ASSUME Typed, Typed', Undisturbed, NEW p \in Process, OthersKept(p), keyring' = keyring,
         \A n \in Name : file'[n] \in {file[n], None}, Holds(p)'
  PROVE  Undisturbed'
<1>1. MasterKey' = MasterKey /\ Present' \subseteq Present /\ \A n \in Present' : file'[n] = file[n]
  BY DEF MasterKey, AnswerWhen, Present
<1>2. ASSUME NEW q \in Process \ {p} PROVE Holds(q)'
  <2>1. proc'[q] = proc[q] /\ Holds(q) /\ proc[q].left \subseteq Name
    BY DEF OthersKept, Undisturbed, Typed, TypeInv, Local
  <2>. QED  BY <1>1, <2>1 DEF Holds, WasRead, Present
<1>. QED  BY <1>1, <1>2 DEF Undisturbed

\* A step that writes one file under the master key or under a key in no backend,
\* when nobody else relies on it.
LEMMA WriteStep ==
  ASSUME Typed, Typed', Undisturbed, NEW p \in Process, OthersKept(p), keyring' = keyring,
         NEW n \in Name, \A m \in Name \ {n} : file'[m] = file[m], file'[n] # None,
         \/ file'[n].key = MasterKey
         \/ \A b \in Backend : keyring[b] # file'[n].key,
         Holds(p)',
         \A q \in Others(p) : ~Rotating(q) /\ (proc[q].pc = "corrupted" => n \notin proc[q].left)
  PROVE  Undisturbed'
<1>1. MasterKey' = MasterKey
  BY DEF MasterKey, AnswerWhen
<1>2. ASSUME NEW q \in Process \ {p} PROVE Holds(q)'
  <2>1. proc'[q] = proc[q] /\ Holds(q) /\ proc[q].left \subseteq Name /\ ~Rotating(q)
    BY DEF OthersKept, Undisturbed, Typed, TypeInv, Local, Others, Rotating, Running
  <2>2. proc[q].pc = "corrupted" => n \notin proc[q].left
    BY DEF Others, Running
  <2>. QED  BY <1>1, <2>1, <2>2 DEF Holds, Rotating, TwoKeyed
<1>. QED  BY <1>1, <1>2 DEF Undisturbed, Present

\* A process that has its key and no operation relies on nothing else.
LEMMA HoldsReady ==
  ASSUME NEW p \in Process, keyring' = keyring,
         proc'[p].key \in {None, MasterKey},
         proc'[p].pc \notin {"corrupted", "read"} \cup TwoKeyed
  PROVE  Holds(p)'
BY DEF Holds, MasterKey, AnswerWhen, TwoKeyed

\* The steps that change no file but may lose some, and no key.
LEMMA OpenUndisturbed ==
  ASSUME Typed, Typed', Undisturbed, causes' \cap Interference = {}, NEW p \in Process,
         \/ Start(p) \/ CheckOrphans(p) \/ DeleteOrphan(p)
         \/ CreateKey(p) /\ keyring' = keyring
         \/ GetFails(p) \/ DeleteCorrupted(p) \/ End(p)
         \/ \E n \in Name : Delete(p, n)
  PROVE  Undisturbed'
<1>1. CASE Start(p)
  <2>1. Answer = MasterKey /\ Answer \in Key \cup {None}
    BY <1>1, NotBlamed, AnswerIsKey DEF Interference, Answer, Typed, TypeInv
  <2>2. /\ OthersKept(p) /\ UNCHANGED <<file, keyring>>
        /\ proc'[p].key \in {None, MasterKey} /\ proc'[p].pc \in {"ready", "list"}
    BY <1>1, <2>1, StartStep, ReadyState DEF Start, Idle
  <2>3. Holds(p)'
    BY <2>2, HoldsReady DEF TwoKeyed
  <2>. QED  BY <2>2, <2>3, VanishStep
<1>2. CASE CheckOrphans(p) \/ DeleteOrphan(p)
  <2>1. /\ OthersKept(p) /\ keyring' = keyring /\ \A n \in Name : file'[n] \in {file[n], None}
        /\ proc'[p].key = None /\ proc'[p].pc \in {"generate", "clean", "down"}
    BY <1>2, CheckOrphansStep, DeleteOrphanStep DEF CheckOrphans, DeleteOrphan, Idle
  <2>2. Holds(p)'
    BY <2>1, HoldsReady DEF TwoKeyed
  <2>. QED  BY <2>1, <2>2, VanishStep
<1>3. CASE CreateKey(p) /\ keyring' = keyring
  <2>1. OthersKept(p) /\ file' = file /\ proc'[p] = Down
    BY <1>3, CreateKeyStep, FreshKey DEF CreateKey
  <2>2. Holds(p)'
    BY <1>3, <2>1, DownState, HoldsReady DEF TwoKeyed
  <2>. QED  BY <1>3, <2>1, <2>2, VanishStep
<1>4. CASE GetFails(p)
  <2>1. OthersKept(p) /\ UNCHANGED <<file, keyring>> /\ Keeps(p) /\ proc'[p].pc = "corrupted"
    BY <1>4, GetFailsStep DEF GetFails
  <2>2. PICK n \in Present : Undecryptable(p, n) /\ proc'[p].left = {n}
    BY <1>4, GetFailsStep
  <2>3. Holds(p)'
    BY <2>1, <2>2
    DEF Holds, Undisturbed, Keeps, MasterKey, AnswerWhen, TwoKeyed, Undecryptable
  <2>. QED  BY <2>1, <2>3, VanishStep
<1>5. CASE DeleteCorrupted(p)
  <2>1. /\ OthersKept(p) /\ keyring' = keyring /\ \A n \in Name : file'[n] \in {file[n], None}
        /\ proc'[p].pc = "ready" /\ proc'[p].key = proc[p].key
    BY <1>5, DeleteCorruptedStep, ReadyState DEF DeleteCorrupted
  <2>2. Holds(p)'
    BY <2>1, HoldsReady DEF TwoKeyed, Undisturbed, Holds
  <2>. QED  BY <2>1, <2>2, VanishStep
<1>6. CASE End(p)
  <2>1. OthersKept(p) /\ UNCHANGED <<file, keyring>> /\ proc'[p] = Down
    BY <1>6, EndStep DEF End
  <2>2. Holds(p)'
    BY <2>1, DownState, HoldsReady DEF TwoKeyed
  <2>. QED  BY <2>1, <2>2, VanishStep
<1>7. ASSUME NEW n \in Name, Delete(p, n) PROVE Undisturbed'
  <2>1. /\ OthersKept(p) /\ keyring' = keyring /\ \A m \in Name : file'[m] \in {file[m], None}
        /\ proc'[p].pc = "ready" /\ proc'[p].key = proc[p].key
    BY <1>7, DeleteStep DEF Delete, OthersKept
  <2>2. Holds(p)'
    BY <2>1, HoldsReady DEF TwoKeyed, Undisturbed, Holds
  <2>. QED  BY <2>1, <2>2, VanishStep
<1>. QED  BY <1>1, <1>2, <1>3, <1>4, <1>5, <1>6, <1>7

\* A step that gives the keyring a new key, when nobody else has one.
LEMMA NewMaster ==
  ASSUME Typed, Typed', Undisturbed, NEW p \in Process, OthersKept(p), file' = file,
         NEW k \in Key, keyring' = Keep(k), \A b \in Backend : keyring[b] # k, ~Shadows(k),
         \A q \in Others(p) : proc[q].key = None, proc'[p] = Ready(k),
         \A n \in Present : file[n].key = k \/ \A b \in Backend : keyring'[b] # file[n].key
  PROVE  Undisturbed'
<1>1. MasterKey' = k /\ k # None
  BY StoreAssumption
  DEF MasterKey, AnswerWhen, Keep, Writable, Shadows, Typed, TypeInv, Backend
<1>2. \A b, c \in Backend : keyring'[b] = keyring'[c] => b = c \/ keyring'[b] = None
  BY DEF Undisturbed, Keep, Writable, Typed, TypeInv, Backend
<1>3. \A q \in Process \ {p} : proc'[q].key = None /\ proc'[q].pc \in Keyless
  BY DEF OthersKept, Others, Running, Typed, TypeInv, LocalOK, Keyless
<1>4. \A q \in Process : Holds(q)'
  BY <1>1, <1>3, ReadyState DEF Holds, Keyless, TwoKeyed
<1>. QED  BY <1>1, <1>2, <1>4 DEF Undisturbed, Present

LEMMA CreateKeyUndisturbed ==
  ASSUME Typed, Typed', Undisturbed, causes' \cap Interference = {}, NEW p \in Process,
         CreateKey(p), keyring' # keyring
  PROVE  Undisturbed'
<1>1. /\ MasterKey = None /\ ~Shadows(keys + 1) /\ \A q \in Others(p) : proc[q].key = None
      /\ keys + 1 \in Key /\ OthersKept(p) /\ file' = file
      /\ keyring' = Keep(keys + 1) /\ proc'[p] = Ready(keys + 1)
  BY CreateKeyStep, NotBlamed DEF Interference, CreateKey
<1>2. \A b \in Backend : keyring'[b] \in {None, keys + 1}
  BY <1>1 DEF MasterKey, AnswerWhen, Keep, Backend, Typed, TypeInv
<1>3. \A n \in Present : file[n].key # keys + 1 /\ file[n].key # None
  BY <1>1, FreshKey, StoreAssumption DEF Present, Typed, TypeInv
<1>. QED  BY <1>1, <1>2, <1>3, FreshKey, NewMaster

LEMMA SetUndisturbed ==
  ASSUME Typed, Typed', Undisturbed, causes' \cap Interference = {}, NEW p \in Process,
         NEW n \in Name, NEW v \in Value, Set(p, n, v)
  PROVE  Undisturbed'
<1>1. /\ proc' = proc /\ OthersKept(p) /\ keyring' = keyring /\ proc[p].pc = "ready"
  BY DEF Set, OthersKept
<1>2. /\ \A m \in Name \ {n} : file'[m] = file[m]
      /\ file'[n] # None /\ file'[n].key = proc[p].key /\ proc[p].key \in Key
  <2>1. file'[n] = Encrypted(proc[p].key, v)
    BY SetStep
  <2>. QED  BY <2>1, SetStep DEF Encrypted
<1>3. proc[p].key = MasterKey
  BY <1>2, StoreAssumption DEF Undisturbed, Holds
<1>4. Holds(p)'
  BY <1>1, <1>3, HoldsReady DEF TwoKeyed
<1>5. \A q \in Others(p) : ~Rotating(q) /\ (proc[q].pc = "corrupted" => n \notin proc[q].left)
  BY DEF Set, Blame, Crossed, Interference
<1>. QED  BY <1>1, <1>2, <1>3, <1>4, <1>5, WriteStep

\* The steps of a rotation that move no file and no key.
LEMMA TurnUndisturbed ==
  ASSUME Typed, Typed', Undisturbed, NEW p \in Process,
         \/ StartRotate(p) \/ ReadOne(p) \/ NewKey(p)
         \/ (WriteOne(p) \/ RollbackOne(p)) /\ file' = file
         \/ SetKey(p) /\ proc'[p].pc = "rollback"
  PROVE  Undisturbed'
<1>0. Holds(p)
  BY DEF Undisturbed
<1>1. CASE StartRotate(p)
  <2>1. /\ OthersKept(p) /\ UNCHANGED <<file, keyring>> /\ proc'[p].pc = "read"
        /\ proc'[p].left = Present /\ proc'[p].key = proc[p].key
    BY <1>1, StartRotateStep DEF StartRotate, Keeps
  <2>2. Holds(p)'
    BY <1>0, <2>1 DEF Holds, MasterKey, AnswerWhen, TwoKeyed, Present
  <2>. QED  BY <2>1, <2>2, VanishStep
<1>2. CASE ReadOne(p)
  <2>1. OthersKept(p) /\ UNCHANGED <<file, keyring>> /\ proc[p].key \in Key /\ proc[p].pc = "read"
    BY <1>2, ReadOneStep DEF ReadOne
  <2>2. CASE proc'[p] = Ready(proc[p].key)
    <3>1. Holds(p)'
      BY <1>0, <2>1, <2>2, ReadyState, HoldsReady DEF Holds, TwoKeyed
    <3>. QED  BY <2>1, <3>1, VanishStep
  <2>3. CASE proc'[p] # Ready(proc[p].key)
    <3>1. PICK n \in proc[p].left :
            /\ file[n] # None /\ Keeps(p)
            /\ proc'[p].pc = "read" /\ proc'[p].left = proc[p].left \ {n}
            /\ \A m \in Name :
                 proc'[p].plain[m] = IF m = n THEN file[n].val ELSE proc[p].plain[m]
      BY <1>2, <2>3, ReadOneStep
    <3>2. n \in Name
      BY DEF Typed, TypeInv, Local
    <3>3. file[n].val # None
      BY <3>1, <3>2, StoreAssumption DEF Typed, TypeInv
    <3>4. Present' = Present /\ Present \subseteq proc'[p].left \cup WasRead(p)'
      BY <1>0, <2>1, <3>1, <3>3 DEF Holds, WasRead, Present
    <3>5. Holds(p)'
      BY <1>0, <2>1, <3>1, <3>4 DEF Holds, Keeps, MasterKey, AnswerWhen, TwoKeyed
    <3>. QED  BY <2>1, <3>5, VanishStep
  <2>. QED  BY <2>2, <2>3
<1>3. CASE NewKey(p)
  <2>1. /\ OthersKept(p) /\ UNCHANGED <<file, keyring>> /\ proc[p].pc = "read"
        /\ proc[p].left = {} /\ proc'[p].key = proc[p].key /\ proc'[p].pc = "write"
        /\ proc'[p].left = WasRead(p) /\ proc'[p].plain = proc[p].plain
        /\ proc'[p].newKey = keys + 1 /\ keys + 1 \in Key
    BY <1>3, NewKeyStep DEF NewKey, Keeps
  <2>2. Present' = Present /\ WasRead(p)' = WasRead(p) /\ Present \subseteq WasRead(p)
    BY <1>0, <2>1 DEF Holds, WasRead, Present
  <2>3. Holds(p)'
    BY <1>0, <2>1, <2>2, FreshKey DEF Holds, MasterKey, AnswerWhen
  <2>. QED  BY <2>1, <2>3, VanishStep
<1>4. CASE /\ Continues(p) /\ proc'[p].pc = "rollback" /\ proc[p].pc \in TwoKeyed
           /\ UNCHANGED <<file, keyring>>
  <2>1. Holds(p)'
    BY <1>0, <1>4 DEF Holds, Continues, Keeps, MasterKey, AnswerWhen, TwoKeyed
  <2>. QED  BY <1>4, <2>1, VanishStep DEF Continues
<1>5. CASE /\ OthersKept(p) /\ proc'[p] = Ready(proc[p].key) /\ proc[p].key \in Key
           /\ UNCHANGED <<file, keyring>>
  <2>1. Holds(p)'
    BY <1>0, <1>5, ReadyState, HoldsReady DEF Holds, TwoKeyed
  <2>. QED  BY <1>5, <2>1, VanishStep
<1>6. CASE RollbackOne(p) /\ file' = file
  BY <1>4, <1>5, <1>6, RollbackOneStep DEF RollbackOne, TwoKeyed
<1>7. CASE SetKey(p) /\ proc'[p].pc = "rollback"
  <2>1. proc[p].newKey \in Key => proc'[p] # Ready(proc[p].newKey)
    BY <1>7, ReadyState
  <2>. QED  BY <1>4, <1>7, <2>1, SetKeyStep DEF SetKey, TwoKeyed
<1>8. CASE WriteOne(p) /\ file' = file
  <2>1. PICK n \in proc[p].left :
          \/ /\ file' = [file EXCEPT ![n] = Encrypted(proc[p].newKey, proc[p].plain[n])]
             /\ proc'[p].pc = "write" /\ proc'[p].left = proc[p].left \ {n}
          \/ proc'[p].pc = "rollback"
    BY <1>8, WriteOneStep
  <2>2. proc[p].pc = "write" /\ proc[p].pc \in TwoKeyed /\ Continues(p) /\ keyring' = keyring
    BY <1>8, WriteOneStep DEF WriteOne, TwoKeyed
  <2>3. CASE proc'[p].pc = "rollback"
    BY <1>4, <1>8, <2>2, <2>3
  <2>4. CASE /\ file' = [file EXCEPT ![n] = Encrypted(proc[p].newKey, proc[p].plain[n])]
             /\ proc'[p].pc = "write" /\ proc'[p].left = proc[p].left \ {n}
    <3>1. n \in Name /\ file[n] = Encrypted(proc[p].newKey, proc[p].plain[n])
      BY <1>8, <2>4 DEF Typed, TypeInv, Local
    <3>2. file[n].key = proc[p].newKey
      BY <3>1 DEF Encrypted
    <3>3. Present' = Present /\ WasRead(p)' = WasRead(p)
      BY <1>8, <2>2 DEF Present, WasRead, Continues
    <3>4. Holds(p)'
      BY <1>0, <1>8, <2>2, <2>4, <3>2, <3>3
      DEF Holds, Continues, Keeps, MasterKey, AnswerWhen, TwoKeyed
    <3>. QED  BY <1>8, <2>2, <3>4, VanishStep DEF Continues
  <2>. QED  BY <2>1, <2>3, <2>4
<1>. QED  BY <1>1, <1>2, <1>3, <1>6, <1>7, <1>8

\* The steps of a rotation that write a file, and the one that ends it.
LEMMA WriteOneUndisturbed ==
  ASSUME Typed, Typed', Undisturbed, causes' \cap Interference = {}, NEW p \in Process,
         WriteOne(p), file' # file
  PROVE  Undisturbed'
<1>1. PICK n \in proc[p].left :
        /\ file' = [file EXCEPT ![n] = Encrypted(proc[p].newKey, proc[p].plain[n])]
        /\ Encrypted(proc[p].newKey, proc[p].plain[n]) # None
        /\ proc'[p].pc = "write" /\ proc'[p].left = proc[p].left \ {n}
        /\ Blame("beside", Others(p) # {})
  BY WriteOneStep
<1>2. /\ proc[p].pc = "write" /\ proc[p].pc \in TwoKeyed /\ Continues(p) /\ keyring' = keyring
      /\ n \in WasRead(p) /\ n \in Name
  BY WriteOneStep, TwoKeys DEF WriteOne, TwoKeyed
<1>3. /\ \A m \in Name \ {n} : file'[m] = file[m]
      /\ file'[n] # None /\ file'[n].key = proc[p].newKey
  <2>1. file'[n] = Encrypted(proc[p].newKey, proc[p].plain[n])
    BY <1>1, <1>2 DEF Typed, TypeInv
  <2>. QED  BY <1>1, <1>2, <2>1 DEF Typed, TypeInv, Encrypted
<1>4. Others(p) = {}
  BY <1>1 DEF Blame, Interference
<1>5. Holds(p)'
  <2>1. Holds(p) /\ WasRead(p)' = WasRead(p)
    BY <1>2 DEF Undisturbed, WasRead, Continues
  <2>2. Present' = Present \cup {n}
    BY <1>2, <1>3 DEF Present
  <2>. QED  BY <1>1, <1>2, <1>3, <2>1, <2>2
            DEF Holds, Continues, Keeps, MasterKey, AnswerWhen, TwoKeyed
<1>6. \A b \in Backend : keyring[b] # file'[n].key
  BY <1>2, <1>3 DEF Undisturbed, Holds
<1>. QED  BY <1>2, <1>3, <1>4, <1>5, <1>6, WriteStep DEF Continues

LEMMA RollbackOneUndisturbed ==
  ASSUME Typed, Typed', Undisturbed, causes' \cap Interference = {}, NEW p \in Process,
         RollbackOne(p), file' # file
  PROVE  Undisturbed'
<1>1. PICK n \in proc[p].left :
        /\ Continues(p) /\ proc'[p].pc = "rollback"
        /\ file' = [file EXCEPT ![n] = Restored(p, n)] /\ Restored(p, n) # None
        /\ Blame("beside", Others(p) # {})
  BY RollbackOneStep
<1>2. /\ proc[p].pc = "rollback" /\ proc[p].pc \in TwoKeyed /\ keyring' = keyring
      /\ n \in Name /\ proc[p].key \in Key
  BY TwoKeys DEF RollbackOne, TwoKeyed
<1>3. /\ \A m \in Name \ {n} : file'[m] = file[m]
      /\ file'[n] # None /\ file'[n].key = proc[p].key
  <2>1. file'[n] = Restored(p, n)
    BY <1>1, <1>2 DEF Typed, TypeInv
  <2>. QED  BY <1>1, <1>2, <2>1 DEF Typed, TypeInv, Restored, Encrypted
<1>4. Others(p) = {}
  BY <1>1 DEF Blame, Interference
<1>5. Holds(p)'
  BY <1>1, <1>2 DEF Undisturbed, Holds, Continues, Keeps, MasterKey, AnswerWhen, TwoKeyed
<1>6. file'[n].key = MasterKey
  BY <1>2, <1>3, StoreAssumption DEF Undisturbed, Holds
<1>. QED  BY <1>1, <1>2, <1>3, <1>4, <1>5, <1>6, WriteStep DEF Continues

LEMMA SetKeyUndisturbed ==
  ASSUME Typed, Typed', Undisturbed, causes' \cap Interference = {}, NEW p \in Process,
         SetKey(p), proc'[p].pc # "rollback"
  PROVE  Undisturbed'
<1>1. /\ keyring' = Keep(proc[p].newKey) /\ proc'[p] = Ready(proc[p].newKey)
      /\ proc[p].newKey \in Key /\ OthersKept(p) /\ proc[p].left = {}
      /\ BlameAll([beside |-> Others(p) # {}, shadowed |-> Shadows(proc[p].newKey)])
  BY SetKeyStep
<1>2. proc[p].pc = "write" /\ proc[p].pc \in TwoKeyed /\ file' = file
  BY DEF SetKey, TwoKeyed
<1>3. Others(p) = {} /\ ~Shadows(proc[p].newKey)
  <2>. DEFINE beside == Others(p) # {}
  <2>1. BlameAll([beside |-> beside, shadowed |-> Shadows(proc[p].newKey)])
    BY <1>1
  <2>. HIDE DEF beside
  <2>2. ~beside /\ ~Shadows(proc[p].newKey)
    BY <2>1, BlameRecord DEF Interference
  <2>. QED  BY <2>2 DEF beside
<1>4. /\ \A b \in Backend : keyring[b] # proc[p].newKey
      /\ \A n \in Present : file[n].key = proc[p].newKey
  BY <1>1, <1>2 DEF Undisturbed, Holds
<1>. QED  BY <1>1, <1>2, <1>3, <1>4, NewMaster

LEMMA ResetUndisturbed ==
  ASSUME Typed, Undisturbed, causes' \cap Interference = {}, ResetOs
  PROVE  Undisturbed'
<1>1. /\ keyring["os"] # None /\ keyring' = [keyring EXCEPT !["os"] = None]
      /\ UNCHANGED <<file, proc>>
  BY DEF ResetOs
<1>2. \A p \in Process : ~Running(p)
  <2>. DEFINE beside == \E p \in Process : Running(p)
  <2>1. BlameAll([reset |-> TRUE, beside |-> beside])
    BY DEF ResetOs
  <2>. HIDE DEF beside
  <2>2. ~beside
    BY <2>1, BlameRecord DEF Interference
  <2>. QED  BY <2>2 DEF beside
<1>3. MasterKey = keyring["os"]
  BY <1>1 DEF MasterKey, AnswerWhen
<1>4. \A p \in Process : Holds(p)'
  BY <1>1, <1>2 DEF Running, Holds, Typed, TypeInv, LocalOK, Keyless, TwoKeyed
<1>5. \A b \in Backend : keyring'[b] = IF b = "os" THEN None ELSE keyring[b]
  BY <1>1 DEF Typed, TypeInv, Backend
<1>6. \A n \in Present' : \A b \in Backend : keyring'[b] # file'[n].key
                                            \/ file'[n].key = MasterKey'
  <2>1. \A n \in Present : file[n].key # None
    BY StoreAssumption DEF Present, Typed, TypeInv
  <2>2. ASSUME NEW n \in Present, file[n].key = keyring["os"], NEW b \in Backend
        PROVE  keyring'[b] # file[n].key
    BY <1>1, <1>5, <2>1, <2>2 DEF Undisturbed, Backend
  <2>3. ASSUME NEW n \in Present, file[n].key # keyring["os"], NEW b \in Backend
        PROVE  keyring'[b] # file[n].key
    BY <1>3, <1>5, <2>1, <2>3 DEF Undisturbed
  <2>. QED  BY <1>1, <2>2, <2>3 DEF Present
<1>7. \A b, c \in Backend : keyring'[b] = keyring'[c] => b = c \/ keyring'[b] = None
  BY <1>5 DEF Undisturbed
<1>. QED  BY <1>4, <1>6, <1>7 DEF Undisturbed

LEMMA NextDestroyInv == Typed /\ DestroyInv /\ [Next]_vars => DestroyInv'
<1> SUFFICES ASSUME Typed, DestroyInv, [Next]_vars, causes' \cap Interference = {}
             PROVE  Undisturbed'
  BY DEF DestroyInv
<1>1. Undisturbed /\ Typed'
  BY CausesGrow, NextTyped DEF DestroyInv
<1>2. CASE UNCHANGED vars \/ ToggleOs
  BY <1>1, <1>2 DEF vars, ToggleOs, Undisturbed, Holds, MasterKey, AnswerWhen, WasRead, Present
<1>3. CASE ResetOs
  BY <1>1, <1>3, ResetUndisturbed
<1>4. CASE \E p \in Process :
             \/ Start(p) \/ CheckOrphans(p) \/ DeleteOrphan(p) \/ CreateKey(p)
             \/ GetFails(p) \/ DeleteCorrupted(p)
             \/ \E n \in Name : Delete(p, n) \/ \E v \in Value : Set(p, n, v)
             \/ Rotate(p) \/ End(p)
  BY <1>1, <1>4, OpenUndisturbed, CreateKeyUndisturbed, SetUndisturbed, TurnUndisturbed,
     WriteOneUndisturbed, RollbackOneUndisturbed, SetKeyUndisturbed DEF Rotate
<1>. QED  BY <1>2, <1>3, <1>4 DEF Next

LEMMA InitDestroyInv == Init => DestroyInv
<1> SUFFICES ASSUME Init PROVE Undisturbed
  BY DEF DestroyInv
<1>1. \A p \in Process : proc[p].key = None /\ proc[p].pc = "down"
  BY DownState DEF Init
<1>. QED  BY <1>1 DEF Init, Undisturbed, Holds, Present, Backend, TwoKeyed

\* What Get and the deletion of orphans destroy no keyring backend has the key of,
\* even after an interrupted rotation, a failed rollback or a keychain reset; only
\* another process, or an OS keyring that comes and goes, can void that.
THEOREM OnlyUnreadableDestroyed == Spec => DestroysOnlyUnreadable
<1>1. Typed /\ DestroyInv /\ [Next]_vars =>
        [\A p \in Process : DeleteOrphan(p) \/ DeleteCorrupted(p) =>
           \A n \in Name :
             file[n] # None /\ file'[n] = None =>
               \/ \A b \in DOMAIN keyring : keyring[b] # file[n].key
               \/ causes' \cap {"unavailable", "shadowed", "beside",
                                "together", "crossed"} # {}]_vars
  <2> SUFFICES ASSUME Typed, DestroyInv, [Next]_vars, NEW p \in Process,
                      DeleteOrphan(p) \/ DeleteCorrupted(p),
                      NEW n \in Name, file[n] # None, file'[n] = None,
                      causes' \cap Interference = {}
               PROVE  \A b \in Backend : keyring[b] # file[n].key
    BY DEF Interference, Typed, TypeInv
  <2>1. Undisturbed /\ file[n].key \in Key /\ file[n].key # None
    BY CausesGrow, StoreAssumption DEF DestroyInv, Typed, TypeInv
  <2>2. CASE DeleteOrphan(p)
    <3>1. MasterKey = None
      BY <2>2 DEF DeleteOrphan, Blame, MasterKey, Interference
    <3>2. \A b \in Backend : keyring[b] = None
      BY <3>1 DEF MasterKey, AnswerWhen, Backend
    <3>. QED  BY <2>1, <3>2
  <2>3. CASE DeleteCorrupted(p)
    <3>1. n \in proc[p].left /\ proc[p].pc = "corrupted" /\ proc[p].key \in Key
      BY <2>3, DeleteCorruptedStep DEF DeleteCorrupted
    <3>2. proc[p].key = MasterKey /\ file[n].key # proc[p].key
      BY <2>1, <3>1, StoreAssumption DEF Undisturbed, Holds
    <3>. QED  BY <2>1, <3>2 DEF Undisturbed, Present
  <2>. QED  BY <2>2, <2>3
<1>. QED  BY <1>1, InitTypeInv, NextTyped, InitDestroyInv, NextDestroyInv, PTL
          DEF Spec, Typed, DestroysOnlyUnreadable
=============================================================================
