------------------------ MODULE ResolverExecutorProofs ------------------------
(***************************************************************************)
(* Proofs about ResolverExecutor, for every set of resolvers with acyclic  *)
(* dependencies: TypeOK, RunsOnUsable, RecordsAreOwn, DeferredVerdicts and *)
(* ReportsFailures.                                                        *)
(***************************************************************************)
EXTENDS ResolverExecutor, FiniteSetTheorems, WellFoundedInduction, TLAPS

Loc == {"waiting", "queued", "running", "tracking", "recording", "storing", "done"}

TypeInv ==
  /\ policy \in Policy /\ limit \in Limit /\ given \in Given
  /\ step \in {"phases", "deferred", "done"} /\ phase \in 1..Phases
  /\ expired \in BOOLEAN /\ error \in BOOLEAN
  /\ pc \in [Resolver -> Loc]
  /\ verdict \in [Resolver -> {None, "success", "skipped", "fatal", "validation"}]
  /\ result \in [Resolver -> {None, "success", "failed"}]
  /\ failure \in [Resolver -> {None, "fatal", "validation"}]
  /\ outcome \in [Resolver -> {None, "success", "skipped", "dependency", "error"}]
  /\ tried \subseteq Resolver /\ shared \subseteq tried
  /\ copy \in [Resolver -> SUBSET tried] /\ attempts \in [Resolver -> SUBSET tried]
  /\ units \subseteq Units /\ deferredFailed \subseteq Units
  /\ suppressed \subseteq Units /\ evaluated \subseteq Units

\* What a goroutine has recorded, by the place it is at.
RecordInv(r) ==
  /\ outcome[r] # None <=> pc[r] = "done"
  /\ failure[r] # None <=> outcome[r] \in {"dependency", "error"}
  /\ outcome[r] = "dependency" => failure[r] = "fatal" /\ Collects
  /\ pc[r] = "storing" => verdict[r] # None
  /\ pc[r] = "recording" => verdict[r] # None
  /\ outcome[r] = "success" => result[r] = "success"
  /\ failure[r] = "validation" => result[r] = "failed"
  /\ r \notin Preset =>
       /\ result[r] = "success" => outcome[r] = "success"
       /\ outcome[r] \in {None, "skipped", "dependency"} => result[r] = None

\* The phases are run one after the other, and a later one only on what earlier
\* ones left.
PhaseInv ==
  /\ \A r \in Resolver :
       /\ PhaseOf[r] > phase => pc[r] = "waiting"
       /\ PhaseOf[r] < phase \/ (step # "phases" /\ PhaseOf[r] = phase) => pc[r] = "done"
       /\ PhaseOf[r] < phase /\ ~Collects => outcome[r] # "error"
       /\ pc[r] \notin {"waiting", "done"} =>
            \A d \in Deps[r] : \/ outcome[d] \in {"success", "skipped"}
                               \/ policy = "non-fatal" /\ Valid(d)
  /\ step = "deferred" \/ (step = "done" /\ ~error) => phase = Phases

\* A dependency that failed is owed to a resolver that failed itself.
BlameInv == (\E r \in Resolver : outcome[r] = "dependency") => Failed # {}

\* With one slot, whose attempts the shared list holds.
AttemptsInv ==
  limit = 1 =>
    /\ \A r, s \in Busy : r = s
    /\ Busy = {} => shared = {}
    /\ \A r \in Resolver :
         /\ pc[r] \in {"waiting", "queued"} => r \notin tried
         /\ attempts[r] = IF pc[r] = "done" THEN tried \cap {r} ELSE {}
         /\ pc[r] \in {"running", "recording", "storing"} => shared = tried \cap {r}
         /\ pc[r] = "tracking" => shared = {} /\ copy[r] = {} /\ r \notin tried
         /\ pc[r] = "storing" => copy[r] = shared

\* Deferred validation: what the units evaluated so far have left.
DeferredInv ==
  /\ step = "phases" => units = Units /\ deferredFailed = {} /\ suppressed = {}
  /\ deferredFailed \cap units = {}
  /\ \A u \in Units \ units : HasUsableValue(u) =>
       \/ u \in deferredFailed \cup suppressed
       \/ \A d \in Refs[u] : HasUsableValue(d)
  /\ \A u \in deferredFailed : \A d \in Refs[u] \cap (deferredFailed \cup units) : <<d, u>> \in RefersTo

\* What Execute returns.
ReturnInv ==
  /\ step # "done" => ~error
  /\ step = "done" =>
       /\ error <=> Failed # {} \/ deferredFailed # {}
       /\ units # {} => ~Collects /\ Failed # {}

IInv ==
  /\ TypeInv /\ (\A r \in Resolver : RecordInv(r)) /\ PhaseInv /\ BlameInv /\ AttemptsInv
  /\ DeferredInv /\ ReturnInv

-----------------------------------------------------------------------------
(* The phases. *)

\* A set of naturals that is not empty has a least element.
LEMMA LeastOf ==
  ASSUME NEW T \in SUBSET Nat, T # {}
  PROVE  \E m \in T : \A k \in T : m <= k
<1>1. PICK m \in T : \A k \in T : <<k, m>> \notin OpToRel(<, Nat)
  BY WFMin, NatLessThanWellFounded, Zenon
<1>2. \A k \in T : ~ (k < m)
  BY <1>1, Zenon DEF OpToRel
<1>. QED  BY <1>2

LEMMA MaxOf ==
  ASSUME NEW S \in SUBSET Nat, S # {}, NEW n \in Nat, \A x \in S : x <= n
  PROVE  Max(S) \in S /\ \A x \in S : x <= Max(S)
<1>. DEFINE B == {k \in Nat : \A x \in S : x <= k}
<1>1. PICK b \in B : \A k \in B : b <= k
  <2>1. n \in B /\ B \in SUBSET Nat
    OBVIOUS
  <2>. QED  BY <2>1, LeastOf
<1>2. b \in S
  <2>1. CASE b = 0
    <3>1. PICK x \in S : TRUE
      OBVIOUS
    <3>2. x \in Nat /\ x <= 0
      BY <1>1, <2>1
    <3>3. x = b
      BY <2>1, <3>2
    <3>. QED  BY <3>1, <3>3
  <2>2. CASE b # 0
    <3>1. b \in Nat /\ b - 1 \in Nat /\ ~(b <= b - 1)
      BY <2>2
    <3>2. b - 1 \notin B
      <4>. HIDE DEF B
      <4>. QED  BY <1>1, <3>1
    <3>3. PICK x \in S : ~(x <= b - 1)
      BY <3>1, <3>2
    <3>. QED  BY <3>1, <3>3
  <2>. QED  BY <2>1, <2>2
<1>3. \E x \in S : \A y \in S : x >= y
  BY <1>1, <1>2
<1>. HIDE DEF B
<1>4. Max(S) \in S /\ \A y \in S : Max(S) >= y
  BY <1>3 DEF Max
<1>. QED  BY <1>4

\* The phase of a resolver, from those of its dependencies.
PhaseFrom(f, r) == IF Deps[r] = {} THEN 1 ELSE 1 + Max({f[d] : d \in Deps[r]})

Orders(order) ==
  /\ order \in [Resolver -> 1..Cardinality(Resolver)]
  /\ \A r \in Resolver : \A d \in Deps[r] : order[d] < order[r]

LEMMA SizeIsNat == Cardinality(Resolver) \in Nat
BY ResolverExecutorAssumption, FS_CardinalityType

LEMMA OrderIsNat ==
  ASSUME NEW order, Orders(order), NEW r \in Resolver
  PROVE  /\ order[r] \in Nat /\ order[r] >= 1 /\ order[r] <= Cardinality(Resolver)
         /\ Deps[r] \subseteq Resolver
<1>1. order[r] \in 1..Cardinality(Resolver)
  BY DEF Orders
<1>2. Deps[r] \subseteq Resolver
  BY ResolverExecutorAssumption
<1>. QED  BY <1>1, <1>2, SizeIsNat

LEMMA PhaseFromSame ==
  ASSUME NEW r \in Resolver, NEW f, NEW g, \A d \in Deps[r] : f[d] = g[d]
  PROVE  PhaseFrom(f, r) = PhaseFrom(g, r)
<1>1. {f[d] : d \in Deps[r]} = {g[d] : d \in Deps[r]}
  OBVIOUS
<1>. QED  BY <1>1 DEF PhaseFrom

LEMMA PhaseFromBounds ==
  ASSUME NEW r \in Resolver, NEW f, NEW n \in Nat, \A d \in Deps[r] : f[d] \in 0..n
  PROVE  /\ PhaseFrom(f, r) \in 1..(n + 1)
         /\ \A d \in Deps[r] : f[d] < PhaseFrom(f, r)
<1>1. CASE Deps[r] = {}
  BY <1>1 DEF PhaseFrom
<1>2. CASE Deps[r] # {}
  <2>. DEFINE S == {f[d] : d \in Deps[r]}
  <2>1. S \in SUBSET Nat /\ S # {} /\ \A x \in S : x <= n
    BY <1>2
  <2>2. Max(S) \in S /\ \A x \in S : x <= Max(S)
    BY <2>1, MaxOf
  <2>3. Max(S) \in 0..n /\ PhaseFrom(f, r) = 1 + Max(S)
    BY <1>2, <2>2 DEF PhaseFrom
  <2>4. \A d \in Deps[r] : f[d] \in Nat /\ f[d] <= Max(S)
    BY <2>2
  <2>. HIDE DEF S
  <2>. QED  BY <2>3, <2>4
<1>. QED  BY <1>1, <1>2

\* The phases of the resolvers up to a place in the order exist.
LEMMA PhasesExist ==
  ASSUME NEW order, Orders(order)
  PROVE  \E f \in [Resolver -> Nat] :
           \A r \in Resolver : f[r] = PhaseFrom(f, r) /\ f[r] <= order[r]
<1>. DEFINE Upto(n) == {r \in Resolver : order[r] <= n}
            Good(f, n) == \A r \in Upto(n) : f[r] = PhaseFrom(f, r) /\ f[r] <= order[r]
            T == {n \in Nat : ~ \E f \in [Upto(n) -> Nat] : Good(f, n)}
<1>1. \A r \in Resolver : order[r] \in Nat /\ order[r] >= 1 /\ order[r] <= Cardinality(Resolver)
                          /\ Deps[r] \subseteq Resolver
  BY OrderIsNat
<1>2. ASSUME T # {} PROVE FALSE
  <2>1. PICK m \in T : \A k \in T : m <= k
    <3>1. T \in SUBSET Nat
      OBVIOUS
    <3>. HIDE DEF T
    <3>. QED  BY <1>2, <3>1, LeastOf
  <2>2. m # 0
    <3>1. Upto(0) = {}
      BY <1>1
    <3>2. [r \in Upto(0) |-> 0] \in [Upto(0) -> Nat] /\ Good([r \in Upto(0) |-> 0], 0)
      BY <3>1
    <3>3. 0 \notin T
      BY <3>2
    <3>. HIDE DEF T
    <3>. QED  BY <2>1, <3>3
  <2>3. m \in Nat /\ m - 1 \in Nat /\ m - 1 \notin T
    <3>1. m \in Nat
      BY <2>1
    <3>. HIDE DEF T
    <3>2. m - 1 \in Nat /\ ~(m <= m - 1)
      BY <2>2, <3>1
    <3>. QED  BY <2>1, <3>1, <3>2
  <2>4. PICK f \in [Upto(m - 1) -> Nat] : Good(f, m - 1)
    BY <2>3
  <2>. DEFINE g == [r \in Upto(m) |-> IF r \in Upto(m - 1) THEN f[r] ELSE PhaseFrom(f, r)]
  <2>5. ASSUME NEW r \in Upto(m)
        PROVE  /\ PhaseFrom(g, r) = PhaseFrom(f, r)
               /\ r \notin Upto(m - 1) => PhaseFrom(f, r) \in Nat /\ PhaseFrom(f, r) <= order[r]
    <3>1. r \in Resolver /\ order[r] <= m /\ order[r] \in Nat
      BY <1>1
    <3>2. ASSUME NEW d \in Deps[r]
          PROVE  d \in Upto(m - 1) /\ d \in Upto(m) /\ f[d] \in 0..(m - 1)
      <4>1. d \in Resolver /\ order[d] < order[r] /\ order[d] \in Nat
        BY <1>1, <3>1 DEF Orders
      <4>2. d \in Upto(m - 1) /\ d \in Upto(m) /\ order[d] <= m - 1
        BY <2>3, <3>1, <4>1
      <4>3. f[d] \in Nat /\ f[d] <= order[d]
        BY <2>4, <4>2
      <4>. QED  BY <2>3, <4>1, <4>2, <4>3
    <3>3. \A d \in Deps[r] : f[d] = g[d]
      BY <3>2
    <3>4. PhaseFrom(g, r) = PhaseFrom(f, r)
      <4>. HIDE DEF g
      <4>. QED  BY <3>1, <3>3, PhaseFromSame
    <3>5. PhaseFrom(f, r) \in 1..((m - 1) + 1)
      <4>1. \A d \in Deps[r] : f[d] \in 0..(m - 1)
        BY <3>2
      <4>. QED  BY <2>3, <3>1, <4>1, PhaseFromBounds
    <3>6. r \notin Upto(m - 1) => order[r] = m
      BY <2>3, <3>1
    <3>. QED  BY <2>3, <3>4, <3>5, <3>6
  <2>6. g \in [Upto(m) -> Nat]
    BY <2>4, <2>5
  <2>7. Good(g, m)
    <3>1. ASSUME NEW r \in Upto(m) PROVE g[r] = PhaseFrom(g, r) /\ g[r] <= order[r]
      <4>1. CASE r \in Upto(m - 1)
        BY <2>4, <2>5, <4>1
      <4>2. CASE r \notin Upto(m - 1)
        BY <2>5, <4>2
      <4>. QED  BY <4>1, <4>2
    <3>. QED  BY <3>1
  <2>. QED  BY <2>1, <2>6, <2>7
<1>3. PICK f \in [Upto(Cardinality(Resolver)) -> Nat] : Good(f, Cardinality(Resolver))
  BY <1>2, SizeIsNat
<1>4. Upto(Cardinality(Resolver)) = Resolver
  BY <1>1
<1>. QED  BY <1>3, <1>4

LEMMA PhaseOfEquation ==
  /\ PhaseOf \in [Resolver -> 0..Cardinality(Resolver)]
  /\ \A r \in Resolver : PhaseOf[r] = PhaseFrom(PhaseOf, r)
<1>1. PICK order : Orders(order)
  BY ResolverExecutorAssumption DEF Orders
<1>2. PICK f \in [Resolver -> Nat] :
             \A r \in Resolver : f[r] = PhaseFrom(f, r) /\ f[r] <= order[r]
  BY <1>1, PhasesExist
<1>3. f = [r \in Resolver |-> IF Deps[r] = {} THEN 1 ELSE 1 + Max({f[d] : d \in Deps[r]})]
  BY <1>2 DEF PhaseFrom
<1>4. PhaseOf = [r \in Resolver |-> IF Deps[r] = {} THEN 1
                                    ELSE 1 + Max({PhaseOf[d] : d \in Deps[r]})]
  BY <1>3 DEF PhaseOf
<1>5. \A r \in Resolver : PhaseOf[r] = PhaseFrom(PhaseOf, r)
  BY <1>4 DEF PhaseFrom
<1>6. \A r \in Resolver : order[r] \in Nat /\ Deps[r] \subseteq Resolver
  BY <1>1, OrderIsNat
<1>7. ASSUME NEW x \in Resolver, PhaseOf[x] # f[x] PROVE FALSE
  <2>. DEFINE T == {n \in Nat : \E r \in Resolver : order[r] = n /\ PhaseOf[r] # f[r]}
  <2>1. T \in SUBSET Nat /\ T # {}
    BY <1>6, <1>7
  <2>2. PICK m \in T : \A k \in T : m <= k
    <3>. HIDE DEF T
    <3>. QED  BY <2>1, LeastOf
  <2>3. PICK r \in Resolver : order[r] = m /\ PhaseOf[r] # f[r]
    BY <2>2
  <2>4. \A d \in Deps[r] : PhaseOf[d] = f[d]
    BY <1>1, <1>6, <2>2, <2>3 DEF Orders
  <2>. QED  BY <1>2, <1>5, <2>3, <2>4, PhaseFromSame
<1>8. PhaseOf = [r \in Resolver |-> PhaseOf[r]]
  BY <1>4, Zenon
<1>9. \A r \in Resolver : f[r] \in 0..Cardinality(Resolver)
  BY <1>1, <1>2, OrderIsNat, SizeIsNat
<1>. QED  BY <1>5, <1>7, <1>8, <1>9

\* The phases are numbered from 1; a dependency is in an earlier one.
LEMMA Phasing ==
  /\ Phases \in Nat \ {0}
  /\ \A r \in Resolver : PhaseOf[r] \in 1..Phases
  /\ \A r \in Resolver : \A d \in Deps[r] : d \in Resolver /\ PhaseOf[d] < PhaseOf[r]
<1>. DEFINE N == Cardinality(Resolver)
            S == {PhaseOf[r] : r \in Resolver}
<1>1. Resolver # {} /\ \A r \in Resolver : Deps[r] \subseteq Resolver
  BY ResolverExecutorAssumption
<1>2. N \in Nat
  BY SizeIsNat
<1>3. \A r \in Resolver : PhaseOf[r] \in 0..N
  BY PhaseOfEquation
<1>4. ASSUME NEW r \in Resolver
      PROVE  PhaseOf[r] \in 1..(N + 1) /\ \A d \in Deps[r] : PhaseOf[d] < PhaseOf[r]
  <2>1. \A d \in Deps[r] : PhaseOf[d] \in 0..N
    BY <1>1, <1>3
  <2>2. PhaseOf[r] = PhaseFrom(PhaseOf, r)
    BY PhaseOfEquation
  <2>. HIDE DEF N
  <2>. QED  BY <1>2, <2>1, <2>2, PhaseFromBounds
<1>5. S \in SUBSET Nat /\ S # {} /\ \A x \in S : x <= N
  BY <1>1, <1>2, <1>3
<1>6. Max(S) \in S /\ \A x \in S : x <= Max(S)
  <2>. HIDE DEF S, N
  <2>. QED  BY <1>2, <1>5, MaxOf
<1>7. Phases = Max(S)
  BY DEF Phases
<1>8. \A r \in Resolver : PhaseOf[r] \in S
  OBVIOUS
<1>9. Max(S) \in Nat /\ Max(S) >= 1
  BY <1>2, <1>4, <1>6
<1>10. \A r \in Resolver : PhaseOf[r] \in Nat /\ PhaseOf[r] >= 1 /\ PhaseOf[r] <= Max(S)
  <2>1. \A r \in Resolver : PhaseOf[r] <= Max(S)
    <3>. HIDE DEF S
    <3>. QED  BY <1>6, <1>8
  <2>. QED  BY <1>2, <1>4, <2>1
<1>. QED  BY <1>1, <1>4, <1>7, <1>9, <1>10

\* A unit refers to the units its rule names.
LEMMA RefersDirectly ==
  ASSUME NEW u \in Units, NEW d \in Refs[u] \cap Units
  PROVE  <<u, d>> \in RefersTo
<1>1. u \in Resolver /\ d \in Resolver
  BY DEF Units
<1>2. ASSUME NEW S \in SUBSET Units, Refs[u] \cap Units \subseteq S
      PROVE  d \in S
  BY <1>2
<1>. QED  BY <1>1, <1>2 DEF RefersTo

-----------------------------------------------------------------------------
(* The initial states, and the frame of a goroutine's step. *)

LEMMA NoneIsNoOutcome == None \notin {"success", "skipped", "dependency", "error", "failed", "fatal", "validation"}
BY ResolverExecutorAssumption

LEMMA InitIInv == Init => IInv
<1>. SUFFICES ASSUME Init PROVE IInv
  OBVIOUS
<1>. USE NoneIsNoOutcome
<1>0. phase = 1 /\ phase \in 1..Phases /\ \A r \in Resolver : ~(PhaseOf[r] < phase)
  <2>1. phase = 1
    BY DEF Init
  <2>2. \A r \in Resolver : PhaseOf[r] >= 1 /\ PhaseOf[r] \in Nat
    BY Phasing
  <2>. QED  BY <2>1, <2>2, Phasing
<1>1. TypeInv
  <2>1. result \in [Resolver -> {None, "success", "failed"}]
    BY DEF Init
  <2>2. /\ pc \in [Resolver -> Loc]
        /\ verdict \in [Resolver -> {None, "success", "skipped", "fatal", "validation"}]
        /\ failure \in [Resolver -> {None, "fatal", "validation"}]
        /\ outcome \in [Resolver -> {None, "success", "skipped", "dependency", "error"}]
    BY DEF Init, Loc
  <2>3. /\ tried \subseteq Resolver /\ shared \subseteq tried
        /\ copy \in [Resolver -> SUBSET tried] /\ attempts \in [Resolver -> SUBSET tried]
    BY DEF Init
  <2>. QED  BY <1>0, <2>1, <2>2, <2>3 DEF Init, TypeInv
<1>2. \A r \in Resolver : RecordInv(r)
  BY DEF Init, RecordInv, Preset
<1>3. PhaseInv
  <2>1. step = "phases" /\ \A r \in Resolver : pc[r] = "waiting"
    BY DEF Init
  <2>. QED  BY <1>0, <2>1 DEF PhaseInv
<1>4. BlameInv
  BY DEF Init, BlameInv
<1>5. AttemptsInv
  BY DEF Init, AttemptsInv, Busy
<1>6. DeferredInv
  BY DEF Init, DeferredInv
<1>7. ReturnInv
  BY DEF Init, ReturnInv
<1>. QED  BY <1>1, <1>2, <1>3, <1>4, <1>5, <1>6, <1>7 DEF IInv

\* What the goroutine of a resolver does.
Work(r) ==
  \/ CheckDeps(r) \/ Acquire(r) \/ TimeOut(r) \/ Decide(r) \/ TryFails(r)
  \/ TrackFailedAttempt(r) \/ TakeAttempts(r) \/ StoreResult(r)

\* A goroutine works in its phase, and leaves what is recorded of others alone.
LEMMA WorkFrame ==
  ASSUME TypeInv, NEW r \in Resolver, Work(r)
  PROVE  /\ step = "phases" /\ PhaseOf[r] = phase /\ pc[r] # "done"
         /\ UNCHANGED <<policy, limit, given, step, phase, expired, error>>
         /\ UNCHANGED <<units, deferredFailed, suppressed, evaluated>>
         /\ \A s \in Resolver \ {r} :
              /\ pc'[s] = pc[s] /\ verdict'[s] = verdict[s] /\ result'[s] = result[s]
              /\ failure'[s] = failure[s] /\ outcome'[s] = outcome[s]
              /\ copy'[s] = copy[s] /\ attempts'[s] = attempts[s]
<1>. USE DEF TypeInv, At, Goto, Ends, config, deferred
<1>1. CASE CheckDeps(r)
  BY <1>1 DEF CheckDeps
<1>2. CASE Acquire(r)
  BY <1>2 DEF Acquire
<1>3. CASE TimeOut(r)
  BY <1>3 DEF TimeOut
<1>4. CASE Decide(r)
  BY <1>4 DEF Decide
<1>5. CASE TryFails(r)
  BY <1>5 DEF TryFails
<1>6. CASE TrackFailedAttempt(r)
  BY <1>6 DEF TrackFailedAttempt
<1>7. CASE TakeAttempts(r)
  BY <1>7 DEF TakeAttempts
<1>8. CASE StoreResult(r)
  BY <1>8 DEF StoreResult
<1>. QED  BY <1>1, <1>2, <1>3, <1>4, <1>5, <1>6, <1>7, <1>8 DEF Work

\* The steps of Execute itself.
LEMMA NextCases ==
  ASSUME [Next]_vars
  PROVE  \/ \E r \in Resolver : Work(r) \/ Evaluate(r)
         \/ Expire \/ EndPhase \/ Return \/ UNCHANGED vars
BY DEF Next, Work

-----------------------------------------------------------------------------
(* Each part of the invariant is kept by every step. *)

LEMMA VerdictsAre ==
  ASSUME given \in Given, NEW r \in Resolver, NEW v \in Verdicts(r)
  PROVE  v \in {"success", "skipped", "fatal", "validation"}
<1>1. given[r] \in {"none", "mocked", "seeded", "seeded failed"}
  BY ResolverExecutorAssumption
<1>. QED  BY <1>1 DEF Verdicts

LEMMA TypeStep ==
  ASSUME IInv, [Next]_vars
  PROVE  TypeInv'
<1>. USE NoneIsNoOutcome
<1>0. TypeInv
  BY DEF IInv
<1>1. ASSUME NEW r \in Resolver, Work(r) PROVE TypeInv'
  <2>. USE <1>0 DEF TypeInv, Loc, At, Goto, Ends, config, deferred
  <2>1. CASE CheckDeps(r)
    BY <2>1 DEF CheckDeps
  <2>2. CASE Acquire(r)
    BY <2>2 DEF Acquire
  <2>3. CASE TimeOut(r)
    BY <2>3 DEF TimeOut
  <2>4. CASE Decide(r)
    BY <2>4, VerdictsAre DEF Decide
  <2>5. CASE TryFails(r)
    BY <2>5 DEF TryFails
  <2>6. CASE TrackFailedAttempt(r)
    <3>1. copy' \in [Resolver -> SUBSET tried'] /\ attempts' \in [Resolver -> SUBSET tried']
      BY <2>6 DEF TrackFailedAttempt
    <3>2. tried' \subseteq Resolver /\ shared' \subseteq tried'
      BY <2>6 DEF TrackFailedAttempt
    <3>. QED  BY <2>6, <3>1, <3>2 DEF TrackFailedAttempt
  <2>7. CASE TakeAttempts(r)
    BY <2>7 DEF TakeAttempts
  <2>8. CASE StoreResult(r)
    <3>1. shared' \subseteq tried'
      BY <2>8 DEF StoreResult, DropAttempts
    <3>2. copy' \in [Resolver -> SUBSET tried'] /\ attempts' \in [Resolver -> SUBSET tried']
      BY <2>8 DEF StoreResult
    <3>3. /\ result' \in [Resolver -> {None, "success", "failed"}]
          /\ failure' \in [Resolver -> {None, "fatal", "validation"}]
      BY <2>8 DEF StoreResult
    <3>4. /\ outcome' \in [Resolver -> {None, "success", "skipped", "dependency", "error"}]
          /\ pc' \in [Resolver -> Loc]
      BY <2>8 DEF StoreResult
    <3>. QED  BY <2>8, <3>1, <3>2, <3>3, <3>4 DEF StoreResult
  <2>. QED  BY <1>1, <2>1, <2>2, <2>3, <2>4, <2>5, <2>6, <2>7, <2>8 DEF Work
<1>2. ASSUME NEW u \in Resolver, Evaluate(u) PROVE TypeInv'
  BY <1>0, <1>2 DEF Evaluate, TypeInv, config
<1>3. CASE Expire
  BY <1>0, <1>3 DEF Expire, TypeInv, config, deferred
<1>4. CASE EndPhase
  <2>1. phase' \in 1..Phases
    BY <1>0, <1>4, Phasing DEF EndPhase, TypeInv
  <2>. QED  BY <1>0, <1>4, <2>1 DEF EndPhase, TypeInv, config, deferred
<1>5. CASE Return
  BY <1>0, <1>5 DEF Return, ReturnedError, TypeInv, config, deferred
<1>6. CASE UNCHANGED vars
  BY <1>0, <1>6 DEF vars, TypeInv
<1>. QED  BY <1>1, <1>2, <1>3, <1>4, <1>5, <1>6, NextCases

\* What one goroutine records of its resolver.
LEMMA RecordWork ==
  ASSUME TypeInv, NEW r \in Resolver, RecordInv(r), Work(r)
  PROVE  RecordInv(r)'
<1>. USE NoneIsNoOutcome DEF TypeInv, At, Goto, Ends, config, deferred, RecordInv, Preset
<1>1. CASE CheckDeps(r)
  BY <1>1 DEF CheckDeps, Collects
<1>2. CASE Acquire(r)
  BY <1>2 DEF Acquire, Collects
<1>3. CASE TimeOut(r)
  BY <1>3 DEF TimeOut, Collects
<1>4. CASE Decide(r)
  <2>1. verdict'[r] # None
    BY <1>4, VerdictsAre DEF Decide
  <2>. QED  BY <1>4, <2>1 DEF Decide, Collects
<1>5. CASE TryFails(r)
  BY <1>5 DEF TryFails, Collects
<1>6. CASE TrackFailedAttempt(r)
  BY <1>6 DEF TrackFailedAttempt, Collects
<1>7. CASE TakeAttempts(r)
  BY <1>7 DEF TakeAttempts, Collects
<1>8. CASE StoreResult(r)
  <2>1. outcome[r] = None /\ failure[r] = None
    BY <1>8 DEF StoreResult
  <2>2. verdict[r] \in {"success", "skipped", "fatal", "validation"}
    BY <1>8 DEF StoreResult
  <2>3. pc'[r] = "done" /\ given' = given /\ policy' = policy
    BY <1>8 DEF StoreResult
  <2>4. CASE verdict[r] = "success"
    <3>1. outcome'[r] = "success" /\ result'[r] = "success" /\ failure'[r] = None
      BY <1>8, <2>1, <2>4 DEF StoreResult
    <3>. QED  BY <2>3, <3>1
  <2>5. CASE verdict[r] = "skipped"
    <3>1. outcome'[r] = "skipped" /\ result'[r] = result[r] /\ failure'[r] = None
      BY <1>8, <2>1, <2>5 DEF StoreResult
    <3>. QED  BY <2>1, <2>3, <3>1
  <2>6. CASE verdict[r] \in {"fatal", "validation"}
    <3>1. outcome'[r] = "error" /\ result'[r] = "failed" /\ failure'[r] = verdict[r]
      BY <1>8, <2>6 DEF StoreResult
    <3>. QED  BY <2>3, <2>6, <3>1
  <2>. QED  BY <2>2, <2>4, <2>5, <2>6
<1>. QED  BY <1>1, <1>2, <1>3, <1>4, <1>5, <1>6, <1>7, <1>8 DEF Work

\* Steps of Execute leave the records alone.
LEMMA RecordSame ==
  ASSUME NEW s \in Resolver, RecordInv(s), policy' = policy, given' = given,
         pc'[s] = pc[s], verdict'[s] = verdict[s], result'[s] = result[s],
         failure'[s] = failure[s], outcome'[s] = outcome[s]
  PROVE  RecordInv(s)'
BY DEF RecordInv, Preset, Collects

LEMMA RecordStep ==
  ASSUME IInv, [Next]_vars, NEW s \in Resolver
  PROVE  RecordInv(s)'
<1>0. TypeInv /\ RecordInv(s)
  BY DEF IInv
<1>1. ASSUME NEW r \in Resolver, Work(r) PROVE RecordInv(s)'
  <2>1. CASE s = r
    BY <1>0, <1>1, <2>1, RecordWork
  <2>2. CASE s # r
    BY <1>0, <1>1, <2>2, WorkFrame, RecordSame
  <2>. QED  BY <2>1, <2>2
<1>2. CASE \/ \E u \in Resolver : Evaluate(u)
           \/ Expire \/ EndPhase \/ Return \/ UNCHANGED vars
  <2>1. UNCHANGED <<policy, given, pc, verdict, result, failure, outcome>>
    BY <1>2 DEF Evaluate, Expire, EndPhase, Return, vars, config
  <2>. QED  BY <1>0, <2>1, RecordSame
<1>. QED  BY <1>1, <1>2, NextCases

\* A goroutine past its check of dependencies has found them usable.
Usable(d) ==
  \/ outcome[d] \in {"success", "skipped"}
  \/ policy = "non-fatal" /\ Valid(d)

LEMMA CheckedDeps ==
  ASSUME IInv, NEW r \in Resolver, CheckDeps(r), pc'[r] # "done", NEW d \in Deps[r]
  PROVE  Usable(d)
<1>. USE NoneIsNoOutcome
<1>1. PhaseOf[r] = phase /\ d \in Resolver /\ PhaseOf[d] < phase
  BY Phasing DEF CheckDeps, At
<1>2. TypeInv /\ RecordInv(d) /\ PhaseInv
  BY <1>1 DEF IInv
<1>3. pc[d] = "done" /\ outcome[d] # None
  BY <1>1, <1>2 DEF PhaseInv, RecordInv
<1>4. outcome[d] \in {"success", "skipped", "dependency", "error"}
  BY <1>1, <1>2, <1>3 DEF TypeInv
<1>5. CASE ~Collects
  <2>1. outcome[d] # "error"
    BY <1>1, <1>2, <1>5 DEF PhaseInv
  <2>2. outcome[d] # "dependency"
    BY <1>2, <1>5 DEF RecordInv
  <2>. QED  BY <1>4, <2>1, <2>2 DEF Usable
<1>6. CASE Collects
  <2>1. FailedDeps(r) = {}
    BY <1>2, <1>6 DEF CheckDeps, Goto, Ends, TypeInv
  <2>2. failure[d] = None \/ (failure[d] = "validation" /\ policy = "non-fatal")
    BY <2>1 DEF FailedDeps
  <2>3. CASE failure[d] = None
    BY <1>2, <1>4, <2>3 DEF RecordInv, Usable
  <2>4. CASE failure[d] = "validation" /\ policy = "non-fatal"
    BY <1>2, <2>4 DEF RecordInv, Usable, Valid
  <2>. QED  BY <2>2, <2>3, <2>4
<1>. QED  BY <1>5, <1>6

\* One resolver's part of PhaseInv.
Phased(r) ==
  /\ PhaseOf[r] > phase => pc[r] = "waiting"
  /\ PhaseOf[r] < phase \/ (step # "phases" /\ PhaseOf[r] = phase) => pc[r] = "done"
  /\ PhaseOf[r] < phase /\ ~Collects => outcome[r] # "error"
  /\ pc[r] \notin {"waiting", "done"} => \A d \in Deps[r] : Usable(d)

LEMMA PhaseParts ==
  PhaseInv <=> /\ \A r \in Resolver : Phased(r)
               /\ step = "deferred" \/ (step = "done" /\ ~error) => phase = Phases
BY DEF PhaseInv, Phased, Usable

\* A goroutine's step leaves what is usable usable.
LEMMA UsableKept ==
  ASSUME IInv, NEW r \in Resolver, Work(r), NEW d \in Resolver, Usable(d)
  PROVE  Usable(d)'
<1>1. TypeInv /\ RecordInv(d)
  BY DEF IInv
<1>2. outcome[d] # None
  BY NoneIsNoOutcome DEF Usable, Valid
<1>3. d # r
  BY <1>1, <1>2, WorkFrame DEF RecordInv
<1>4. outcome'[d] = outcome[d] /\ failure'[d] = failure[d] /\ policy' = policy
  BY <1>1, <1>3, WorkFrame
<1>. QED  BY <1>4 DEF Usable, Valid

LEMMA PhaseStep ==
  ASSUME IInv, [Next]_vars
  PROVE  PhaseInv'
<1>0. TypeInv /\ PhaseInv /\ \A r \in Resolver : Phased(r)
  BY PhaseParts DEF IInv
<1>. USE DEF config, deferred
<1>1. ASSUME NEW r \in Resolver, Work(r) PROVE PhaseInv'
  <2>0. /\ step = "phases" /\ step' = "phases" /\ PhaseOf[r] = phase /\ phase' = phase
        /\ policy' = policy /\ PhaseOf[r] \in Nat
    BY <1>0, <1>1, WorkFrame, Phasing
  <2>1. ASSUME NEW s \in Resolver PROVE Phased(s)'
    <3>1. CASE s # r
      <4>1. pc'[s] = pc[s] /\ outcome'[s] = outcome[s]
        BY <1>0, <1>1, <3>1, WorkFrame
      <4>2. pc[s] \notin {"waiting", "done"} => \A d \in Deps[s] : Usable(d)'
        BY <1>0, <1>1, UsableKept, Phasing DEF Phased
      <4>. QED  BY <1>0, <2>0, <4>1, <4>2 DEF Phased, Collects
    <3>2. CASE s = r
      <4>1. pc'[r] # "done" => \A d \in Deps[r] : Usable(d)
        <5>1. CASE CheckDeps(r)
          BY <5>1, CheckedDeps
        <5>2. CASE ~CheckDeps(r)
          <6>1. pc[r] \notin {"waiting", "done"}
            BY <1>1, <5>2 DEF Work, At, Acquire, TimeOut, Decide, TryFails,
                              TrackFailedAttempt, TakeAttempts, StoreResult
          <6>. QED  BY <1>0, <6>1 DEF Phased
        <5>. QED  BY <5>1, <5>2
      <4>2. pc'[r] # "done" => \A d \in Deps[r] : Usable(d)'
        BY <1>1, <4>1, UsableKept, Phasing
      <4>. QED  BY <2>0, <3>2, <4>2 DEF Phased
    <3>. QED  BY <3>1, <3>2
  <2>. QED  BY <2>0, <2>1, PhaseParts DEF PhaseInv, Phased, Usable
<1>2. ASSUME \/ \E u \in Resolver : Evaluate(u)
             \/ Expire \/ Return \/ UNCHANGED vars
      PROVE  PhaseInv'
  <2>1. UNCHANGED <<policy, phase, pc, outcome, failure>>
    BY <1>2 DEF Evaluate, Expire, Return, vars
  <2>2. \/ UNCHANGED <<step, error>>
        \/ step = "deferred" /\ step' = "done"
    BY <1>2 DEF Evaluate, Expire, Return, vars
  <2>. QED  BY <1>0, <2>1, <2>2 DEF PhaseInv, Collects, Valid
<1>3. CASE EndPhase
  <2>. DEFINE stops == ~Collects /\ Failed # {}
  <2>1. /\ UNCHANGED <<policy, pc, outcome, failure>> /\ step = "phases"
        /\ \A r \in Resolver : PhaseOf[r] = phase => pc[r] = "done"
        /\ step' = IF stops THEN "done" ELSE IF phase < Phases THEN "phases" ELSE "deferred"
        /\ phase' = IF ~stops /\ phase < Phases THEN phase + 1 ELSE phase
        /\ error' = stops
    BY <1>3 DEF EndPhase, Group
  <2>2. phase \in Nat /\ Phases \in Nat /\ phase <= Phases /\ \A r \in Resolver : PhaseOf[r] \in Nat
    BY <1>0, Phasing DEF TypeInv
  <2>3. \A r \in Resolver : Usable(r)' <=> Usable(r)
    BY <2>1 DEF Usable, Valid
  <2>4. stops \/ ~stops
    OBVIOUS
  <2>5. ~stops => \A r \in Resolver : ~Collects => outcome[r] # "error"
    BY DEF Failed
  <2>. HIDE DEF stops
  <2>6. ASSUME NEW r \in Resolver PROVE Phased(r)'
    <3>1. Phased(r) /\ \A d \in Deps[r] : d \in Resolver
      BY <1>0, Phasing
    <3>2. PhaseOf[r] > phase' => pc[r] = "waiting"
      BY <2>1, <2>2, <3>1 DEF Phased
    <3>3. PhaseOf[r] < phase' \/ PhaseOf[r] = phase => pc[r] = "done"
      BY <2>1, <2>2, <3>1 DEF Phased
    <3>4. step' # "phases" => phase' = phase
      BY <2>1
    <3>5. PhaseOf[r] < phase' /\ ~Collects => outcome[r] # "error"
      BY <2>1, <2>2, <2>5, <3>1 DEF Phased
    <3>6. pc[r] \notin {"waiting", "done"} => \A d \in Deps[r] : Usable(d)'
      BY <2>3, <3>1 DEF Phased
    <3>7. (Collects' <=> Collects) /\ pc'[r] = pc[r] /\ outcome'[r] = outcome[r]
      BY <2>1 DEF Collects
    <3>. QED  BY <3>2, <3>3, <3>4, <3>5, <3>6, <3>7 DEF Phased
  <2>7. step' = "deferred" \/ (step' = "done" /\ ~error') => phase' = Phases
    BY <2>1, <2>2
  <2>. QED  BY <2>6, <2>7 DEF PhaseInv, Phased, Usable
<1>. QED  BY <1>1, <1>2, <1>3, NextCases

LEMMA BlameStep ==
  ASSUME IInv, [Next]_vars
  PROVE  BlameInv'
<1>. USE NoneIsNoOutcome
<1>0. TypeInv /\ BlameInv /\ \A r \in Resolver : RecordInv(r)
  BY DEF IInv
<1>1. ASSUME NEW r \in Resolver, Work(r) PROVE BlameInv'
  <2>1. outcome[r] = None
    BY <1>0, <1>1, WorkFrame DEF RecordInv
  <2>2. \A s \in Resolver : outcome[s] = "error" => outcome'[s] = "error"
    BY <1>0, <1>1, <2>1, WorkFrame
  <2>3. CASE outcome'[r] = "dependency"
    <3>1. CheckDeps(r) /\ FailedDeps(r) # {}
      BY <1>0, <1>1, <2>1, <2>3
         DEF Work, CheckDeps, Acquire, TimeOut, Decide, TryFails, TrackFailedAttempt,
             TakeAttempts, StoreResult, Ends, TypeInv
    <3>2. PICK d \in Deps[r] : failure[d] # None
      BY <3>1 DEF FailedDeps
    <3>3. d \in Resolver
      BY Phasing
    <3>4. outcome[d] \in {"dependency", "error"}
      BY <1>0, <3>2, <3>3 DEF RecordInv
    <3>5. Failed # {}
      BY <1>0, <3>3, <3>4 DEF BlameInv, Failed
    <3>. QED  BY <2>2, <3>5 DEF BlameInv, Failed
  <2>4. CASE outcome'[r] # "dependency"
    <3>1. \A s \in Resolver : outcome'[s] = "dependency" => outcome[s] = "dependency"
      BY <1>0, <1>1, <2>4, WorkFrame
    <3>. QED  BY <1>0, <2>2, <3>1 DEF BlameInv, Failed
  <2>. QED  BY <2>3, <2>4
<1>2. CASE \/ \E u \in Resolver : Evaluate(u)
           \/ Expire \/ EndPhase \/ Return \/ UNCHANGED vars
  <2>1. outcome' = outcome
    BY <1>2 DEF Evaluate, Expire, EndPhase, Return, vars
  <2>. QED  BY <1>0, <2>1 DEF BlameInv, Failed
<1>. QED  BY <1>1, <1>2, NextCases

\* One resolver's part of AttemptsInv.
Attempted(r) ==
  /\ pc[r] \in {"waiting", "queued"} => r \notin tried
  /\ attempts[r] = IF pc[r] = "done" THEN tried \cap {r} ELSE {}
  /\ pc[r] \in {"running", "recording", "storing"} => shared = tried \cap {r}
  /\ pc[r] = "tracking" => shared = {} /\ copy[r] = {} /\ r \notin tried
  /\ pc[r] = "storing" => copy[r] = shared

\* A goroutine that takes the only slot finds it free.
LEMMA OnlySlot ==
  ASSUME limit = 1, Slots
  PROVE  Busy = {}
<1>1. IsFiniteSet(Busy)
  BY ResolverExecutorAssumption, FS_Subset DEF Busy
<1>2. Cardinality(Busy) \in Nat /\ Cardinality(Busy) < 1
  BY <1>1, FS_CardinalityType DEF Slots
<1>. QED  BY <1>1, <1>2, FS_EmptySet

LEMMA AttemptsWork ==
  ASSUME TypeInv, AttemptsInv, limit = 1, NEW r \in Resolver, Work(r)
  PROVE  /\ \A p, s \in Busy' : p = s
         /\ Busy' = {} => shared' = {}
         /\ \A s \in Resolver : Attempted(s)'
<1>. DEFINE Goal == /\ \A p, s \in Busy' : p = s
                    /\ Busy' = {} => shared' = {}
                    /\ \A s \in Resolver : Attempted(s)'
<1>. SUFFICES Goal
  OBVIOUS
<1>1. /\ \A p, s \in Busy : p = s
      /\ Busy = {} => shared = {}
      /\ \A s \in Resolver : Attempted(s)
  BY DEF AttemptsInv, Attempted
<1>2. \A s \in Resolver \ {r} :
        pc'[s] = pc[s] /\ copy'[s] = copy[s] /\ attempts'[s] = attempts[s]
  BY WorkFrame
<1>3. Attempted(r) /\ tried \subseteq Resolver /\ shared \subseteq tried
  BY <1>1 DEF TypeInv
\* Others are not busy when this one is, before or after its step.
<1>4. ASSUME \A s \in Busy : s = r,
             Attempted(r)',
             pc'[r] \notin {"running", "tracking", "recording", "storing"} => shared' = {},
             tried \subseteq tried', tried' \subseteq tried \cup {r}
      PROVE  Goal
  <2>1. ASSUME NEW s \in Resolver, s # r
        PROVE  s \notin Busy /\ s \notin Busy' /\ Attempted(s)'
    <3>1. s \notin Busy /\ pc'[s] = pc[s]
      BY <1>2, <1>4, <2>1
    <3>2. pc[s] \in {"waiting", "queued", "done"}
      BY <3>1 DEF Busy, TypeInv, Loc
    <3>3. tried' \cap {s} = tried \cap {s} /\ attempts'[s] = attempts[s] /\ Attempted(s)
      BY <1>1, <1>2, <1>4, <2>1
    <3>. QED  BY <3>1, <3>2, <3>3 DEF Attempted, Busy
  <2>2. Busy' \subseteq {r}
    BY <2>1 DEF Busy
  <2>3. Busy' = {} => shared' = {}
    BY <1>4 DEF Busy
  <2>. QED  BY <1>4, <2>1, <2>2, <2>3
<1>5. ASSUME pc[r] \in {"waiting", "queued"}, pc'[r] \in {"queued", "done"},
             UNCHANGED <<shared, copy, attempts, tried>>
      PROVE  Goal
  <2>1. Busy' = Busy
    BY <1>2, <1>5 DEF Busy
  <2>2. Attempted(r)'
    BY <1>3, <1>5 DEF Attempted
  <2>3. ASSUME NEW s \in Resolver \ {r} PROVE Attempted(s)'
    <3>1. Attempted(s) /\ pc'[s] = pc[s]
      BY <1>1, <1>2
    <3>. QED  BY <1>5, <3>1 DEF Attempted
  <2>. QED  BY <1>1, <1>5, <2>1, <2>2, <2>3
<1>6. pc[r] \in {"running", "tracking", "recording", "storing"} => \A s \in Busy : s = r
  BY <1>1 DEF Busy
<1>. HIDE DEF Goal
<1>. USE DEF At, Goto, Ends
<1>7. CASE CheckDeps(r)
  BY <1>5, <1>7 DEF CheckDeps, TypeInv
<1>8. CASE Acquire(r)
  <2>1. Busy = {}
    BY <1>8, OnlySlot DEF Acquire
  <2>2. pc'[r] = "running" /\ pc[r] = "queued" /\ UNCHANGED <<shared, attempts, tried>>
    BY <1>8 DEF Acquire, TypeInv
  <2>3. Attempted(r)'
    BY <1>1, <1>3, <2>1, <2>2 DEF Attempted
  <2>. QED  BY <1>4, <2>1, <2>2, <2>3
<1>9. CASE TimeOut(r)
  BY <1>5, <1>9 DEF TimeOut, TypeInv
<1>10. CASE Decide(r)
  <2>1. pc'[r] = "recording" /\ pc[r] = "running" /\ UNCHANGED <<shared, attempts, tried>>
    BY <1>10 DEF Decide, TypeInv
  <2>2. Attempted(r)'
    BY <1>3, <2>1 DEF Attempted
  <2>. QED  BY <1>4, <1>6, <2>1, <2>2
<1>11. CASE TryFails(r)
  <2>1. /\ pc'[r] = "tracking" /\ pc[r] = "running" /\ UNCHANGED <<shared, attempts, tried>>
        /\ copy'[r] = shared /\ r \notin tried
    BY <1>11 DEF TryFails, TypeInv
  <2>2. Attempted(r)'
    BY <1>3, <2>1 DEF Attempted
  <2>. QED  BY <1>4, <1>6, <2>1, <2>2
<1>12. CASE TrackFailedAttempt(r)
  <2>1. /\ pc'[r] = "running" /\ pc[r] = "tracking" /\ UNCHANGED attempts
        /\ shared' = copy[r] \cup {r} /\ tried' = tried \cup {r}
    BY <1>12 DEF TrackFailedAttempt, TypeInv
  <2>2. Attempted(r)'
    BY <1>3, <2>1 DEF Attempted
  <2>. QED  BY <1>4, <1>6, <2>1, <2>2
<1>13. CASE TakeAttempts(r)
  <2>1. /\ pc'[r] = "storing" /\ pc[r] = "recording" /\ UNCHANGED <<shared, attempts, tried>>
        /\ copy'[r] = shared
    BY <1>13 DEF TakeAttempts, TypeInv
  <2>2. Attempted(r)'
    BY <1>3, <2>1 DEF Attempted
  <2>. QED  BY <1>4, <1>6, <2>1, <2>2
<1>14. CASE StoreResult(r)
  <2>1. /\ pc'[r] = "done" /\ pc[r] = "storing" /\ UNCHANGED tried
        /\ attempts'[r] = copy[r] /\ shared' = DropAttempts(r)
    BY <1>14 DEF StoreResult, TypeInv
  <2>2. copy[r] = shared /\ shared = tried \cap {r}
    BY <1>3, <2>1 DEF Attempted
  <2>3. shared' = {}
    BY <2>1, <2>2 DEF DropAttempts
  <2>4. Attempted(r)'
    BY <2>1, <2>2 DEF Attempted
  <2>. QED  BY <1>4, <1>6, <2>1, <2>3, <2>4
<1>. QED  BY <1>7, <1>8, <1>9, <1>10, <1>11, <1>12, <1>13, <1>14 DEF Work

LEMMA AttemptsStep ==
  ASSUME IInv, [Next]_vars
  PROVE  AttemptsInv'
<1>0. TypeInv /\ AttemptsInv
  BY DEF IInv
<1>1. ASSUME NEW r \in Resolver, Work(r) PROVE AttemptsInv'
  <2>1. limit' = limit
    BY <1>0, <1>1, WorkFrame
  <2>2. CASE limit = 1
    BY <1>0, <1>1, <2>2, AttemptsWork DEF AttemptsInv, Attempted
  <2>. QED  BY <2>1, <2>2 DEF AttemptsInv
<1>2. CASE \/ \E u \in Resolver : Evaluate(u)
           \/ Expire \/ EndPhase \/ Return \/ UNCHANGED vars
  <2>1. UNCHANGED <<limit, pc, shared, copy, attempts, tried>>
    BY <1>2 DEF Evaluate, Expire, EndPhase, Return, vars, config
  <2>. QED  BY <1>0, <2>1 DEF AttemptsInv, Busy
<1>. QED  BY <1>1, <1>2, NextCases

\* Deferred validation: one unit is evaluated.
LEMMA DeferredUnit ==
  ASSUME IInv, NEW u \in Resolver, Evaluate(u)
  PROVE  DeferredInv'
<1>0. TypeInv /\ DeferredInv
  BY DEF IInv
<1>1. /\ step = "deferred" /\ step' = "deferred" /\ u \in units /\ RootCauseFirst(u)
      /\ units' = units \ {u} /\ result' = result /\ failure' = failure
      /\ \A d \in Resolver : HasUsableValue(d)' <=> HasUsableValue(d)
  BY DEF Evaluate, HasUsableValue
<1>2. u \in Units /\ u \notin Refs[u] /\ Refs[u] \subseteq Resolver /\ Units \subseteq Resolver
  BY <1>0, <1>1, ResolverExecutorAssumption DEF TypeInv, Units
<1>3. /\ deferredFailed' \in {deferredFailed, deferredFailed \cup {u}}
      /\ deferredFailed' # deferredFailed => Refs[u] \cap deferredFailed = {}
      /\ suppressed \subseteq suppressed'
      /\ HasUsableValue(u) => \/ u \in deferredFailed' \cup suppressed'
                              \/ \A d \in Refs[u] : HasUsableValue(d)
  BY DEF Evaluate
<1>4. deferredFailed' \cap units' = {}
  BY <1>0, <1>1, <1>3 DEF DeferredInv
<1>5. ASSUME NEW w \in Units \ units', HasUsableValue(w)'
      PROVE  \/ w \in deferredFailed' \cup suppressed'
             \/ \A d \in Refs[w] : HasUsableValue(d)'
  <2>1. HasUsableValue(w) /\ Refs[w] \subseteq Resolver
    BY <1>1, <1>2, <1>5, ResolverExecutorAssumption
  <2>2. \/ w \in deferredFailed' \cup suppressed'
        \/ \A d \in Refs[w] : HasUsableValue(d)
    BY <1>0, <1>1, <1>3, <2>1 DEF DeferredInv
  <2>. QED  BY <1>1, <2>1, <2>2
<1>6. ASSUME NEW w \in deferredFailed', NEW d \in Refs[w] \cap (deferredFailed' \cup units')
      PROVE  <<d, w>> \in RefersTo
  <2>1. CASE w \in deferredFailed
    BY <1>0, <1>1, <1>3, <2>1 DEF DeferredInv
  <2>2. CASE w \notin deferredFailed
    <3>1. w = u /\ Refs[u] \cap deferredFailed = {}
      BY <1>3, <2>2
    <3>2. d \in units /\ d \in Refs[u] \cap Units
      BY <1>0, <1>1, <1>2, <1>3, <3>1 DEF TypeInv
    <3>3. <<u, d>> \in RefersTo
      BY <1>2, <3>2, RefersDirectly
    <3>. QED  BY <1>1, <3>1, <3>2, <3>3 DEF RootCauseFirst
  <2>. QED  BY <2>1, <2>2
<1>. QED  BY <1>1, <1>4, <1>5, <1>6 DEF DeferredInv

LEMMA DeferredStep ==
  ASSUME IInv, [Next]_vars
  PROVE  DeferredInv'
<1>0. TypeInv /\ DeferredInv
  BY DEF IInv
<1>1. ASSUME NEW r \in Resolver, Work(r) PROVE DeferredInv'
  <2>1. step = "phases" /\ UNCHANGED <<step, units, deferredFailed, suppressed, evaluated>>
    BY <1>0, <1>1, WorkFrame
  <2>. QED  BY <1>0, <2>1 DEF DeferredInv
<1>2. CASE \E u \in Resolver : Evaluate(u)
  BY <1>2, DeferredUnit
<1>3. CASE Expire \/ EndPhase \/ Return \/ UNCHANGED vars
  <2>1. UNCHANGED <<units, deferredFailed, suppressed, result, failure>>
    BY <1>3 DEF Expire, EndPhase, Return, vars, deferred
  <2>2. step' = "phases" => step = "phases"
    BY <1>3 DEF Expire, EndPhase, Return, vars
  <2>. QED  BY <1>0, <2>1, <2>2 DEF DeferredInv, HasUsableValue
<1>. QED  BY <1>1, <1>2, <1>3, NextCases

LEMMA ReturnStep ==
  ASSUME IInv, [Next]_vars
  PROVE  ReturnInv'
<1>0. TypeInv /\ DeferredInv /\ ReturnInv
  BY DEF IInv
<1>1. ASSUME NEW r \in Resolver, Work(r) PROVE ReturnInv'
  <2>1. step = "phases" /\ UNCHANGED <<step, error>>
    BY <1>0, <1>1, WorkFrame
  <2>. QED  BY <1>0, <2>1 DEF ReturnInv
<1>2. CASE Expire \/ (\E u \in Resolver : Evaluate(u))
  <2>1. step # "done" /\ UNCHANGED <<step, error>>
    BY <1>2 DEF Expire, Evaluate
  <2>. QED  BY <1>0, <2>1 DEF ReturnInv
<1>3. CASE EndPhase
  <2>1. /\ step = "phases" /\ UNCHANGED <<policy, outcome, units, deferredFailed>>
        /\ error' = (~Collects /\ Failed # {})
        /\ step' = "done" <=> ~Collects /\ Failed # {}
    BY <1>3 DEF EndPhase, config, deferred
  <2>2. deferredFailed = {}
    BY <1>0, <2>1 DEF DeferredInv
  <2>. QED  BY <2>1, <2>2 DEF ReturnInv, Collects, Failed
<1>4. CASE Return
  <2>1. units' = {} /\ step' = "done" /\ error' = ReturnedError
        /\ UNCHANGED <<outcome, deferredFailed>>
    BY <1>4 DEF Return, deferred
  <2>. QED  BY <2>1 DEF ReturnInv, ReturnedError, Failed
<1>5. CASE UNCHANGED vars
  BY <1>0, <1>5 DEF ReturnInv, vars, Collects, Failed
<1>. QED  BY <1>1, <1>2, <1>3, <1>4, <1>5, NextCases

\* IInv is inductive.
THEOREM Invariance == Spec => []IInv
<1>1. Init => IInv
  BY InitIInv
<1>2. ASSUME IInv, [Next]_vars PROVE IInv'
  BY <1>2, TypeStep, RecordStep, PhaseStep, BlameStep, AttemptsStep, DeferredStep, ReturnStep
     DEF IInv
<1>. QED  BY <1>1, <1>2, PTL DEF Spec

-----------------------------------------------------------------------------
(* The properties. *)

\* Types hold; a goroutine of a later phase has not begun, one that ended has
\* reported what it recorded (executor.go, executePhase).
THEOREM TypeCorrect == Spec => []TypeOK
<1>1. ASSUME IInv PROVE TypeOK
  <2>0. TypeInv /\ PhaseInv /\ \A r \in Resolver : RecordInv(r)
    BY <1>1 DEF IInv
  <2>1. ASSUME NEW r \in Resolver
        PROVE  /\ pc[r] \in Loc
               /\ PhaseOf[r] > phase => pc[r] = "waiting"
               /\ verdict[r] \in {None, "success", "skipped", "fatal", "validation"}
               /\ result[r] \in {None, "success", "failed"}
               /\ failure[r] \in {None, "fatal", "validation"}
               /\ outcome[r] \in {None, "success", "skipped", "dependency", "error"}
               /\ outcome[r] # None <=> pc[r] = "done"
               /\ failure[r] # None <=> outcome[r] \in {"dependency", "error"}
    BY <2>0 DEF TypeInv, PhaseInv, RecordInv
  <2>2. UNION {copy[r] \cup attempts[r] : r \in Resolver} \subseteq tried
    BY <2>0 DEF TypeInv
  <2>3. shared \subseteq tried /\ units \cup deferredFailed \cup suppressed \cup evaluated \subseteq Units
    BY <2>0 DEF TypeInv
  <2>4. /\ step \in {"phases", "deferred", "done"} /\ phase \in 1..Phases
        /\ expired \in BOOLEAN /\ error \in BOOLEAN
    BY <2>0 DEF TypeInv
  <2>. QED  BY <2>1, <2>2, <2>3, <2>4 DEF TypeOK, Loc
<1>. QED  BY <1>1, Invariance, PTL

\* A resolver runs only on dependencies that have left what it may use
\* (executor.go, the phase barrier and checkDependencies of executePhase).
THEOREM OnlyOnUsable == Spec => []RunsOnUsable
<1>1. ASSUME IInv PROVE RunsOnUsable
  <2>1. \A r \in Resolver : Phased(r)
    BY <1>1, PhaseParts DEF IInv
  <2>2. \A r \in Busy : r \in Resolver /\ pc[r] \notin {"waiting", "done"}
    BY DEF Busy
  <2>. QED  BY <2>1, <2>2 DEF RunsOnUsable, Phased, Usable
<1>. QED  BY <1>1, Invariance, PTL

\* A resolver's result and, with one slot, its failed attempts are its own
\* (executor.go, trackFailedAttempt and the deferred function of executeResolver).
THEOREM OwnRecords == Spec => []RecordsAreOwn
<1>1. ASSUME IInv PROVE RecordsAreOwn
  <2>1. AttemptsInv /\ \A r \in Resolver : RecordInv(r)
    BY <1>1 DEF IInv
  <2>. QED  BY <2>1 DEF RecordsAreOwn, RecordInv, AttemptsInv
<1>. QED  BY <1>1, Invariance, PTL

\* What is valid has a usable value, and but for presets the other way round.
LEMMA UsableIsValid ==
  ASSUME TypeInv, NEW r \in Resolver, RecordInv(r)
  PROVE  /\ Valid(r) => HasUsableValue(r)
         /\ HasUsableValue(r) => Valid(r) \/ r \in Preset
<1>. USE NoneIsNoOutcome DEF RecordInv, Valid, HasUsableValue
<1>1. Valid(r) => HasUsableValue(r)
  OBVIOUS
<1>2. HasUsableValue(r) => Valid(r) \/ r \in Preset
  OBVIOUS
<1>. QED  BY <1>1, <1>2

\* Deferred validation fails closed and reports root causes only
\* (deferred_validation.go, runDeferredValidation).
THEOREM FailsClosed == Spec => []DeferredVerdicts
<1>1. ASSUME IInv PROVE DeferredVerdicts
  <2>1. SUFFICES ASSUME step = "done", units = {} PROVE DeferredVerdicts
    BY DEF DeferredVerdicts
  <2>2. TypeInv /\ DeferredInv /\ \A r \in Resolver : RecordInv(r)
    BY <1>1 DEF IInv
  <2>3. ASSUME NEW u \in Units, Valid(u)
        PROVE  \/ u \in deferredFailed \cup suppressed
               \/ \A d \in Refs[u] : Valid(d) \/ d \in Preset
    <3>1. u \in Resolver /\ Refs[u] \subseteq Resolver
      BY ResolverExecutorAssumption DEF Units
    <3>2. HasUsableValue(u)
      BY <2>2, <2>3, <3>1, UsableIsValid
    <3>3. u \in deferredFailed \cup suppressed \/ \A d \in Refs[u] : HasUsableValue(d)
      BY <2>1, <2>2, <3>2 DEF DeferredInv
    <3>. QED  BY <2>2, <3>1, <3>3, UsableIsValid
  <2>4. \A u \in deferredFailed : \A d \in Refs[u] \cap deferredFailed : <<d, u>> \in RefersTo
    BY <2>2 DEF DeferredInv
  <2>. QED  BY <2>3, <2>4 DEF DeferredVerdicts
<1>. QED  BY <1>1, Invariance, PTL

\* Execute returns an error exactly when something failed (executor.go, Execute).
THEOREM FailuresReported == Spec => []ReportsFailures
<1>1. ASSUME IInv PROVE ReportsFailures
  <2>1. SUFFICES ASSUME step = "done" PROVE ReportsFailures
    BY DEF ReportsFailures
  <2>2. TypeInv /\ PhaseInv /\ BlameInv /\ ReturnInv
    BY <1>1 DEF IInv
  <2>3. (\E r \in Resolver : outcome[r] \in {"error", "dependency"}) <=> Failed # {}
    BY <2>2 DEF BlameInv, Failed
  <2>4. error <=> Failed # {} \/ deferredFailed # {}
    BY <2>1, <2>2 DEF ReturnInv
  <2>5. ~error => units = {}
    BY <2>1, <2>2, <2>4 DEF ReturnInv
  <2>6. ASSUME ~error, NEW r \in Resolver PROVE pc[r] = "done"
    <3>1. phase = Phases
      BY <2>1, <2>2, <2>6 DEF PhaseInv
    <3>2. PhaseOf[r] < phase \/ PhaseOf[r] = phase
      BY <3>1, Phasing
    <3>. QED  BY <2>1, <2>2, <3>2 DEF PhaseInv
  <2>. QED  BY <2>3, <2>4, <2>5, <2>6 DEF ReportsFailures
<1>. QED  BY <1>1, Invariance, PTL
===============================================================================
