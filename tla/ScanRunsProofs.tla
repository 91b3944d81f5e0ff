--------------------------- MODULE ScanRunsProofs ---------------------------
(***************************************************************************)
(* The run store of the scanner, for any number of engines, requests, keys *)
(* and rows and for any limits.                                            *)
(***************************************************************************)
EXTENDS ScanRuns, FiniteSetTheorems, WellFoundedInduction, TLAPS

Running == {r \in RunIds : runs[r].status = "running"}
Open == {r \in RunIds : runs[r].status \in {"running", "abandoned"}}

(* What a row holds in each status, and where its id comes from.            *)
RowsAgree ==
    \A r \in RunIds :
        /\ runs[r].attempt = runs[r].status
        /\ runs[r].status = "absent" => runs[r] = NoRow
        /\ r > created => runs[r].status = "absent"
        /\ runs[r].status = "running" =>
              /\ lease # NoLease /\ runs[r].owner = lease.owner
              /\ runs[r].artifact = None /\ runs[r].reused = None

OneRuns ==
    /\ \A r, s \in Running : r = s
    /\ lease # NoLease => Running # {}

(* Artifact ids are new, and every one but those of the open rows has been  *)
(* made by a run of its own.                                                *)
Counters ==
    /\ Stored \subseteq 1..made
    /\ made + Cardinality(Open) <= created

(* The row a snapshot hit was found in is as it was, or it is gone for ever.*)
HitHolds(y) ==
    /\ y.out = "success" /\ y.reuse # None /\ y.source <= created
    /\ \/ runs[y.source].status = "absent"
       \/ /\ runs[y.source].status = "success" /\ runs[y.source].artifact = y.reuse
          /\ artifacts[y.reuse] \in Keys

(* What an engine remembers between its transactions.                       *)
Agrees(y) ==
    /\ y.step \notin {"idle", "gc"} => y.run \in RunIds
    /\ y.step \in {"idle", "handshake", "work"} => y.source = None
    /\ y.source # None => HitHolds(y)
    /\ y.step = "commit" =>
          /\ y.source \notin y.plan.runs \cup y.plan.terminal
          /\ y.reuse # None => y.plan.arts = {} /\ y.out # "error"

EnginesAgree == \A e \in Engine : Agrees(eng[e])

StoreInv ==
    /\ FinishedIsOrder /\ RowsAgree /\ OneRuns /\ Counters
    /\ ArtifactsWithinCap /\ FinishedRunsReplay /\ ReuseIsGrounded

IInv == TypeOK /\ StoreInv /\ EnginesAgree

---------------------------------------------------------------------------
(* Induction over finite sets.                                              *)

LEMMA LeastElement ==
    ASSUME NEW R, NEW F, NEW B, IsWellFoundedOn(R, F), B \subseteq F, B # {}
    PROVE  \E s \in B : \A u \in B : ~(<<u, s>> \in R)
BY WFMin, Zenon

(* Induction over the subsets of a finite set, with a set of good ones in   *)
(* the place of a predicate.                                                *)
LEMMA SubsetInduction ==
    ASSUME NEW S, IsFiniteSet(S), NEW Good,
           \A s \in SUBSET S : (\A u \in SUBSET s : u # s => u \in Good) => s \in Good
    PROVE  S \in Good
<1>. SUFFICES ASSUME S \notin Good
              PROVE  FALSE
  OBVIOUS
<1>1. PICK R, F : IsWellFoundedOn(R, F) /\ R = StrictSubsetOrdering(S) /\ F = SUBSET S
  <2>1. IsWellFoundedOn(StrictSubsetOrdering(S), FiniteSubsetsOf(S))
    BY FS_StrictSubsetOrderingWellFounded
  <2>. QED
    BY <2>1, FS_FiniteSubsetsOfFinite
<1>2. PICK B : B = {s \in SUBSET S : s \notin Good}
  OBVIOUS
<1>3. B # {} /\ B \subseteq F
  BY <1>1, <1>2
<1>4. PICK s \in B : \A u \in B : ~(<<u, s>> \in R)
  <2>1. IsWellFoundedOn(R, F)
    BY <1>1
  <2>. QED
    BY <2>1, <1>3, LeastElement
<1>5. \A u \in SUBSET s : u # s => u \in Good
  BY <1>1, <1>2, <1>4 DEF StrictSubsetOrdering
<1>. QED
  BY <1>2, <1>4, <1>5

(* Finite orders.                                                           *)

StrictOrder(O, R) ==
    /\ \A x \in R : <<x, x>> \notin O
    /\ \A x, y, z \in R : <<x, y>> \in O /\ <<y, z>> \in O => <<x, z>> \in O

LEMMA Minimal ==
    ASSUME NEW R, IsFiniteSet(R), R # {}, NEW O, StrictOrder(O, R)
    PROVE  \E x \in R : \A y \in R : <<y, x>> \notin O
<1>. DEFINE Good == {s \in SUBSET R : s = {} \/ \E x \in s : \A y \in s : <<y, x>> \notin O}
<1>1. ASSUME NEW s \in SUBSET R, \A u \in SUBSET s : u # s => u \in Good
      PROVE  s \in Good
  <2>1. CASE s = {}
    BY <2>1
  <2>2. CASE s # {}
    <3>1. PICK x \in s : TRUE
      BY <2>2
    <3>2. PICK u : u = {y \in s : <<y, x>> \in O}
      OBVIOUS
    <3>3. u \in SUBSET s /\ u # s
      BY <3>1, <3>2 DEF StrictOrder
    <3>4. u = {} \/ \E m \in u : \A y \in u : <<y, m>> \notin O
      BY <1>1, <3>3
    <3>5. CASE u = {}
      BY <3>1, <3>2, <3>5
    <3>6. ASSUME NEW m \in u, \A y \in u : <<y, m>> \notin O
          PROVE  s \in Good
      <4>1. m \in s /\ <<m, x>> \in O
        BY <3>2, <3>6
      <4>2. \A y \in s : <<y, m>> \notin O
        BY <3>1, <3>2, <3>6, <4>1 DEF StrictOrder
      <4>. QED
        BY <4>1, <4>2
    <3>. QED
      BY <3>4, <3>5, <3>6
  <2>. QED
    BY <2>1, <2>2
<1>. HIDE DEF Good
<1>2. R \in Good
  BY <1>1, SubsetInduction
<1>. QED
  BY <1>2 DEF Good

(* Induction up to a bound, with a set in the place of a predicate.         *)
LEMMA BoundedInduction ==
    ASSUME NEW N \in Nat, NEW Good, 0 \in Good,
           \A n \in 0..N : n \in Good /\ n < N => n + 1 \in Good
    PROVE  \A n \in 0..N : n \in Good
<1>. SUFFICES ASSUME NEW k \in 0..N, k \notin Good
              PROVE  FALSE
  OBVIOUS
<1>1. PICK B : B = {n \in 0..N : n \notin Good}
  OBVIOUS
<1>2. PICK O : O = {p \in B \X B : p[1] < p[2]}
  OBVIOUS
<1>3. IsFiniteSet(B) /\ B # {} /\ StrictOrder(O, B)
  <2>1. IsFiniteSet(0..N)
    BY FS_Interval
  <2>2. B \in SUBSET (0..N) /\ B # {}
    BY <1>1
  <2>3. IsFiniteSet(B)
    BY <2>1, <2>2, FS_Subset
  <2>. QED
    BY <1>2, <2>2, <2>3 DEF StrictOrder
<1>4. PICK x \in B : \A y \in B : <<y, x>> \notin O
  BY <1>3, Minimal
<1>5. x \in 0..N /\ x > 0 /\ x - 1 \in 0..N /\ x - 1 < x
  BY <1>1
<1>6. x - 1 \notin B
  BY <1>2, <1>4, <1>5
<1>. QED
  BY <1>1, <1>5, <1>6

(* The n first of a finite order are all of it, or n at least.              *)
LEMMA FirstOnes ==
    ASSUME NEW R, IsFiniteSet(R), NEW O, StrictOrder(O, R), NEW n \in Int,
           NEW F, F = {r \in R : Cardinality({s \in R : <<s, r>> \in O}) < n}
    PROVE  F \subseteq R /\ (F = R \/ Cardinality(F) >= n)
<1>1. F \subseteq R /\ IsFiniteSet(F)
  BY FS_Subset
<1>2. ASSUME F # R
      PROVE  Cardinality(F) >= n
  <2>1. PICK L : L = R \ F
    OBVIOUS
  <2>2. IsFiniteSet(L) /\ L # {} /\ StrictOrder(O, L)
    <3>1. IsFiniteSet(L)
      BY <2>1, FS_Subset
    <3>. QED
      BY <1>1, <1>2, <2>1, <3>1 DEF StrictOrder
  <2>3. PICK x \in L : \A y \in L : <<y, x>> \notin O
    BY <2>2, Minimal
  <2>4. PICK P : P = {s \in R : <<s, x>> \in O}
    OBVIOUS
  <2>5. P \in SUBSET F
    BY <2>1, <2>3, <2>4
  <2>6. ~(Cardinality(P) < n)
    BY <2>1, <2>3, <2>4
  <2>7. Cardinality(P) <= Cardinality(F) /\ Cardinality(P) \in Nat /\ Cardinality(F) \in Nat
    <3>1. IsFiniteSet(P)
      BY <1>1, <2>5, FS_Subset
    <3>. QED
      BY <1>1, <2>5, <3>1, FS_Subset, FS_CardinalityType
  <2>. QED
    BY <2>6, <2>7
<1>. QED
  BY <1>1, <1>2

LEMMA SomeFirst ==
    ASSUME NEW R, NEW F, NEW n \in Int, F = R \/ Cardinality(F) >= n
    PROVE  R # {} /\ n > 0 => F # {}
<1>. SUFFICES ASSUME F = {}, R # {}, n > 0
              PROVE  FALSE
  OBVIOUS
<1>1. Cardinality(F) = 0
  BY FS_EmptySet
<1>2. Cardinality(F) >= n
  BY Zenon
<1>. QED
  BY <1>1, <1>2

---------------------------------------------------------------------------
(* The victims of retention.                                                *)

LEMMA Ids ==
    /\ RunIds \subseteq Nat \ {0} /\ None \notin RunIds
    /\ IsFiniteSet(RunIds) /\ Cardinality(RunIds) = MaxRuns /\ MaxRuns \in Nat
    /\ \A r \in RunIds : r <= MaxRuns
    /\ \A r \in Nat : r > 0 /\ r <= MaxRuns => r \in RunIds
<1>1. MaxRuns \in Nat
  BY ScanConstants
<1>2. IsFiniteSet(RunIds) /\ Cardinality(RunIds) = MaxRuns
  BY <1>1, FS_Interval DEF RunIds
<1>. QED
  BY <1>1, <1>2 DEF RunIds, None

LEMMA FiniteIds ==
    ASSUME NEW S, S \subseteq RunIds
    PROVE  IsFiniteSet(S) /\ Cardinality(S) \in Nat /\ Cardinality(S) <= MaxRuns
<1>1. S \in SUBSET RunIds /\ IsFiniteSet(RunIds) /\ Cardinality(RunIds) = MaxRuns
  BY Ids
<1>2. IsFiniteSet(S) /\ Cardinality(S) <= MaxRuns
  BY <1>1, FS_Subset
<1>. QED
  BY <1>2, FS_CardinalityType

LEMMA OrderOfRuns ==
    ASSUME TypeOK, FinishedIsOrder, NEW R, R \subseteq Terminal
    PROVE  StrictOrder(finished, R)
BY DEF StrictOrder, FinishedIsOrder, Before

(* The oldest n runs of R are all of R, or n at least.                      *)
LEMMA OldestRunsFirst ==
    ASSUME TypeOK, FinishedIsOrder, NEW R, R \subseteq Terminal, NEW n \in Int
    PROVE  /\ OldestRuns(R, n) \subseteq R
           /\ OldestRuns(R, n) = R \/ Cardinality(OldestRuns(R, n)) >= n
           /\ R # {} /\ n > 0 => OldestRuns(R, n) # {}
<1>1. IsFiniteSet(R)
  BY FiniteIds DEF Terminal
<1>2. StrictOrder(finished, R)
  BY OrderOfRuns
<1>3. PICK F : F = {r \in R : Cardinality({s \in R : <<s, r>> \in finished}) < n}
  OBVIOUS
<1>4. OldestRuns(R, n) = F
  BY <1>3 DEF OldestRuns, Before
<1>5. F \subseteq R /\ (F = R \/ Cardinality(F) >= n)
  BY <1>1, <1>2, <1>3, FirstOnes
<1>6. R # {} /\ n > 0 => F # {}
  BY <1>5, SomeFirst
<1>. QED
  BY <1>4, <1>5, <1>6

LEMMA OldestArtifactsSome ==
    ASSUME NEW A, A \subseteq RunIds
    PROVE  /\ OldestArtifacts(A, Batch) \subseteq A
           /\ A # {} => OldestArtifacts(A, Batch) # {}
<1>1. OldestArtifacts(A, Batch) \subseteq A
  BY DEF OldestArtifacts
<1>2. ASSUME A # {}
      PROVE  OldestArtifacts(A, Batch) # {}
  <2>1. PICK O : O = {p \in A \X A : p[1] < p[2]}
    OBVIOUS
  <2>2. StrictOrder(O, A)
    BY <2>1, Ids DEF StrictOrder
  <2>3. IsFiniteSet(A)
    BY FiniteIds
  <2>4. PICK F : F = {a \in A : Cardinality({b \in A : <<b, a>> \in O}) < Batch}
    OBVIOUS
  <2>5. Batch \in Int /\ Batch > 0
    BY ScanConstants
  <2>7. F # {}
    <3>1. F = A \/ Cardinality(F) >= Batch
      BY <2>2, <2>3, <2>4, <2>5, FirstOnes
    <3>. QED
      BY <1>2, <2>5, <3>1, SomeFirst
  <2>6. \A a \in A : {b \in A : <<b, a>> \in O} = {b \in A : b < a}
    BY <2>1
  <2>. QED
    BY <2>4, <2>6, <2>7 DEF OldestArtifacts
<1>. QED
  BY <1>1, <1>2

---------------------------------------------------------------------------
(* Making room, step by step.                                               *)

RoomOf(e, g, N) ==
    g = [n \in 0..N |->
           IF n = 0 THEN EmptyPlan
           ELSE IF Over(g[n - 1]) THEN RoomStep(e, g[n - 1]) ELSE g[n - 1]]

LEMMA RoomStepsExist ==
    ASSUME NEW e, NEW N \in Nat
    PROVE  \E g : RoomOf(e, g, N)
<1>. DEFINE Good == {n \in Nat : \E g : RoomOf(e, g, n)}
<1>1. 0 \in Good
  <2>. DEFINE f == [n \in 0..0 |-> EmptyPlan]
  <2>1. RoomOf(e, f, 0)
    BY DEF RoomOf
  <2>. QED
    BY <2>1
<1>2. ASSUME NEW n \in 0..N, n \in Good
      PROVE  n + 1 \in Good
  <2>1. PICK g : RoomOf(e, g, n)
    BY <1>2
  <2>. DEFINE f == [k \in 0..(n + 1) |->
                      IF k = n + 1 THEN IF Over(g[n]) THEN RoomStep(e, g[n]) ELSE g[n]
                      ELSE g[k]]
  <2>2. RoomOf(e, f, n + 1)
    <3>1. SUFFICES ASSUME NEW k \in 0..(n + 1)
                   PROVE  f[k] = IF k = 0 THEN EmptyPlan
                                 ELSE IF Over(f[k - 1]) THEN RoomStep(e, f[k - 1]) ELSE f[k - 1]
      BY DEF RoomOf
    <3>2. CASE k = n + 1
      <4>1. k # 0 /\ k - 1 = n /\ n \in 0..(n + 1) /\ n # n + 1
        BY <3>2
      <4>2. f[k - 1] = g[n]
        BY <4>1
      <4>. QED
        BY <3>2, <4>1, <4>2
    <3>3. CASE k # n + 1
      <4>1. k \in 0..n
        BY <3>3
      <4>2. f[k] = g[k]
        BY <3>3
      <4>3. CASE k = 0
        BY <2>1, <4>1, <4>2, <4>3 DEF RoomOf
      <4>4. CASE k # 0
        <5>1. k - 1 \in 0..(n + 1) /\ k - 1 # n + 1
          BY <4>1, <4>4
        <5>2. f[k - 1] = g[k - 1]
          BY <5>1
        <5>. QED
          BY <2>1, <4>1, <4>2, <4>4, <5>2 DEF RoomOf
      <4>. QED
        BY <4>3, <4>4
    <3>. QED
      BY <3>2, <3>3
  <2>. QED
    BY <2>2
<1>. HIDE DEF Good
<1>3. \A n \in 0..N : n \in Good
  BY <1>1, <1>2, BoundedInduction
<1>. QED
  BY <1>3 DEF Good

LEMMA RoomStepsSolve ==
    ASSUME NEW e
    PROVE  RoomOf(e, RoomSteps(e), 2 * MaxRuns)
<1>1. 2 * MaxRuns \in Nat
  BY Ids
<1>2. PICK g : RoomOf(e, g, 2 * MaxRuns)
  BY <1>1, RoomStepsExist
<1>. QED
  BY <1>2 DEF RoomOf, RoomSteps

(* A plan only names stored artifacts and terminal rows nobody protects.    *)
PlanType(e) == [arts : SUBSET Stored, runs : SUBSET (Terminal \ ProtectedRuns(e)), terminal : {{}}]

LEMMA RoomStepTyped ==
    ASSUME TypeOK, FinishedIsOrder, NEW e, NEW p \in PlanType(e)
    PROVE  RoomStep(e, p) \in PlanType(e)
<1>1. PICK A : A = Orphans(Stored \ p.arts, Present \ p.runs) \ Reused(e)
  OBVIOUS
<1>2. PICK R : R = Terminal \ (p.runs \cup ProtectedRuns(e))
  OBVIOUS
<1>3. A \subseteq Stored /\ A \subseteq RunIds
  BY <1>1 DEF Orphans, Stored
<1>4. PICK X : X = OldestArtifacts(A, Batch) /\ X \subseteq A
  BY <1>3, OldestArtifactsSome
<1>5. Batch \in Int
  BY ScanConstants
<1>6. PICK Y : Y = OldestRuns(R, Batch) /\ Y \subseteq R
  BY <1>2, <1>5, OldestRunsFirst
<1>7. RoomStep(e, p) = IF A # {} THEN [p EXCEPT !.arts = p.arts \cup X]
                       ELSE [p EXCEPT !.runs = p.runs \cup Y]
  BY <1>1, <1>2, <1>4, <1>6 DEF RoomStep, PlanType
<1>. QED
  BY <1>2, <1>3, <1>4, <1>6, <1>7 DEF PlanType

LEMMA RoomStepsStep ==
    ASSUME NEW e, NEW n \in Nat, n < 2 * MaxRuns
    PROVE  LET p == RoomSteps(e)[n]
           IN  RoomSteps(e)[n + 1] = IF Over(p) THEN RoomStep(e, p) ELSE p
<1>1. PICK g : g = RoomSteps(e) /\ RoomOf(e, g, 2 * MaxRuns)
  BY RoomStepsSolve
<1>2. n + 1 \in 0..(2 * MaxRuns) /\ n + 1 # 0 /\ (n + 1) - 1 = n
  BY Ids
<1>3. g[n + 1] = IF Over(g[(n + 1) - 1]) THEN RoomStep(e, g[(n + 1) - 1]) ELSE g[(n + 1) - 1]
  BY <1>1, <1>2 DEF RoomOf
<1>. QED
  BY <1>1, <1>2, <1>3

LEMMA RoomStepsFirst ==
    ASSUME NEW e
    PROVE  RoomSteps(e)[0] = EmptyPlan
<1>1. PICK g : g = RoomSteps(e) /\ RoomOf(e, g, 2 * MaxRuns)
  BY RoomStepsSolve
<1>2. 0 \in 0..(2 * MaxRuns)
  BY Ids
<1>3. g[0] = EmptyPlan
  BY <1>1, <1>2 DEF RoomOf
<1>. QED
  BY <1>1, <1>3

LEMMA RoomTyped ==
    ASSUME TypeOK, FinishedIsOrder, NEW e
    PROVE  /\ \A n \in 0..(2 * MaxRuns) : RoomSteps(e)[n] \in PlanType(e)
           /\ Room(e) \in PlanType(e)
<1>. DEFINE Good == {n \in Nat : RoomSteps(e)[n] \in PlanType(e)}
<1>1. EmptyPlan \in PlanType(e)
  BY DEF PlanType, EmptyPlan
<1>2. 0 \in Good
  BY <1>1, RoomStepsFirst
<1>3. ASSUME NEW n \in 0..(2 * MaxRuns), n \in Good /\ n < 2 * MaxRuns
      PROVE  n + 1 \in Good
  <2>1. PICK p : p = RoomSteps(e)[n] /\ p \in PlanType(e)
    BY <1>3
  <2>2. RoomSteps(e)[n + 1] = IF Over(p) THEN RoomStep(e, p) ELSE p
    BY <1>3, <2>1, RoomStepsStep
  <2>3. RoomStep(e, p) \in PlanType(e)
    BY <2>1, RoomStepTyped
  <2>. QED
    BY <2>1, <2>2, <2>3
<1>. HIDE DEF Good
<1>4. 2 * MaxRuns \in Nat
  BY Ids
<1>5. \A n \in 0..(2 * MaxRuns) : n \in Good
  BY <1>2, <1>3, <1>4, BoundedInduction
<1>. QED
  BY <1>1, <1>4, <1>5 DEF Good, Room

(* The rows an engine that owns its run may find.                           *)
Owns(e) ==
    /\ eng[e].run \in RunIds /\ runs[eng[e].run].status = "running"
    /\ eng[e].source # None => eng[e].reuse # None

LEMMA RoomStepProgress ==
    ASSUME TypeOK, FinishedIsOrder, RowsAgree, FinishedRunsReplay, NEW e, Owns(e), MakesArtifact(e),
           NEW p \in PlanType(e), Over(p), NEW q, q = RoomStep(e, p)
    PROVE  Cardinality(q.arts) + Cardinality(q.runs) > Cardinality(p.arts) + Cardinality(p.runs)
<1>1. PICK A : A = Orphans(Stored \ p.arts, Present \ p.runs) \ Reused(e)
  OBVIOUS
<1>2. PICK R : R = Terminal \ (p.runs \cup ProtectedRuns(e))
  OBVIOUS
<1>3. A \subseteq Stored /\ A \subseteq RunIds /\ A \cap p.arts = {}
  BY <1>1 DEF Orphans, Stored
<1>4. PICK X : X = OldestArtifacts(A, Batch) /\ X \subseteq A /\ (A # {} => X # {})
  BY <1>3, OldestArtifactsSome
<1>5. Batch \in Int /\ Batch > 0
  BY ScanConstants
<1>6. PICK Y : Y = OldestRuns(R, Batch) /\ Y \subseteq R /\ (R # {} => Y # {})
  BY <1>2, <1>5, OldestRunsFirst
<1>7. q = IF A # {} THEN [p EXCEPT !.arts = p.arts \cup X]
          ELSE [p EXCEPT !.runs = p.runs \cup Y]
  BY <1>1, <1>2, <1>4, <1>6 DEF RoomStep, PlanType
<1>8. p.arts \subseteq RunIds /\ p.runs \subseteq RunIds /\ R \subseteq RunIds
  BY <1>2 DEF PlanType, Stored, Terminal
<1>9. /\ Cardinality(p.arts) \in Nat /\ Cardinality(p.runs) \in Nat
      /\ IsFiniteSet(p.arts) /\ IsFiniteSet(p.runs)
  BY <1>8, FiniteIds
<1>10. CASE A # {}
  <2>1. q.arts = p.arts \cup X /\ q.runs = p.runs /\ q.arts \subseteq RunIds
    BY <1>3, <1>4, <1>7, <1>8, <1>10 DEF PlanType
  <2>2. PICK x : x \in X /\ x \notin p.arts
    BY <1>3, <1>4, <1>10
  <2>3. p.arts \cup {x} \in SUBSET q.arts /\ IsFiniteSet(q.arts) /\ Cardinality(q.arts) \in Nat
    BY <2>1, <2>2, FiniteIds
  <2>4. Cardinality(p.arts \cup {x}) = Cardinality(p.arts) + 1
    BY <1>9, <2>2, FS_AddElement
  <2>5. Cardinality(p.arts \cup {x}) <= Cardinality(q.arts)
    BY <2>3, FS_Subset
  <2>. QED
    BY <1>9, <2>1, <2>3, <2>4, <2>5
<1>11. CASE A = {}
  <2>1. R # {}
    <3>1. PICK a : a \in Stored \ p.arts
      <4>1. SUFFICES ASSUME Stored \ p.arts = {}
                     PROVE  FALSE
        OBVIOUS
      <4>2. Cardinality(Stored \ p.arts) = 0
        BY <4>1, FS_EmptySet
      <4>3. MaxArtifacts \in Nat /\ MaxArtifacts >= 1
        BY ScanConstants
      <4>. QED
        BY <4>2, <4>3 DEF Over
    <3>2. Reused(e) = {} /\ eng[e].reuse = None
      BY DEF MakesArtifact, Reused
    <3>3. PICK r \in Present \ p.runs : runs[r].artifact = a
      BY <1>1, <1>11, <3>1, <3>2 DEF Orphans
    <3>4. a # None
      BY <3>1, Ids DEF Stored
    <3>5. r \in RunIds /\ runs[r].status # "running" /\ runs[r].status # "absent"
      BY <3>3, <3>4 DEF Present, RowsAgree
    <3>6. r \in Terminal
      BY <3>5 DEF Terminal, TypeOK, Row, Statuses, Final
    <3>7. r \notin ProtectedRuns(e)
      BY <3>2, <3>5, Ids DEF ProtectedRuns, Owns
    <3>. QED
      BY <1>2, <3>3, <3>6, <3>7
  <2>2. q.runs = p.runs \cup Y /\ q.arts = p.arts /\ q.runs \subseteq RunIds
    BY <1>6, <1>7, <1>8, <1>11 DEF PlanType
  <2>3. PICK x : x \in Y /\ x \notin p.runs
    BY <1>2, <1>6, <2>1
  <2>4. p.runs \cup {x} \in SUBSET q.runs /\ IsFiniteSet(q.runs) /\ Cardinality(q.runs) \in Nat
    BY <2>2, <2>3, FiniteIds
  <2>5. Cardinality(p.runs \cup {x}) = Cardinality(p.runs) + 1
    BY <1>9, <2>3, FS_AddElement
  <2>6. Cardinality(p.runs \cup {x}) <= Cardinality(q.runs)
    BY <2>4, FS_Subset
  <2>. QED
    BY <1>9, <2>2, <2>4, <2>5, <2>6
<1>. QED
  BY <1>10, <1>11

LEMMA RoomSuffices ==
    ASSUME TypeOK, FinishedIsOrder, RowsAgree, FinishedRunsReplay, NEW e, Owns(e), MakesArtifact(e)
    PROVE  ~Over(Room(e))
<1>. DEFINE Size(p) == Cardinality(p.arts) + Cardinality(p.runs)
            Good == {n \in Nat : Over(RoomSteps(e)[n]) => Size(RoomSteps(e)[n]) >= n}
<1>1. \A p \in PlanType(e) : Size(p) \in Nat
  <2>1. SUFFICES ASSUME NEW p \in PlanType(e)
                 PROVE  Size(p) \in Nat
    OBVIOUS
  <2>2. p.arts \subseteq RunIds /\ p.runs \subseteq RunIds
    BY DEF PlanType, Stored, Terminal
  <2>3. Cardinality(p.arts) \in Nat /\ Cardinality(p.runs) \in Nat
    BY <2>2, FiniteIds
  <2>. QED
    BY <2>3
<1>2. 2 * MaxRuns \in Nat /\ MaxRuns \in Nat
  BY Ids
<1>3. 0 \in Good
  <2>1. PICK p : p = RoomSteps(e)[0] /\ p \in PlanType(e)
    BY <1>2, RoomTyped
  <2>2. Size(p) >= 0
    BY <1>1, <2>1
  <2>. QED
    BY <2>1, <2>2
<1>4. ASSUME NEW n \in 0..(2 * MaxRuns), n \in Good /\ n < 2 * MaxRuns
      PROVE  n + 1 \in Good
  <2>1. PICK p : p = RoomSteps(e)[n] /\ p \in PlanType(e)
    BY RoomTyped
  <2>2. PICK q : q = RoomSteps(e)[n + 1] /\ q = (IF Over(p) THEN RoomStep(e, p) ELSE p)
    BY <1>4, <2>1, RoomStepsStep
  <2>3. ASSUME Over(p)
        PROVE  Size(q) >= n + 1
    <3>1. Size(p) >= n /\ Size(p) \in Nat
      BY <1>1, <1>4, <2>1, <2>3
    <3>2. Size(q) > Size(p)
      BY <2>1, <2>2, <2>3, RoomStepProgress
    <3>3. q \in PlanType(e)
      BY <2>1, <2>2, <2>3, RoomStepTyped
    <3>4. Size(q) \in Nat
      BY <1>1, <3>3
    <3>. HIDE DEF Size
    <3>. QED
      BY <3>1, <3>2, <3>4
  <2>4. ASSUME ~Over(p)
        PROVE  ~Over(q)
    BY <2>2, <2>4
  <2>5. Over(q) => Size(q) >= n + 1
    BY <2>3, <2>4
  <2>6. n + 1 \in Nat /\ q = RoomSteps(e)[n + 1]
    BY <2>2
  <2>. QED
    BY <2>5, <2>6, Zenon
<1>. HIDE DEF Good
<1>5. 2 * MaxRuns \in Good
  BY <1>2, <1>3, <1>4, BoundedInduction
<1>6. PICK p : p = Room(e) /\ p = RoomSteps(e)[2 * MaxRuns] /\ p \in PlanType(e)
  BY RoomTyped DEF Room
<1>7. SUFFICES ASSUME Over(p)
               PROVE  FALSE
  BY <1>6
<1>8. Size(p) >= 2 * MaxRuns
  BY <1>5, <1>6, <1>7 DEF Good
<1>9. Cardinality(p.arts) \in Nat /\ Cardinality(p.arts) <= MaxRuns
  <2>1. p.arts \subseteq RunIds
    BY <1>6 DEF PlanType, Stored
  <2>. QED
    BY <2>1, FiniteIds
<1>10. Cardinality(p.runs) \in Nat /\ Cardinality(p.runs) < MaxRuns
  <2>1. PICK r : r = eng[e].run
    OBVIOUS
  <2>2. p.runs \subseteq RunIds /\ r \in RunIds /\ r \notin p.runs
    BY <1>6, <2>1 DEF PlanType, Terminal, Owns, Final
  <2>3. p.runs \cup {r} \subseteq RunIds
    BY <2>2
  <2>4. Cardinality(p.runs \cup {r}) <= MaxRuns /\ IsFiniteSet(p.runs) /\ Cardinality(p.runs) \in Nat
    BY <2>2, <2>3, FiniteIds
  <2>5. Cardinality(p.runs \cup {r}) = Cardinality(p.runs) + 1
    BY <2>2, <2>4, FS_AddElement
  <2>. QED
    BY <1>2, <2>4, <2>5
<1>. QED
  BY <1>2, <1>8, <1>9, <1>10

LEMMA CountSuffices ==
    ASSUME TypeOK, FinishedIsOrder, NEW e \in Engine, Owns(e),
           Cardinality(ProtectedRuns(e)) <= MaxCount,
           NEW p \in PlanType(e)
    PROVE  HasCount(p.runs \cup TerminalVictims(e, p))
<1>1. PICK P, aged, left :
        /\ P = ProtectedRuns(e)
        /\ aged = (Terminal \cap old) \ (p.runs \cup P)
        /\ left = Terminal \ (p.runs \cup aged)
  OBVIOUS
<1>2. PICK n : n = Cardinality(left) + 1 - MaxCount
  OBVIOUS
<1>3. PICK O : O = OldestRuns(left \ P, n)
  OBVIOUS
<1>4. TerminalVictims(e, p) = aged \cup O
  BY <1>1, <1>2, <1>3 DEF TerminalVictims
<1>5. Terminal \ (p.runs \cup TerminalVictims(e, p)) = left \ O
  BY <1>1, <1>4
<1>6. left \subseteq RunIds /\ left \subseteq Terminal /\ left \ P \subseteq Terminal
  BY <1>1 DEF Terminal
<1>7. IsFiniteSet(left) /\ Cardinality(left) \in Nat
  BY <1>6, FiniteIds
<1>8. MaxCount \in Nat /\ n \in Int
  BY <1>2, <1>7, ScanConstants
<1>9. O \subseteq left \ P /\ (O = left \ P \/ Cardinality(O) >= n)
  BY <1>3, <1>6, <1>8, OldestRunsFirst
<1>10. Cardinality(left \ O) \in Nat
  BY <1>6, FiniteIds
<1>11. CASE O = left \ P
  <2>1. PICK r : r = eng[e].run /\ r \in RunIds /\ r \notin left /\ r \in P
    BY <1>1, Ids DEF Owns, ProtectedRuns, Terminal, Final
  <2>2. left \ O \in SUBSET (P \ {r})
    BY <1>11, <2>1
  <2>3. P \subseteq RunIds
    <3>1. eng[e].source \in RunIds \cup {None}
      BY DEF TypeOK, EngineState
    <3>. QED
      BY <1>1, <2>1, <3>1 DEF ProtectedRuns
  <2>4. IsFiniteSet(P) /\ Cardinality(P) \in Nat
    BY <2>3, FiniteIds
  <2>5. IsFiniteSet(P \ {r}) /\ Cardinality(P \ {r}) = Cardinality(P) - 1
    BY <2>1, <2>4, FS_RemoveElement
  <2>6. Cardinality(left \ O) <= Cardinality(P \ {r})
    BY <2>2, <2>5, FS_Subset
  <2>7. Cardinality(P) <= MaxCount
    BY <1>1
  <2>8. Cardinality(left \ O) + 1 <= MaxCount
    BY <1>8, <1>10, <2>4, <2>5, <2>6, <2>7
  <2>. QED
    BY <1>5, <2>8, Zenon DEF HasCount
<1>12. CASE Cardinality(O) >= n
  <2>1. left \cap O = O /\ O \subseteq RunIds
    BY <1>6, <1>9
  <2>2. Cardinality(O) \in Nat
    BY <2>1, FiniteIds
  <2>3. Cardinality(left \ O) = Cardinality(left) - Cardinality(O)
    BY <1>7, <2>1, FS_Difference
  <2>4. Cardinality(left \ O) + 1 <= MaxCount
    BY <1>2, <1>7, <1>8, <1>10, <1>12, <2>2, <2>3
  <2>. QED
    BY <1>5, <2>4, Zenon DEF HasCount
<1>. QED
  BY <1>9, <1>11, <1>12

LEMMA RetentionSuffices ==
    ASSUME IInv
    PROVE  RetentionMakesRoom
<1>. SUFFICES ASSUME NEW e \in Engine, At(e, "prepare"), EnsureOwner(e),
                     Cardinality(ProtectedRuns(e)) <= MaxCount
              PROVE  HasRoom(e, Room(e)) /\ HasCount(Room(e).runs \cup TerminalVictims(e, Room(e)))
  BY DEF RetentionMakesRoom
<1>1. /\ TypeOK /\ FinishedIsOrder /\ RowsAgree /\ FinishedRunsReplay /\ Agrees(eng[e])
  BY DEF IInv, StoreInv, EnginesAgree
<1>2. Owns(e)
  BY <1>1 DEF Owns, Agrees, HitHolds, At, EnsureOwner
<1>3. Room(e) \in PlanType(e)
  BY <1>1, RoomTyped
<1>4. HasRoom(e, Room(e))
  BY <1>1, <1>2, RoomSuffices DEF HasRoom
<1>5. HasCount(Room(e).runs \cup TerminalVictims(e, Room(e)))
  BY <1>1, <1>2, <1>3, CountSuffices
<1>. QED
  BY <1>4, <1>5

---------------------------------------------------------------------------
(* What a step does to the store.                                           *)

(* Hits stay good, and rows that are gone stay gone.                        *)
Keeps ==
    /\ created <= created'
    /\ \A s \in RunIds :
          /\ s <= created /\ runs[s].status = "absent" => runs'[s].status = "absent"
          /\ runs[s].status = "success" =>
                \/ runs'[s].status = "absent"
                \/ /\ runs'[s].status = "success" /\ runs'[s].artifact = runs[s].artifact
                   /\ artifacts'[runs[s].artifact] = artifacts[runs[s].artifact]

Stays ==
    \A r \in RunIds :
        /\ runs[r].status = "running" => runs'[r].status # "absent"
        /\ runs[r].status \in Final =>
              runs'[r] \in {runs[r], [runs[r] EXCEPT !.reused = None], NoRow}

Survives ==
    \A e \in Engine :
        At(e, "commit") /\ eng'[e].step = "gc" /\ eng[e].source # None
            => runs'[eng[e].source].status = "success"

LeaseKept ==
    lease # NoLease /\ lease.age < Grace /\ lease' # NoLease => lease'.owner = lease.owner

StoreType ==
    /\ lease \in {NoLease} \cup [owner : Engine, age : 0..(Grace + MaxLag), held : 0..(Grace + MaxLag)]
    /\ runs \in [RunIds -> Row]
    /\ created \in 0..MaxRuns /\ made \in 0..MaxRuns
    /\ finished \subseteq Terminal \X Terminal /\ old \subseteq Terminal
    /\ artifacts \in [RunIds -> Keys \cup {"ineligible", "absent"}]

StepOK == IInv' /\ Stays /\ Survives /\ LeaseKept

LEMMA TypeParts ==
    TypeOK <=> StoreType /\ faults \in 0..MaxFaults /\ eng \in [Engine -> EngineState]
BY DEF TypeOK, StoreType

LEMMA IInvParts ==
    ASSUME IInv
    PROVE  /\ StoreType /\ faults \in 0..MaxFaults /\ eng \in [Engine -> EngineState]
           /\ TypeOK /\ StoreInv /\ EnginesAgree
           /\ FinishedIsOrder /\ RowsAgree /\ OneRuns /\ Counters
           /\ ArtifactsWithinCap /\ FinishedRunsReplay /\ ReuseIsGrounded
BY TypeParts DEF IInv, StoreInv

(* What an engine knows stays right while the store keeps what it refers to.*)
LEMMA AgreesStays ==
    ASSUME NEW y \in EngineState, Agrees(y), Keeps, StoreType, FinishedRunsReplay,
           created' \in Nat
    PROVE  Agrees(y)'
<1>1. y.source \in RunIds \cup {None} /\ created \in Nat
  BY DEF EngineState, StoreType
<1>2. ASSUME y.source # None
      PROVE  HitHolds(y)'
  <2>1. HitHolds(y) /\ y.source \in RunIds
    BY <1>1, <1>2 DEF Agrees
  <2>2. y.source \in Nat
    BY <2>1, Ids
  <2>3. y.source <= created'
    BY <1>1, <2>1, <2>2 DEF HitHolds, Keeps
  <2>4. CASE runs[y.source].status = "absent"
    BY <2>1, <2>3, <2>4 DEF HitHolds, Keeps
  <2>5. CASE runs[y.source].status = "success" /\ runs[y.source].artifact = y.reuse
             /\ artifacts[y.reuse] \in Keys
    BY <2>1, <2>3, <2>5 DEF HitHolds, Keeps
  <2>. QED
    BY <2>1, <2>4, <2>5 DEF HitHolds
<1>. QED
  BY <1>2 DEF Agrees

(* An engine changes what it remembers, in any store step.                  *)
LEMMA EngineStep ==
    ASSUME IInv, Keeps, StoreType', NEW e \in Engine, NEW y \in EngineState,
           eng' = [eng EXCEPT ![e] = y], Agrees(y)'
    PROVE  eng' \in [Engine -> EngineState] /\ EnginesAgree'
<1>1. eng' \in [Engine -> EngineState]
  BY IInvParts
<1>2. created' \in Nat
  BY DEF StoreType
<1>3. ASSUME NEW x \in Engine
      PROVE  Agrees(eng[x])'
  <2>1. CASE x = e
    <3>1. eng'[x] = y
      BY <2>1, IInvParts
    <3>. QED
      BY <3>1 DEF Agrees, HitHolds
  <2>2. CASE x # e
    <3>1. PICK z : z = eng[x] /\ z \in EngineState
      BY IInvParts
    <3>2. eng'[x] = z
      BY <2>2, <3>1, IInvParts
    <3>3. Agrees(z)
      BY <3>1, IInvParts DEF EnginesAgree
    <3>4. Agrees(z)'
      BY <1>2, <3>1, <3>3, AgreesStays, IInvParts
    <3>. QED
      BY <3>2, <3>4 DEF Agrees, HitHolds
  <2>. QED
    BY <2>1, <2>2
<1>. QED
  BY <1>1, <1>3 DEF EnginesAgree

Store == <<lease, runs, created, finished, old, artifacts, made>>

LEMMA SameStore ==
    ASSUME IInv, UNCHANGED Store
    PROVE  StoreType' /\ StoreInv' /\ Keeps /\ Stays /\ LeaseKept
<1>1. StoreType' /\ StoreInv'
  BY IInvParts DEF Store, StoreType, StoreInv, FinishedIsOrder, RowsAgree, OneRuns, Counters,
       ArtifactsWithinCap, FinishedRunsReplay, ReuseIsGrounded, Terminal, Stored, Running, Open, Before
<1>2. created \in Nat
  BY IInvParts DEF StoreType
<1>. QED
  BY <1>1, <1>2 DEF Store, Keeps, Stays, LeaseKept

(* The engine that takes the step does not finish a commit.                 *)
LEMMA SurvivesElsewhere ==
    ASSUME IInv, NEW e \in Engine, NEW y, eng' = [eng EXCEPT ![e] = y], y.step # "gc"
    PROVE  Survives
<1>. SUFFICES ASSUME NEW x \in Engine, At(x, "commit"), eng'[x].step = "gc"
              PROVE  FALSE
  BY DEF Survives
<1>. QED
  BY IInvParts DEF At

(* A step of an engine between its transactions.                            *)
LEMMA QuietStep ==
    ASSUME IInv, NEW e \in Engine, NEW y \in EngineState, Agrees(y), y.step # "gc",
           eng' = [eng EXCEPT ![e] = y], UNCHANGED Store, faults' \in 0..MaxFaults
    PROVE  StepOK
<1>1. StoreType' /\ StoreInv' /\ Keeps /\ Stays /\ LeaseKept
  BY SameStore
<1>2. Agrees(y)'
  BY DEF Agrees, HitHolds, Store
<1>3. eng' \in [Engine -> EngineState] /\ EnginesAgree'
  BY <1>1, <1>2, EngineStep
<1>4. Survives
  BY SurvivesElsewhere
<1>5. TypeOK'
  BY <1>1, <1>3 DEF TypeOK, StoreType
<1>. QED
  BY <1>1, <1>3, <1>4, <1>5 DEF StepOK, IInv

---------------------------------------------------------------------------
(* The steps between transactions.                                          *)

LEMMA IdleAgrees == Idle \in EngineState /\ Agrees(Idle)
<1>1. EmptyPlan \in [arts : SUBSET RunIds, runs : SUBSET RunIds, terminal : SUBSET RunIds]
  BY DEF EmptyPlan
<1>2. TRUE \in BOOLEAN
  OBVIOUS
<1>3. Idle \in EngineState
  BY <1>1, <1>2 DEF Idle, EngineState, Steps, Final
<1>. QED
  BY <1>3, Ids DEF Idle, Agrees

LEMMA ReturnStep ==
    ASSUME IInv, NEW e \in Engine, Return(e), UNCHANGED Store, faults' \in 0..MaxFaults
    PROVE  StepOK
<1>1. PICK y : y = Idle /\ y \in EngineState /\ Agrees(y) /\ y.step # "gc"
  BY IdleAgrees DEF Idle
<1>2. eng' = [eng EXCEPT ![e] = y]
  BY <1>1 DEF Return
<1>. QED
  BY <1>1, <1>2, QuietStep

(* An engine goes on to prepare or to abandon its run.                      *)
LEMMA GotoStep ==
    ASSUME IInv, NEW e \in Engine, NEW step \in {"prepare", "abandon"}, Goto(e, step),
           ~At(e, "idle"), ~At(e, "gc"), UNCHANGED Store, faults' \in 0..MaxFaults
    PROVE  StepOK
<1>1. PICK x : x = eng[e] /\ x \in EngineState /\ Agrees(x)
  BY IInvParts DEF EnginesAgree
<1>2. PICK y : y = [x EXCEPT !.step = step]
  OBVIOUS
<1>3. y \in EngineState /\ y.step # "gc"
  BY <1>1, <1>2 DEF EngineState, Steps
<1>4. eng' = [eng EXCEPT ![e] = y]
  BY <1>1, <1>2 DEF Goto
<1>5. Agrees(y)
  BY <1>1, <1>2 DEF Agrees, HitHolds, At, EngineState
<1>. QED
  BY <1>3, <1>4, <1>5, QuietStep

LEMMA FaultCount ==
    ASSUME IInv, Fails \/ faults' = faults
    PROVE  faults' \in 0..MaxFaults
BY IInvParts, ScanConstants DEF Fails

LEMMA TimingFailsStep == ASSUME IInv, NEW e \in Engine, TimingFails(e) PROVE StepOK
<1>1. faults' \in 0..MaxFaults
  BY FaultCount DEF TimingFails
<1>2. Goto(e, "abandon") /\ ~At(e, "idle") /\ ~At(e, "gc") /\ UNCHANGED Store
  BY DEF TimingFails, At, Store
<1>. QED
  BY <1>1, <1>2, GotoStep

LEMMA HandshakeLateStep == ASSUME IInv, NEW e \in Engine, HandshakeLate(e) PROVE StepOK
<1>1. faults' \in 0..MaxFaults
  BY FaultCount DEF HandshakeLate
<1>2. Goto(e, "prepare") /\ ~At(e, "idle") /\ ~At(e, "gc") /\ UNCHANGED Store
  BY DEF HandshakeLate, At, Store
<1>. QED
  BY <1>1, <1>2, GotoStep

LEMMA PrepareFailsStep == ASSUME IInv, NEW e \in Engine, PrepareFails(e) PROVE StepOK
<1>1. faults' \in 0..MaxFaults
  BY FaultCount DEF PrepareFails
<1>2. Goto(e, "abandon") /\ ~At(e, "idle") /\ ~At(e, "gc") /\ UNCHANGED Store
  BY DEF PrepareFails, At, Store
<1>. QED
  BY <1>1, <1>2, GotoStep

LEMMA CommitFailsStep == ASSUME IInv, NEW e \in Engine, NEW lag, CommitFails(e, lag) PROVE StepOK
<1>1. faults' \in 0..MaxFaults
  BY FaultCount DEF CommitFails
<1>2. Goto(e, "abandon") /\ ~At(e, "idle") /\ ~At(e, "gc") /\ UNCHANGED Store
  BY DEF CommitFails, At, Store
<1>. QED
  BY <1>1, <1>2, GotoStep

LEMMA ReturnsStep ==
    ASSUME IInv, NEW e \in Engine,
           \/ \E lag \in OwnLags : RecordLost(e, lag)
           \/ AbandonFails(e) \/ SkipGc(e) \/ Crash(e)
    PROVE  StepOK
<1>1. faults' \in 0..MaxFaults
  BY FaultCount DEF RecordLost, AbandonFails, SkipGc, Crash
<1>2. Return(e) /\ UNCHANGED Store
  BY DEF RecordLost, AbandonFails, SkipGc, Crash, Store
<1>. QED
  BY <1>1, <1>2, ReturnStep

LEMMA FinishScanStep ==
    ASSUME IInv, NEW e \in Engine, NEW out \in Final, NEW k \in Keys \cup {"ineligible"},
           FinishScan(e, out, k)
    PROVE  StepOK
<1>1. PICK x : x = eng[e] /\ x \in EngineState /\ Agrees(x)
  BY IInvParts DEF EnginesAgree
<1>2. PICK y : y = [x EXCEPT !.step = "prepare", !.out = out, !.key = k]
  OBVIOUS
<1>3. y \in EngineState /\ y.step # "gc"
  BY <1>1, <1>2 DEF EngineState, Steps
<1>4. eng' = [eng EXCEPT ![e] = y]
  BY <1>1, <1>2, IInvParts DEF FinishScan
<1>5. x.step = "work"
  BY <1>1 DEF FinishScan, At
<1>6. Agrees(y)
  BY <1>1, <1>2, <1>5 DEF Agrees, EngineState
<1>7. UNCHANGED Store /\ faults' \in 0..MaxFaults
  BY FaultCount DEF FinishScan, Store
<1>. QED
  BY <1>3, <1>4, <1>6, <1>7, QuietStep

LEMMA FinishHitStep ==
    ASSUME IInv, NEW e \in Engine, NEW k \in Keys, FinishHit(e, k)
    PROVE  StepOK
<1>1. PICK x : x = eng[e] /\ x \in EngineState /\ Agrees(x)
  BY IInvParts DEF EnginesAgree
<1>2. PICK s \in Sources(k) : eng' = [eng EXCEPT ![e].step = "prepare", ![e].out = "success",
                                        ![e].source = s, ![e].reuse = runs[s].artifact]
  BY DEF FinishHit
<1>3. PICK a : a = runs[s].artifact
  OBVIOUS
<1>4. /\ s \in RunIds /\ runs[s].status = "success" /\ a \in RunIds /\ artifacts[a] \in Keys
      /\ a # None /\ s <= created
  <2>1. s \in RunIds /\ runs[s].status = "success" /\ artifacts[a] \in Keys
    BY <1>2, <1>3 DEF Sources
  <2>2. a \in Stored
    BY <1>3, <2>1, IInvParts DEF FinishedRunsReplay
  <2>3. a \in RunIds /\ a # None
    BY <2>2, Ids DEF Stored
  <2>4. s \in Nat /\ created \in Nat /\ ~(s > created)
    BY <2>1, IInvParts, Ids DEF RowsAgree, StoreType
  <2>. QED
    BY <2>1, <2>3, <2>4
<1>5. PICK y : y = [x EXCEPT !.step = "prepare", !.out = "success", !.source = s, !.reuse = a]
  OBVIOUS
<1>6. y \in EngineState /\ y.step # "gc"
  BY <1>1, <1>4, <1>5 DEF EngineState, Steps, Final
<1>7. eng' = [eng EXCEPT ![e] = y]
  BY <1>1, <1>2, <1>3, <1>5, IInvParts
<1>8. x.step = "work"
  BY <1>1 DEF FinishHit, At
<1>9. Agrees(y)
  BY <1>1, <1>3, <1>4, <1>5, <1>8 DEF Agrees, HitHolds, EngineState
<1>10. UNCHANGED Store /\ faults' \in 0..MaxFaults
  BY FaultCount DEF FinishHit, Store
<1>. QED
  BY <1>6, <1>7, <1>9, <1>10, QuietStep

LEMMA PrepareStep ==
    ASSUME IInv, NEW e \in Engine, Prepare(e)
    PROVE  StepOK
<1>1. PICK x : x = eng[e] /\ x \in EngineState /\ Agrees(x) /\ x.step = "prepare"
  BY IInvParts DEF EnginesAgree, Prepare, At
<1>2. PICK room : room = Room(e) /\ room \in PlanType(e)
  BY RoomTyped, IInvParts
<1>3. PICK V : V = TerminalVictims(e, room)
  OBVIOUS
<1>4. V \subseteq Terminal /\ V \cap ProtectedRuns(e) = {}
  <2>1. PICK aged, left, n :
          /\ aged = (Terminal \cap old) \ (room.runs \cup ProtectedRuns(e))
          /\ left = Terminal \ (room.runs \cup aged)
          /\ n = Cardinality(left) + 1 - MaxCount
    OBVIOUS
  <2>2. left \subseteq RunIds /\ left \ ProtectedRuns(e) \subseteq Terminal
    BY <2>1 DEF Terminal
  <2>3. n \in Int
    BY <2>1, <2>2, FiniteIds, ScanConstants
  <2>4. OldestRuns(left \ ProtectedRuns(e), n) \subseteq left \ ProtectedRuns(e)
    BY <2>2, <2>3, OldestRunsFirst, IInvParts
  <2>5. V = aged \cup OldestRuns(left \ ProtectedRuns(e), n)
    BY <1>3, <2>1 DEF TerminalVictims
  <2>. QED
    BY <2>1, <2>4, <2>5
<1>5. PICK plan : plan = [room EXCEPT !.terminal = V]
  OBVIOUS
<1>6. /\ plan.arts = room.arts /\ plan.runs = room.runs /\ plan.terminal = V
      /\ plan \in [arts : SUBSET RunIds, runs : SUBSET RunIds, terminal : SUBSET RunIds]
  BY <1>2, <1>4, <1>5 DEF PlanType, Stored, Terminal
<1>7. PICK u : u = IF x.out # "error" /\ Reused(e) # {}
                     THEN CHOOSE a \in Reused(e) : TRUE ELSE None
  OBVIOUS
<1>8. u = None \/ (u \in Reused(e) /\ x.out # "error")
  BY <1>7
<1>9. Reused(e) \subseteq RunIds
  <2>1. x.reuse \in RunIds \cup {None}
    BY <1>1 DEF EngineState
  <2>. QED
    BY <1>1, <2>1 DEF Reused, Dedup, Stored
<1>10. u # None => room = EmptyPlan /\ x.out # "error"
  BY <1>1, <1>2, <1>8 DEF Room, MakesArtifact
<1>11. x.source # None => u = x.reuse
  <2>1. SUFFICES ASSUME x.source # None
                 PROVE  u = x.reuse
    OBVIOUS
  <2>2. x.reuse # None /\ x.out = "success"
    BY <1>1, <2>1 DEF Agrees, HitHolds
  <2>3. Reused(e) = {x.reuse}
    BY <1>1, <2>2 DEF Reused
  <2>. QED
    BY <1>7, <2>2, <2>3
<1>12. x.source \notin plan.runs \cup plan.terminal
  <2>1. CASE x.source = None
    BY <1>6, <2>1, Ids
  <2>2. CASE x.source # None
    <3>1. x.source \in ProtectedRuns(e)
      BY <1>1, <2>2 DEF ProtectedRuns
    <3>. QED
      BY <1>2, <1>4, <1>6, <3>1 DEF PlanType
  <2>. QED
    BY <2>1, <2>2
<1>13. PICK y : y = [x EXCEPT !.step = "commit", !.plan = plan, !.reuse = u]
  OBVIOUS
<1>14. y \in EngineState /\ y.step # "gc"
  BY <1>1, <1>6, <1>8, <1>9, <1>13 DEF EngineState, Steps
<1>15. eng' = [eng EXCEPT ![e] = y]
  BY <1>1, <1>2, <1>3, <1>5, <1>7, <1>13, IInvParts DEF Prepare
<1>16. Agrees(y)
  <2>1. /\ y.step = "commit" /\ y.run = x.run /\ y.source = x.source /\ y.out = x.out
        /\ y.reuse = u /\ y.plan = plan
    BY <1>1, <1>13 DEF EngineState
  <2>2. y.source # None => HitHolds(y)
    BY <1>1, <1>11, <2>1 DEF Agrees, HitHolds
  <2>3. y.reuse # None => y.plan.arts = {} /\ y.out # "error"
    BY <1>6, <1>10, <2>1 DEF EmptyPlan
  <2>4. y.run \in RunIds
    BY <1>1, <2>1 DEF Agrees
  <2>. QED
    BY <1>12, <2>1, <2>2, <2>3, <2>4 DEF Agrees
<1>17. UNCHANGED Store /\ faults' \in 0..MaxFaults
  BY FaultCount DEF Prepare, Store
<1>. QED
  BY <1>14, <1>15, <1>16, <1>17, QuietStep

---------------------------------------------------------------------------
(* The transactions.                                                        *)

LEMMA FinishedPairs ==
    ASSUME StoreType, NEW S, NEW R, NEW a, NEW b
    PROVE  <<a, b>> \in Finish(S, R) <=>
              \/ <<a, b>> \in finished /\ a \notin R /\ b \notin R
              \/ a \in Terminal \ R /\ b \in S
<1>1. <<a, b>> \in Without(R) <=> <<a, b>> \in finished /\ a \notin R /\ b \notin R
  BY DEF Without
<1>. QED
  BY <1>1 DEF Finish

(* A row that stops after all the others keeps them in one order.           *)
LEMMA OrderKept ==
    ASSUME StoreType, FinishedIsOrder, NEW S, NEW R, finished' = Finish(S, R),
           Terminal' = (Terminal \ R) \cup S, S \cap (Terminal \ R) = {},
           \A a, b \in S : a = b
    PROVE  FinishedIsOrder' /\ finished' \subseteq Terminal' \X Terminal'
<1>1. PICK T, F, T2, F2 : T = Terminal /\ F = finished /\ T2 = Terminal' /\ F2 = finished'
  OBVIOUS
<1>2. T2 = (T \ R) \cup S /\ S \cap (T \ R) = {} /\ F \subseteq T \X T
  BY <1>1 DEF StoreType
<1>3. \A a, b : <<a, b>> \in F2 <=> \/ <<a, b>> \in F /\ a \notin R /\ b \notin R
                                    \/ a \in T \ R /\ b \in S
  BY <1>1, FinishedPairs
<1>4. /\ \A r \in T : <<r, r>> \notin F
      /\ \A r, s \in T : r = s \/ <<r, s>> \in F \/ <<s, r>> \in F
      /\ \A r, s, t \in T : <<r, s>> \in F /\ <<s, t>> \in F => <<r, t>> \in F
  BY <1>1 DEF FinishedIsOrder, Before
<1>5. \A r \in T2 : <<r, r>> \notin F2
  <2>1. \A a, b : <<a, b>> \in F => a \in T /\ b \in T
    BY <1>2
  <2>2. SUFFICES ASSUME NEW r \in T2, <<r, r>> \in F2
                 PROVE  FALSE
    OBVIOUS
  <2>3. <<r, r>> \in F \/ (r \in T \ R /\ r \in S)
    BY <1>3, <2>2
  <2>. QED
    BY <1>2, <1>4, <2>1, <2>3
<1>6. \A r, s \in T2 : r = s \/ <<r, s>> \in F2 \/ <<s, r>> \in F2
  BY <1>2, <1>3, <1>4
<1>7. \A r, s, t \in T2 : <<r, s>> \in F2 /\ <<s, t>> \in F2 => <<r, t>> \in F2
  BY <1>2, <1>3, <1>4
<1>8. FinishedIsOrder'
  BY <1>1, <1>5, <1>6, <1>7 DEF FinishedIsOrder, Before
<1>9. F2 \subseteq T2 \X T2
  <2>1. F2 \subseteq (T \X T) \cup (T \X S)
    BY <1>1, <1>2 DEF Finish, Without
  <2>. QED
    BY <1>2, <1>3, <2>1
<1>. QED
  BY <1>1, <1>8, <1>9

Leases == [owner : Engine, age : 0..(Grace + MaxLag), held : 0..(Grace + MaxLag)]

LEMMA LeaseFacts ==
    /\ \A l \in Leases : l # NoLease
    /\ NoLease.owner \notin Engine
    /\ IInv => lease \in {NoLease} \cup Leases
    /\ Grace \in Nat /\ Grace > 0 /\ MaxLag \in Nat
    /\ \A lag \in Lags : lag \in 0..(Grace + MaxLag)
    /\ OwnLags \subseteq Lags
<1>1. Grace \in Nat /\ Grace > 0 /\ MaxLag \in Nat /\ 0 \notin Engine
  BY ScanConstants
<1>2. IInv => lease \in {NoLease} \cup Leases
  BY IInvParts DEF StoreType, Leases
<1>3. \A lag \in Lags : lag \in 0..(Grace + MaxLag)
  BY <1>1 DEF Lags
<1>. QED
  BY <1>1, <1>2, <1>3 DEF Leases, NoLease, None, OwnLags

(* The owner of the lease renews it, or notes something in its own row.     *)
LEMMA TouchStore ==
    ASSUME IInv, lease # NoLease, lease' \in Leases, lease'.owner = lease.owner,
           runs' \in [RunIds -> Row],
           \A r \in RunIds : /\ runs'[r].status = runs[r].status /\ runs'[r].attempt = runs[r].attempt
                             /\ runs'[r].owner = runs[r].owner
                             /\ runs'[r].artifact = runs[r].artifact
                             /\ runs'[r].reused = runs[r].reused
                             /\ runs[r].status # "running" => runs'[r] = runs[r],
           UNCHANGED <<created, finished, old, artifacts, made>>
    PROVE  StoreType' /\ StoreInv' /\ Keeps /\ Stays /\ LeaseKept
<1>1. lease' # NoLease
  BY LeaseFacts
<1>2. Terminal' = Terminal /\ Running' = Running /\ Open' = Open /\ Stored' = Stored
  BY DEF Terminal, Running, Open, Stored
<1>3. StoreType'
  BY <1>2, IInvParts DEF StoreType, Leases
<1>4. RowsAgree'
  <2>. SUFFICES ASSUME NEW r \in RunIds
                PROVE  /\ runs'[r].attempt = runs'[r].status
                       /\ runs'[r].status = "absent" => runs'[r] = NoRow
                       /\ r > created' => runs'[r].status = "absent"
                       /\ runs'[r].status = "running" =>
                             /\ lease' # NoLease /\ runs'[r].owner = lease'.owner
                             /\ runs'[r].artifact = None /\ runs'[r].reused = None
    BY DEF RowsAgree
  <2>. QED
    BY <1>1, IInvParts DEF RowsAgree
<1>5. OneRuns'
  BY <1>2, IInvParts DEF OneRuns
<1>6. Counters' /\ ArtifactsWithinCap'
  BY <1>2, IInvParts DEF Counters, ArtifactsWithinCap
<1>7. FinishedIsOrder'
  BY <1>2, IInvParts DEF FinishedIsOrder, Before
<1>8. FinishedRunsReplay'
  BY <1>2, IInvParts DEF FinishedRunsReplay
<1>9. ReuseIsGrounded'
  BY IInvParts DEF ReuseIsGrounded, StoreType, Row
<1>10. Keeps
  <2>1. created \in Nat
    BY IInvParts DEF StoreType
  <2>. QED
    BY <2>1 DEF Keeps
<1>11. Stays
  BY DEF Stays, Final
<1>12. LeaseKept
  BY DEF LeaseKept
<1>. QED
  BY <1>3, <1>4, <1>5, <1>6, <1>7, <1>8, <1>9, <1>10, <1>11, <1>12 DEF StoreInv

LEMMA SameEngines ==
    ASSUME IInv, StoreType', StoreInv', Keeps, Stays, LeaseKept, eng' = eng, faults' = faults
    PROVE  StepOK
<1>1. ASSUME NEW x \in Engine
      PROVE  Agrees(eng[x])'
  <2>1. PICK z : z = eng[x] /\ z \in EngineState /\ Agrees(z)
    BY IInvParts DEF EnginesAgree
  <2>2. created' \in Nat
    BY DEF StoreType
  <2>3. Agrees(z)'
    BY <2>1, <2>2, AgreesStays, IInvParts
  <2>. QED
    BY <2>1, <2>3 DEF Agrees, HitHolds
<1>2. EnginesAgree'
  BY <1>1 DEF EnginesAgree
<1>3. TypeOK'
  BY IInvParts DEF TypeOK, StoreType
<1>4. Survives
  BY DEF Survives, At
<1>. QED
  BY <1>2, <1>3, <1>4 DEF StepOK, IInv

LEMMA SameRows ==
    ASSUME IInv, runs' = runs
    PROVE  /\ runs' \in [RunIds -> Row]
           /\ \A r \in RunIds : /\ runs'[r].status = runs[r].status /\ runs'[r].attempt = runs[r].attempt
                             /\ runs'[r].owner = runs[r].owner
                             /\ runs'[r].artifact = runs[r].artifact
                             /\ runs'[r].reused = runs[r].reused
                             /\ runs[r].status # "running" => runs'[r] = runs[r]
BY IInvParts DEF StoreType

LEMMA TickStep == ASSUME IInv, Tick PROVE StepOK
<1>1. lease \in Leases
  BY LeaseFacts DEF Tick
<1>4. PICK a, h : a = Older(lease.age) /\ h = Older(lease.held)
  OBVIOUS
<1>5. a \in 0..(Grace + MaxLag) /\ h \in 0..(Grace + MaxLag)
  BY <1>1, <1>4, LeaseFacts DEF Older, Leases
<1>6. lease' = [lease EXCEPT !.age = a, !.held = h]
  BY <1>4 DEF Tick
<1>2. lease' \in Leases /\ lease'.owner = lease.owner
  BY <1>1, <1>5, <1>6 DEF Leases
<1>3. StoreType' /\ StoreInv' /\ Keeps /\ Stays /\ LeaseKept
  BY <1>2, SameRows, TouchStore DEF Tick
<1>. QED
  BY <1>3, SameEngines DEF Tick

(* The owner of a running row holds the lease.                              *)
LEMMA OwnerHolds ==
    ASSUME IInv, NEW e \in Engine, EnsureOwner(e)
    PROVE  lease \in Leases /\ lease # NoLease
BY LeaseFacts DEF EnsureOwner

LEMMA HeartbeatStep == ASSUME IInv, NEW e \in Engine, NEW lag \in OwnLags, Heartbeat(e, lag) PROVE StepOK
<1>1. lease \in Leases /\ lease # NoLease
  BY OwnerHolds DEF Heartbeat, CanBeat
<1>2. lease' \in Leases /\ lease'.owner = lease.owner
  BY <1>1, LeaseFacts DEF Heartbeat, Leases
<1>3. StoreType' /\ StoreInv' /\ Keeps /\ Stays /\ LeaseKept
  BY <1>1, <1>2, SameRows, TouchStore DEF Heartbeat
<1>. QED
  BY <1>3, SameEngines DEF Heartbeat

LEMMA AgeStep == ASSUME IInv, Age PROVE StepOK
<1>1. UNCHANGED <<lease, runs, created, finished, artifacts, made, eng, faults>>
  BY DEF Age
<1>2. Terminal' = Terminal /\ Running' = Running /\ Open' = Open /\ Stored' = Stored
  BY <1>1 DEF Terminal, Running, Open, Stored
<1>3. StoreType'
  BY <1>1, <1>2, IInvParts DEF StoreType, Age
<1>4. StoreInv'
  BY <1>1, <1>2, IInvParts DEF StoreInv, FinishedIsOrder, RowsAgree, OneRuns, Counters,
       ArtifactsWithinCap, FinishedRunsReplay, ReuseIsGrounded, Before
<1>5. created \in Nat
  BY IInvParts DEF StoreType
<1>6. Keeps /\ Stays /\ LeaseKept
  BY <1>1, <1>5 DEF Keeps, Stays, LeaseKept
<1>. QED
  BY <1>1, <1>3, <1>4, <1>6, SameEngines

(* A transaction of an engine, with what it remembers next.                 *)
LEMMA TransactionStep ==
    ASSUME IInv, StoreType', StoreInv', Keeps, Stays, LeaseKept, Survives, faults' = faults,
           NEW e \in Engine, NEW y \in EngineState, Agrees(y)', eng' = [eng EXCEPT ![e] = y]
    PROVE  StepOK
<1>1. eng' \in [Engine -> EngineState] /\ EnginesAgree'
  BY EngineStep
<1>2. TypeOK'
  BY <1>1, IInvParts DEF TypeOK, StoreType
<1>. QED
  BY <1>1, <1>2 DEF StepOK, IInv

LEMMA RecordWorkersStep ==
    ASSUME IInv, NEW e \in Engine, NEW lag \in OwnLags, NEW ok \in BOOLEAN, RecordWorkers(e, ok, lag)
    PROVE  StepOK
<1>1. lease \in Leases /\ lease # NoLease
  BY OwnerHolds DEF RecordWorkers, CanBeat
<1>2. lease' \in Leases /\ lease'.owner = lease.owner
  BY <1>1, LeaseFacts DEF RecordWorkers, Leases
<1>3. PICK x : x = eng[e] /\ x \in EngineState /\ Agrees(x) /\ x.step = "handshake"
  BY IInvParts DEF EnginesAgree, RecordWorkers, At
<1>4. x.run \in RunIds /\ x.source = None /\ runs[x.run].status = "running"
  BY <1>3 DEF Agrees, RecordWorkers, CanBeat, EnsureOwner
<1>5. PICK row : row = [runs[x.run] EXCEPT !.workers = ok]
  OBVIOUS
<1>6. row \in Row /\ runs' = [runs EXCEPT ![x.run] = row]
  BY <1>3, <1>4, <1>5, IInvParts DEF RecordWorkers, Row, StoreType
<1>7. /\ runs' \in [RunIds -> Row]
      /\ \A r \in RunIds : /\ runs'[r].status = runs[r].status /\ runs'[r].attempt = runs[r].attempt
                           /\ runs'[r].owner = runs[r].owner
                           /\ runs'[r].artifact = runs[r].artifact
                           /\ runs'[r].reused = runs[r].reused
                           /\ runs[r].status # "running" => runs'[r] = runs[r]
  BY <1>4, <1>5, <1>6, IInvParts DEF StoreType, Row
<1>8. StoreType' /\ StoreInv' /\ Keeps /\ Stays /\ LeaseKept
  BY <1>1, <1>2, <1>7, TouchStore DEF RecordWorkers
<1>15. PICK step \in {"work", "prepare"} : step = IF ok THEN "work" ELSE "prepare"
  OBVIOUS
<1>9. PICK y : y = [x EXCEPT !.step = step, !.hello = ok]
  OBVIOUS
<1>10. /\ y \in EngineState /\ y.step # "gc" /\ y.step # "commit"
       /\ y.source = None /\ y.run \in RunIds
  <2>1. step \in Steps /\ step # "gc" /\ step # "commit"
    BY <1>15 DEF Steps
  <2>2. y \in EngineState
    BY <1>3, <1>9, <2>1 DEF EngineState
  <2>. QED
    BY <1>3, <1>4, <1>9, <2>1, <2>2 DEF EngineState
<1>11. eng' = [eng EXCEPT ![e] = y]
  BY <1>3, <1>9, <1>15, IInvParts DEF RecordWorkers
<1>12. Agrees(y)'
  BY <1>10 DEF Agrees
<1>13. Survives
  BY <1>10, <1>11, SurvivesElsewhere
<1>14. faults' = faults
  BY DEF RecordWorkers
<1>. QED
  BY <1>8, <1>10, <1>11, <1>12, <1>13, <1>14, TransactionStep

(* What deleting rows leaves of a table.                                    *)
LEMMA DeleteRows ==
    ASSUME NEW R, NEW t \in [RunIds -> Row], NEW d, d = Delete(R, t)
    PROVE  /\ d \in [RunIds -> Row]
           /\ \A x \in RunIds : x \in R => d[x] = NoRow
           /\ \A x \in RunIds : x \notin R =>
                 /\ d[x].status = t[x].status /\ d[x].attempt = t[x].attempt
                 /\ d[x].owner = t[x].owner /\ d[x].artifact = t[x].artifact
                 /\ d[x].reused = t[x].reused \/ (d[x].reused = None /\ t[x].reused \in R)
                 /\ d[x].reused = None \/ d[x].reused \notin R
                 /\ t[x].reused \notin R => d[x] = t[x]
                 /\ d[x] \in {t[x], [t[x] EXCEPT !.reused = None]}
<1>1. NoRow \in Row
  <2>1. FALSE \in BOOLEAN
    OBVIOUS
  <2>. QED
    BY <2>1 DEF NoRow, Row, Statuses, Final
<1>2. ASSUME NEW x \in RunIds
      PROVE  [t[x] EXCEPT !.reused = None] \in Row
  BY DEF Row
<1>3. \A x \in RunIds : d[x] = IF x \in R THEN NoRow
                               ELSE IF t[x].reused \in R THEN [t[x] EXCEPT !.reused = None]
                               ELSE t[x]
  BY DEF Delete
<1>4. d \in [RunIds -> Row]
  BY <1>1, <1>2 DEF Delete
<1>. QED
  BY <1>3, <1>4 DEF Row

LEMMA AbsentRow == NoRow.status = "absent" /\ NoRow.attempt = "absent" /\ NoRow.owner = None
                   /\ NoRow.artifact = None /\ NoRow.reused = None
BY DEF NoRow

(* Retention only drops artifacts that no row it leaves refers to.          *)
Unused(A, R) == A \subseteq Stored /\ \A x \in Present \ R : runs[x].artifact \notin A

LEMMA GcStep == ASSUME IInv, NEW e \in Engine, Gc(e) PROVE StepOK
<1>1. PICK A, R : /\ A = OldestArtifacts(Orphans(Stored, Present), Batch)
                  /\ R = OldestRuns(Terminal \cap old, Batch)
  OBVIOUS
<1>2. /\ runs' = Delete(R, runs) /\ finished' = Finish({}, R) /\ old' = old \ R
      /\ artifacts' = [a \in RunIds |-> IF a \in A THEN "absent" ELSE artifacts[a]]
      /\ eng' = [eng EXCEPT ![e] = Idle]
      /\ UNCHANGED <<lease, created, made, faults>>
  BY <1>1 DEF Gc, Return
<1>3. R \subseteq Terminal
  <2>1. Batch \in Int
    BY ScanConstants
  <2>2. Terminal \cap old \subseteq Terminal
    OBVIOUS
  <2>3. OldestRuns(Terminal \cap old, Batch) \subseteq Terminal \cap old
    BY <2>1, <2>2, OldestRunsFirst, IInvParts
  <2>. QED
    BY <1>1, <2>3
<1>4. Unused(A, {})
  <2>1. Orphans(Stored, Present) \subseteq RunIds
    BY DEF Orphans, Stored
  <2>2. A \subseteq Orphans(Stored, Present)
    BY <1>1, <2>1, OldestArtifactsSome
  <2>. QED
    BY <2>2 DEF Orphans, Unused
<1>5. /\ runs' \in [RunIds -> Row]
      /\ \A x \in RunIds : x \in R => runs'[x] = NoRow
      /\ \A x \in RunIds : x \notin R =>
            /\ runs'[x].status = runs[x].status /\ runs'[x].attempt = runs[x].attempt
            /\ runs'[x].owner = runs[x].owner /\ runs'[x].artifact = runs[x].artifact
            /\ runs'[x].reused = runs[x].reused \/ (runs'[x].reused = None /\ runs[x].reused \in R)
            /\ runs'[x].reused = None \/ runs'[x].reused \notin R
            /\ runs[x].reused \notin R => runs'[x] = runs[x]
            /\ runs'[x] \in {runs[x], [runs[x] EXCEPT !.reused = None]}
  BY <1>2, DeleteRows, IInvParts DEF StoreType
<1>6. \A x \in RunIds : runs[x].status = "running" => x \notin R
  BY <1>3 DEF Terminal, Final
<1>7. Terminal' = (Terminal \ R) \cup {} /\ Running' = Running /\ Open' \subseteq Open
  BY <1>5, <1>6, AbsentRow DEF Terminal, Running, Open, Final
<1>8. Stored' = Stored \ A
  BY <1>2 DEF Stored
<1>9. FinishedIsOrder' /\ finished' \subseteq Terminal' \X Terminal'
  <2>1. finished' = Finish({}, R) /\ {} \cap (Terminal \ R) = {} /\ \A a, b \in {} : a = b
    BY <1>2
  <2>. QED
    BY <1>7, <2>1, OrderKept, IInvParts
<1>10. StoreType'
  <2>1. artifacts' \in [RunIds -> Keys \cup {"ineligible", "absent"}]
    BY <1>2, IInvParts DEF StoreType
  <2>. QED
    BY <1>2, <1>5, <1>7, <1>9, <2>1, IInvParts DEF StoreType
<1>11. RowsAgree'
  <2>. SUFFICES ASSUME NEW r \in RunIds
                PROVE  /\ runs'[r].attempt = runs'[r].status
                       /\ runs'[r].status = "absent" => runs'[r] = NoRow
                       /\ r > created' => runs'[r].status = "absent"
                       /\ runs'[r].status = "running" =>
                             /\ lease' # NoLease /\ runs'[r].owner = lease'.owner
                             /\ runs'[r].artifact = None /\ runs'[r].reused = None
    BY DEF RowsAgree
  <2>1. CASE r \in R
    BY <1>5, <2>1, AbsentRow
  <2>2. CASE r \notin R
    <3>1. runs[r].status = "absent" => runs[r].reused \notin R
      BY <1>3, AbsentRow, IInvParts, Ids DEF RowsAgree, Terminal
    <3>. QED
      BY <1>2, <1>5, <2>2, <3>1, IInvParts DEF RowsAgree
  <2>. QED
    BY <2>1, <2>2
<1>12. OneRuns'
  BY <1>2, <1>7, IInvParts DEF OneRuns
<1>13. Counters' /\ ArtifactsWithinCap'
  <2>1. Stored \subseteq RunIds /\ Open \subseteq RunIds /\ Open' \in SUBSET Open
        /\ Stored' \in SUBSET Stored
    BY <1>7, <1>8 DEF Stored, Open
  <2>2. Cardinality(Open') <= Cardinality(Open) /\ Cardinality(Stored') <= Cardinality(Stored)
    BY <2>1, FiniteIds, FS_Subset
  <2>3. /\ Cardinality(Open) \in Nat /\ Cardinality(Stored) \in Nat
        /\ Cardinality(Open') \in Nat /\ Cardinality(Stored') \in Nat
    <3>1. Open' \subseteq RunIds /\ Stored' \subseteq RunIds
      BY <2>1
    <3>. QED
      BY <2>1, <3>1, FiniteIds
  <2>4. made \in Nat /\ created \in Nat /\ MaxArtifacts \in Nat
    BY IInvParts, ScanConstants DEF StoreType
  <2>5. made + Cardinality(Open) <= created /\ Cardinality(Stored) <= MaxArtifacts
        /\ Stored \subseteq 1..made
    BY IInvParts DEF Counters, ArtifactsWithinCap
  <2>6. made + Cardinality(Open') <= created /\ Cardinality(Stored') <= MaxArtifacts
    BY <2>2, <2>3, <2>4, <2>5
  <2>. QED
    BY <1>2, <2>1, <2>5, <2>6 DEF Counters, ArtifactsWithinCap
<1>14. \A x \in RunIds : runs[x].status # "absent" => runs[x].artifact \notin A
  BY <1>4 DEF Unused, Present
<1>15. FinishedRunsReplay'
  <2>. SUFFICES ASSUME NEW r \in RunIds
                PROVE  /\ runs'[r].status \in {"success", "partial"} => runs'[r].artifact \in Stored'
                       /\ runs'[r].status \in {"error", "abandoned"} => runs'[r].artifact = None
    BY DEF FinishedRunsReplay
  <2>1. CASE r \in R
    BY <1>5, <2>1, AbsentRow
  <2>2. CASE r \notin R
    BY <1>5, <1>8, <1>14, <2>2, IInvParts DEF FinishedRunsReplay
  <2>. QED
    BY <2>1, <2>2
<1>16. \A x \in RunIds : runs[x].status = "success" =>
          runs[x].artifact \in RunIds /\ artifacts'[runs[x].artifact] = artifacts[runs[x].artifact]
  BY <1>2, <1>14, IInvParts DEF FinishedRunsReplay, Stored
<1>17. ReuseIsGrounded'
  <2>. SUFFICES ASSUME NEW r \in RunIds, runs'[r].reused # None
                PROVE  /\ runs'[runs'[r].reused].status = "success"
                       /\ runs'[runs'[r].reused].artifact = runs'[r].artifact
                       /\ artifacts'[runs'[r].artifact] \in Keys
    BY DEF ReuseIsGrounded
  <2>1. r \notin R
    BY <1>5, AbsentRow
  <2>2. PICK s : s = runs[r].reused /\ s = runs'[r].reused /\ s # None /\ s \notin R
    BY <1>5, <2>1
  <2>3. s \in RunIds
    BY <2>2, IInvParts DEF StoreType, Row
  <2>4. /\ runs[s].status = "success" /\ runs[s].artifact = runs[r].artifact
        /\ artifacts[runs[r].artifact] \in Keys
    BY <2>2, IInvParts DEF ReuseIsGrounded
  <2>5. runs'[s].status = "success" /\ runs'[s].artifact = runs[s].artifact
    BY <1>5, <2>2, <2>3, <2>4
  <2>6. runs'[r].artifact = runs[r].artifact
    BY <1>5, <2>1
  <2>. QED
    BY <1>16, <2>2, <2>3, <2>4, <2>5, <2>6
<1>18. StoreInv'
  BY <1>9, <1>11, <1>12, <1>13, <1>15, <1>17 DEF StoreInv
<1>19. Keeps
  <2>1. created <= created'
    BY <1>2, IInvParts DEF StoreType
  <2>. QED
    BY <1>5, <1>16, <2>1, AbsentRow DEF Keeps
<1>20. Stays
  BY <1>5, <1>6 DEF Stays
<1>21. LeaseKept
  BY <1>2 DEF LeaseKept
<1>22. PICK y : y = Idle /\ y \in EngineState /\ y.step # "gc" /\ Agrees(y)
  BY IdleAgrees DEF Idle
<1>23. Agrees(y)'
  BY <1>22 DEF Agrees, Idle
<1>24. Survives
  BY <1>2, <1>22, SurvivesElsewhere
<1>. QED
  BY <1>2, <1>10, <1>18, <1>19, <1>20, <1>21, <1>22, <1>23, <1>24, TransactionStep

LEMMA AbandonStep == ASSUME IInv, NEW e \in Engine, Abandon(e) PROVE StepOK
<1>1. PICK r : r = eng[e].run /\ r \in RunIds /\ runs[r].status = "running"
  BY IInvParts DEF Abandon, At, EnsureOwner, EnginesAgree, Agrees
<1>2. PICK row : row = Stop(runs[r], "abandoned")
  OBVIOUS
<1>3. /\ row \in Row /\ row.status = "abandoned" /\ row.attempt = "abandoned"
      /\ row.artifact = None /\ row.reused = None
  <2>1. FALSE \in BOOLEAN
    OBVIOUS
  <2>2. runs[r] \in Row /\ runs[r].artifact = None /\ runs[r].reused = None
    BY <1>1, IInvParts DEF StoreType, RowsAgree
  <2>. QED
    BY <1>2, <2>1, <2>2 DEF Stop, Row, Statuses, Final
<1>4. /\ runs' = [runs EXCEPT ![r] = row] /\ finished' = Finish({r}, {}) /\ lease' = NoLease
      /\ eng' = [eng EXCEPT ![e] = Idle]
      /\ UNCHANGED <<created, old, artifacts, made, faults>>
  BY <1>1, <1>2 DEF Abandon, Return
<1>5. /\ runs' \in [RunIds -> Row] /\ runs'[r] = row
      /\ \A x \in RunIds : x # r => runs'[x] = runs[x]
  BY <1>1, <1>3, <1>4, IInvParts DEF StoreType
<1>6. Running = {r}
  BY <1>1, IInvParts DEF OneRuns, Running
<1>7. /\ Terminal' = (Terminal \ {}) \cup {r} /\ Running' = {} /\ Open' = Open
      /\ Stored' = Stored /\ r \notin Terminal
  BY <1>1, <1>3, <1>4, <1>5, <1>6 DEF Terminal, Running, Open, Stored, Final
<1>8. FinishedIsOrder' /\ finished' \subseteq Terminal' \X Terminal'
  <2>1. {r} \cap (Terminal \ {}) = {} /\ \A a, b \in {r} : a = b
    BY <1>7
  <2>. QED
    BY <1>4, <1>7, <2>1, OrderKept, IInvParts
<1>9. StoreType'
  BY <1>4, <1>5, <1>7, <1>8, IInvParts DEF StoreType
<1>10. RowsAgree'
  <2>1. ASSUME NEW x \in RunIds
        PROVE  /\ runs'[x].attempt = runs'[x].status
               /\ runs'[x].status = "absent" => runs'[x] = NoRow
               /\ x > created' => runs'[x].status = "absent"
               /\ runs'[x].status # "running"
    <3>1. CASE x = r
      BY <1>1, <1>3, <1>4, <1>5, <3>1, IInvParts DEF RowsAgree
    <3>2. CASE x # r
      <4>1. runs'[x] = runs[x] /\ runs[x].status # "running"
        BY <1>5, <1>6, <3>2 DEF Running
      <4>. QED
        BY <1>4, <4>1, IInvParts DEF RowsAgree
    <3>. QED
      BY <3>1, <3>2
  <2>. QED
    BY <2>1 DEF RowsAgree
<1>11. OneRuns'
  BY <1>4, <1>7 DEF OneRuns
<1>12. Counters' /\ ArtifactsWithinCap'
  BY <1>4, <1>7, IInvParts DEF Counters, ArtifactsWithinCap
<1>13. FinishedRunsReplay'
  BY <1>3, <1>5, <1>7, IInvParts DEF FinishedRunsReplay
<1>14. ReuseIsGrounded'
  <2>. SUFFICES ASSUME NEW x \in RunIds, runs'[x].reused # None
                PROVE  /\ runs'[runs'[x].reused].status = "success"
                       /\ runs'[runs'[x].reused].artifact = runs'[x].artifact
                       /\ artifacts'[runs'[x].artifact] \in Keys
    BY DEF ReuseIsGrounded
  <2>1. x # r /\ runs'[x] = runs[x]
    BY <1>3, <1>5
  <2>2. PICK s : s = runs[x].reused /\ s \in RunIds
    BY <2>1, IInvParts DEF StoreType, Row
  <2>3. runs[s].status = "success" /\ runs[s].artifact = runs[x].artifact
        /\ artifacts[runs[x].artifact] \in Keys
    BY <2>1, <2>2, IInvParts DEF ReuseIsGrounded
  <2>4. s # r
    BY <1>1, <2>3
  <2>. QED
    BY <1>4, <1>5, <2>1, <2>2, <2>3, <2>4
<1>15. StoreInv'
  BY <1>8, <1>10, <1>11, <1>12, <1>13, <1>14 DEF StoreInv
<1>16. Keeps
  <2>1. created <= created'
    BY <1>4, IInvParts DEF StoreType
  <2>. QED
    BY <1>1, <1>4, <1>5, <2>1 DEF Keeps
<1>17. Stays
  BY <1>1, <1>3, <1>5 DEF Stays, Final
<1>18. LeaseKept
  BY <1>4 DEF LeaseKept
<1>19. PICK y : y = Idle /\ y \in EngineState /\ y.step # "gc" /\ Agrees(y)
  BY IdleAgrees DEF Idle
<1>20. Agrees(y)'
  BY <1>19 DEF Agrees, Idle
<1>21. Survives
  BY <1>4, <1>19, SurvivesElsewhere
<1>. QED
  BY <1>4, <1>9, <1>15, <1>16, <1>17, <1>18, <1>19, <1>20, <1>21, TransactionStep

LEMMA BeginRunStep ==
    ASSUME IInv, NEW e \in Engine, NEW q \in Request, NEW lag \in Lags, BeginRun(e, q, lag)
    PROVE  StepOK
<1>1. PICK lost, r :
        /\ lost = {x \in RunIds : lease # NoLease /\ Reclaimed(x)}
        /\ r = IF RowOf(q) = {} THEN created + 1 ELSE CHOOSE x \in RowOf(q) : TRUE
  OBVIOUS
<1>2. PICK row : row = [NoRow EXCEPT !.status = "running", !.owner = e,
                                     !.request = q, !.attempt = "running"]
  OBVIOUS
<1>3. /\ r \in RunIds
      /\ runs[r].status \in {"absent", "abandoned"} \/ r \in lost
      /\ lease' = [owner |-> e, age |-> lag, held |-> lag]
      /\ runs' = [x \in RunIds |-> IF x = r THEN row
                                   ELSE IF x \in lost THEN Stop(runs[x], "abandoned")
                                   ELSE runs[x]]
      /\ finished' = Finish(lost \ {r}, {r})
      /\ old' = old \ {r}
      /\ created' = IF r > created THEN r ELSE created
      /\ eng' = [eng EXCEPT ![e].step = "handshake", ![e].run = r]
      /\ UNCHANGED <<artifacts, made, faults>>
  BY <1>1, <1>2 DEF BeginRun
<1>4. lost = Running
  BY <1>1, IInvParts DEF Running, Reclaimed, RowsAgree
<1>5. \A a, b \in lost : a = b
  BY <1>4, IInvParts DEF OneRuns
<1>6. /\ row \in Row /\ row.status = "running" /\ row.attempt = "running" /\ row.owner = e
      /\ row.artifact = None /\ row.reused = None
  <2>1. FALSE \in BOOLEAN
    OBVIOUS
  <2>. QED
    BY <1>2, <2>1 DEF NoRow, Row, Statuses, Final
<1>7. \A x \in lost : /\ Stop(runs[x], "abandoned") \in Row
                      /\ Stop(runs[x], "abandoned").status = "abandoned"
                      /\ Stop(runs[x], "abandoned").attempt = "abandoned"
                      /\ Stop(runs[x], "abandoned").artifact = None
                      /\ Stop(runs[x], "abandoned").reused = None
  <2>1. FALSE \in BOOLEAN
    OBVIOUS
  <2>2. \A x \in lost : runs[x] \in Row /\ runs[x].artifact = None /\ runs[x].reused = None
    BY <1>4, IInvParts DEF StoreType, RowsAgree, Running
  <2>. QED
    BY <2>1, <2>2 DEF Stop, Row, Statuses, Final
<1>8. /\ runs' \in [RunIds -> Row] /\ runs'[r] = row
      /\ \A x \in RunIds : x # r /\ x \notin lost => runs'[x] = runs[x]
      /\ \A x \in RunIds : x # r /\ x \in lost =>
            /\ runs'[x].status = "abandoned" /\ runs'[x].attempt = "abandoned"
            /\ runs'[x].artifact = None /\ runs'[x].reused = None
  <2>1. runs' \in [RunIds -> Row]
    BY <1>3, <1>6, <1>7, IInvParts DEF StoreType
  <2>. QED
    BY <1>3, <1>7, <2>1
<1>. HIDE DEF Stop
<1>9. \A x \in RunIds : runs[x].status = "running" <=> x \in lost
  BY <1>4 DEF Running
<1>10. runs[r].status \in {"absent", "abandoned", "running"}
  BY <1>3, <1>9
<1>11. /\ Terminal' = (Terminal \ {r}) \cup (lost \ {r})
       /\ Running' = {r} /\ Open' = Open \cup {r} /\ Stored' = Stored
       /\ (lost \ {r}) \cap (Terminal \ {r}) = {}
  <2>1. Terminal' = (Terminal \ {r}) \cup (lost \ {r})
    BY <1>3, <1>4, <1>6, <1>8, <1>9 DEF Terminal, Final, Running
  <2>2. Running' = {r}
    BY <1>3, <1>6, <1>8, <1>9 DEF Running
  <2>3. Open' = Open \cup {r}
    BY <1>3, <1>6, <1>8, <1>9 DEF Open
  <2>4. Stored' = Stored /\ (lost \ {r}) \cap (Terminal \ {r}) = {}
    BY <1>3, <1>9 DEF Stored, Terminal, Final
  <2>. QED
    BY <2>1, <2>2, <2>3, <2>4
<1>12. lease' \in Leases /\ lease' # NoLease /\ lease'.owner = e
  BY <1>3, LeaseFacts DEF Leases
<1>13. \/ r = created + 1 /\ created' = created + 1
       \/ r <= created /\ created' = created /\ runs[r].status # "absent"
  <2>1. created \in Nat /\ r \in Nat
    BY <1>3, IInvParts, Ids DEF StoreType
  <2>2. CASE RowOf(q) = {}
    BY <1>1, <1>3, <2>1, <2>2
  <2>3. CASE RowOf(q) # {}
    <3>1. r \in RowOf(q)
      BY <1>1, <2>3
    <3>2. runs[r].status # "absent"
      BY <3>1 DEF RowOf, Present
    <3>3. ~(r > created)
      BY <1>3, <3>2, IInvParts DEF RowsAgree
    <3>. QED
      BY <1>3, <2>1, <3>2, <3>3
  <2>. QED
    BY <2>2, <2>3
<1>14. created \in Nat /\ created' \in 0..MaxRuns /\ created <= created' /\ r <= created'
  BY <1>3, <1>13, IInvParts, Ids DEF StoreType
<1>15. FinishedIsOrder' /\ finished' \subseteq Terminal' \X Terminal'
  <2>1. PICK S : S = lost \ {r}
    OBVIOUS
  <2>2. /\ finished' = Finish(S, {r}) /\ Terminal' = (Terminal \ {r}) \cup S
        /\ S \cap (Terminal \ {r}) = {} /\ \A a, b \in S : a = b
    BY <1>3, <1>5, <1>11, <2>1
  <2>. QED
    BY <2>2, OrderKept, IInvParts
<1>16. StoreType'
  BY <1>3, <1>8, <1>11, <1>12, <1>14, <1>15, IInvParts DEF StoreType, Leases
<1>17. RowsAgree'
  <2>. SUFFICES ASSUME NEW x \in RunIds
                PROVE  /\ runs'[x].attempt = runs'[x].status
                       /\ runs'[x].status = "absent" => runs'[x] = NoRow
                       /\ x > created' => runs'[x].status = "absent"
                       /\ runs'[x].status = "running" =>
                             /\ lease' # NoLease /\ runs'[x].owner = lease'.owner
                             /\ runs'[x].artifact = None /\ runs'[x].reused = None
    BY DEF RowsAgree
  <2>0. x \in Nat /\ (x > created' => x > created) /\ ~(r > created')
    BY <1>3, <1>14, Ids
  <2>1. CASE x = r
    BY <1>6, <1>8, <1>12, <2>0, <2>1
  <2>2. CASE x # r /\ x \in lost
    <3>1. ~(x > created')
      BY <1>9, <2>0, <2>2, IInvParts DEF RowsAgree
    <3>. QED
      BY <1>8, <2>2, <3>1
  <2>3. CASE x # r /\ x \notin lost
    BY <1>8, <1>9, <2>0, <2>3, IInvParts DEF RowsAgree
  <2>. QED
    BY <2>1, <2>2, <2>3
<1>18. OneRuns'
  BY <1>11 DEF OneRuns
<1>19. Counters' /\ ArtifactsWithinCap'
  <2>1. Open \subseteq RunIds /\ made \in Nat /\ made + Cardinality(Open) <= created
    BY IInvParts DEF Open, StoreType, Counters
  <2>2. IsFiniteSet(Open) /\ Cardinality(Open) \in Nat
    BY <2>1, FiniteIds
  <2>3. Cardinality(Open \cup {r}) = IF r \in Open THEN Cardinality(Open) ELSE Cardinality(Open) + 1
    BY <2>2, FS_AddElement
  <2>4. made + Cardinality(Open \cup {r}) <= created'
    <3>1. CASE r = created + 1 /\ created' = created + 1
      BY <1>14, <2>1, <2>2, <2>3, <3>1
    <3>2. CASE r <= created /\ created' = created /\ runs[r].status # "absent"
      <4>1. r \in Open
        BY <1>3, <1>10, <3>2 DEF Open
      <4>. QED
        BY <2>1, <2>3, <3>2, <4>1
    <3>. QED
      BY <1>13, <3>1, <3>2
  <2>. QED
    BY <1>3, <1>11, <2>4, IInvParts DEF Counters, ArtifactsWithinCap
<1>20. FinishedRunsReplay'
  <2>. SUFFICES ASSUME NEW x \in RunIds
                PROVE  /\ runs'[x].status \in {"success", "partial"} => runs'[x].artifact \in Stored'
                       /\ runs'[x].status \in {"error", "abandoned"} => runs'[x].artifact = None
    BY DEF FinishedRunsReplay
  <2>1. CASE x = r
    BY <1>6, <1>8, <2>1
  <2>2. CASE x # r /\ x \in lost
    BY <1>8, <2>2
  <2>3. CASE x # r /\ x \notin lost
    BY <1>8, <1>11, <2>3, IInvParts DEF FinishedRunsReplay
  <2>. QED
    BY <2>1, <2>2, <2>3
<1>21. ReuseIsGrounded'
  <2>. SUFFICES ASSUME NEW x \in RunIds, runs'[x].reused # None
                PROVE  /\ runs'[runs'[x].reused].status = "success"
                       /\ runs'[runs'[x].reused].artifact = runs'[x].artifact
                       /\ artifacts'[runs'[x].artifact] \in Keys
    BY DEF ReuseIsGrounded
  <2>1. x # r /\ x \notin lost /\ runs'[x] = runs[x]
    BY <1>6, <1>8
  <2>2. PICK s : s = runs[x].reused /\ s \in RunIds
    BY <2>1, IInvParts DEF StoreType, Row
  <2>3. runs[s].status = "success" /\ runs[s].artifact = runs[x].artifact
        /\ artifacts[runs[x].artifact] \in Keys
    BY <2>1, <2>2, IInvParts DEF ReuseIsGrounded
  <2>4. s # r /\ s \notin lost
    BY <1>9, <1>10, <2>2, <2>3
  <2>. QED
    BY <1>3, <1>8, <2>1, <2>2, <2>3, <2>4
<1>22. StoreInv'
  BY <1>15, <1>17, <1>18, <1>19, <1>20, <1>21 DEF StoreInv
<1>23. Keeps
  <2>1. ASSUME NEW s \in RunIds, s <= created, runs[s].status = "absent"
        PROVE  runs'[s].status = "absent"
    <3>1. s # r
      BY <1>13, <1>14, <2>1, Ids
    <3>. QED
      BY <1>8, <1>9, <2>1, <3>1
  <2>2. ASSUME NEW s \in RunIds, runs[s].status = "success"
        PROVE  runs'[s] = runs[s]
    BY <1>8, <1>9, <1>10, <2>2
  <2>. QED
    BY <1>3, <1>14, <2>1, <2>2 DEF Keeps
<1>24. Stays
  <2>1. ASSUME NEW x \in RunIds, runs[x].status = "running"
        PROVE  runs'[x].status # "absent"
    BY <1>6, <1>8, <1>9, <2>1
  <2>2. ASSUME NEW x \in RunIds, runs[x].status \in Final
        PROVE  runs'[x] = runs[x]
    BY <1>8, <1>9, <1>10, <2>2 DEF Final
  <2>. QED
    BY <2>1, <2>2 DEF Stays
<1>25. LeaseKept
  <2>1. SUFFICES ASSUME lease # NoLease, lease.age < Grace
                 PROVE  FALSE
    BY DEF LeaseKept
  <2>2. lease \in Leases /\ lag \in Nat /\ Grace \in Nat
    BY <2>1, LeaseFacts DEF Lags
  <2>3. ~(lease.age < lag + Grace)
    BY <2>1 DEF BeginRun, Startable, Live
  <2>4. lease.age \in Nat
    BY <2>2, LeaseFacts DEF Leases
  <2>. QED
    BY <2>1, <2>2, <2>3, <2>4
<1>26. PICK x : x = eng[e] /\ x \in EngineState /\ Agrees(x) /\ x.step = "idle"
  BY IInvParts DEF EnginesAgree, BeginRun, At
<1>27. PICK y : y = [x EXCEPT !.step = "handshake", !.run = r]
  OBVIOUS
<1>28. y \in EngineState /\ y.step = "handshake" /\ y.run = r /\ y.source = None
  BY <1>3, <1>26, <1>27 DEF EngineState, Steps, Agrees
<1>29. eng' = [eng EXCEPT ![e] = y]
  BY <1>3, <1>26, <1>27, IInvParts
<1>30. Agrees(y)'
  BY <1>3, <1>28 DEF Agrees
<1>31. Survives
  BY <1>28, <1>29, SurvivesElsewhere
<1>. QED
  BY <1>3, <1>16, <1>22, <1>23, <1>24, <1>25, <1>28, <1>29, <1>30, <1>31, TransactionStep

(* The terminal transaction: a row stops with its artifact while the rows   *)
(* and artifacts of the plan go.                                            *)
LEMMA CommitStep ==
    ASSUME IInv, NEW e \in Engine, NEW lag \in OwnLags, Commit(e, lag)
    PROVE  StepOK
<1>1. PICK y : y = eng[e] /\ y \in EngineState /\ Agrees(y) /\ y.step = "commit"
  BY IInvParts DEF EnginesAgree, Commit, At
<1>2. PICK r, A, R, src, new, art, row :
        /\ r = y.run /\ A = y.plan.arts /\ R = y.plan.runs \cup y.plan.terminal /\ src = y.source
        /\ new = (y.reuse = None /\ y.out # "error")
        /\ art = (IF new THEN made + 1 ELSE y.reuse)
        /\ row = [Stop(runs[r], y.out) EXCEPT !.artifact = art, !.reused = src]
  OBVIOUS
<1>3. /\ runs' = Delete(R, [runs EXCEPT ![r] = row])
      /\ artifacts' = [a \in RunIds |-> IF a \in A THEN "absent"
                                        ELSE IF new /\ a = made + 1 THEN y.key ELSE artifacts[a]]
      /\ made' = (IF new THEN made + 1 ELSE made)
      /\ finished' = Finish({r}, R) /\ old' = old \ R /\ lease' = NoLease
      /\ eng' = [eng EXCEPT ![e] = [Idle EXCEPT !.step = "gc"]]
      /\ UNCHANGED <<created, faults>>
  BY <1>1, <1>2 DEF Commit
<1>4. r \in RunIds /\ runs[r].status = "running" /\ src \notin R /\ src \in RunIds \cup {None}
  BY <1>1, <1>2 DEF Agrees, Commit, CanCommit, CanBeat, EnsureOwner, EngineState
<1>5. PlanHolds(e)
  BY DEF Commit, CanCommit
<1>6. /\ R \subseteq Terminal /\ Unused(A, y.plan.runs)
      /\ y.reuse # None => y.reuse \in Stored
      /\ src # None => src \in Present
  BY <1>1, <1>2, <1>5 DEF PlanHolds, Orphans, Unused
<1>7. r \notin R /\ Running = {r} /\ r \notin Terminal
  BY <1>4, <1>6, IInvParts DEF Terminal, Final, OneRuns, Running
<1>8. /\ made \in Nat /\ created \in Nat /\ made + Cardinality(Open) <= created
      /\ Open \subseteq RunIds /\ r \in Open /\ created <= MaxRuns /\ Stored \subseteq 1..made
  BY <1>4, IInvParts, Ids DEF StoreType, Counters, Open
<1>9. /\ IsFiniteSet(Open) /\ Cardinality(Open) \in Nat
      /\ Cardinality(Open \ {r}) = Cardinality(Open) - 1 /\ Cardinality(Open \ {r}) \in Nat
  <2>1. IsFiniteSet(Open) /\ Cardinality(Open) \in Nat
    BY <1>8, FiniteIds
  <2>2. Open \ {r} \subseteq RunIds
    BY <1>8
  <2>. QED
    BY <1>8, <2>1, <2>2, FiniteIds, FS_RemoveElement
<1>10. made + 1 \in RunIds /\ made + 1 <= created /\ made + 1 \notin Stored
  <2>1. made + 1 <= created
    BY <1>8, <1>9
  <2>. QED
    BY <1>8, <2>1, Ids
<1>11. /\ y.out \in Final /\ y.reuse \in RunIds \cup {None}
       /\ y.key \in Keys \cup {"ineligible"} /\ y.key # "absent"
  BY <1>1, ScanConstants DEF EngineState
(* The artifact of the row.                                                  *)
<1>12. /\ art \in RunIds \cup {None}
       /\ y.out \in {"success", "partial"} => (new \/ y.reuse # None)
       /\ y.out = "error" => art = None
  <2>1. y.reuse # None => y.out # "error"
    BY <1>1 DEF Agrees
  <2>2. art = made + 1 \/ art = y.reuse
    BY <1>2
  <2>3. y.out = "error" => ~new /\ y.reuse = None
    BY <1>2, <2>1
  <2>. QED
    BY <1>2, <1>10, <1>11, <2>2, <2>3
<1>13. /\ row \in Row /\ row.status = y.out /\ row.attempt = y.out
       /\ row.artifact = art /\ row.reused = src
  <2>1. FALSE \in BOOLEAN
    OBVIOUS
  <2>2. runs[r] \in Row
    BY <1>4, IInvParts DEF StoreType
  <2>3. PICK w : w = Stop(runs[r], y.out)
    OBVIOUS
  <2>4. w \in Row /\ w.status = y.out /\ w.attempt = y.out
    BY <1>11, <2>1, <2>2, <2>3 DEF Stop, Row, Statuses
  <2>. QED
    BY <1>2, <1>4, <1>12, <2>3, <2>4 DEF Row
<1>14. PICK t : t = [runs EXCEPT ![r] = row] /\ t \in [RunIds -> Row]
  <2>1. runs \in [RunIds -> Row] /\ row \in Row /\ r \in RunIds
    BY <1>4, <1>13, IInvParts DEF StoreType
  <2>2. [runs EXCEPT ![r] = row] \in [RunIds -> Row]
    BY <2>1
  <2>. QED
    BY <2>2
<1>15. t[r] = row /\ \A x \in RunIds : x # r => t[x] = runs[x]
  BY <1>4, <1>14, IInvParts DEF StoreType
<1>16. /\ runs' \in [RunIds -> Row]
       /\ \A x \in RunIds : x \in R => runs'[x] = NoRow
       /\ \A x \in RunIds : x \notin R =>
             /\ runs'[x].status = t[x].status /\ runs'[x].attempt = t[x].attempt
             /\ runs'[x].owner = t[x].owner /\ runs'[x].artifact = t[x].artifact
             /\ runs'[x].reused = t[x].reused \/ (runs'[x].reused = None /\ t[x].reused \in R)
             /\ runs'[x].reused = None \/ runs'[x].reused \notin R
             /\ t[x].reused \notin R => runs'[x] = t[x]
             /\ runs'[x] \in {t[x], [t[x] EXCEPT !.reused = None]}
  <2>1. PICK d : d = runs' /\ d = Delete(R, t)
    BY <1>3, <1>14
  <2>2. t \in [RunIds -> Row]
    BY <1>14
  <2>. QED
    BY <2>1, <2>2, DeleteRows
<1>17. runs'[r] = row
  BY <1>4, <1>7, <1>13, <1>15, <1>16
<1>18. \A x \in RunIds : x # r /\ x \notin R =>
          /\ runs'[x].status = runs[x].status /\ runs'[x].attempt = runs[x].attempt
          /\ runs'[x].owner = runs[x].owner /\ runs'[x].artifact = runs[x].artifact
          /\ runs'[x].reused = None \/ (runs'[x].reused = runs[x].reused /\ runs[x].reused \notin R)
          /\ runs[x].reused \notin R => runs'[x] = runs[x]
          /\ runs'[x] \in {runs[x], [runs[x] EXCEPT !.reused = None]}
  BY <1>15, <1>16
<1>19. \A x \in RunIds : x # r => runs[x].status # "running"
  BY <1>7 DEF Running
<1>20. /\ Terminal' = (Terminal \ R) \cup {r} /\ Running' = {} /\ Open' \subseteq Open \ {r}
  <2>1. Terminal' = (Terminal \ R) \cup {r}
    BY <1>4, <1>7, <1>11, <1>13, <1>16, <1>17, <1>18, AbsentRow DEF Terminal, Final
  <2>2. Running' = {}
    BY <1>11, <1>13, <1>16, <1>17, <1>18, <1>19, AbsentRow DEF Running, Final
  <2>3. Open' \subseteq Open \ {r}
    BY <1>11, <1>13, <1>16, <1>17, <1>18, AbsentRow DEF Open, Final
  <2>. QED
    BY <2>1, <2>2, <2>3
<1>21. A \subseteq Stored /\ \A x \in RunIds : runs[x].status # "absent" /\ x \notin R => runs[x].artifact \notin A
  BY <1>2, <1>6 DEF Unused, Present
<1>22. Stored' = (Stored \ A) \cup (IF new THEN {made + 1} ELSE {})
  <2>1. ASSUME NEW a \in RunIds
        PROVE  a \in Stored' <=> a \in (Stored \ A) \cup (IF new THEN {made + 1} ELSE {})
    <3>1. a \in Stored' <=> artifacts'[a] # "absent"
      BY DEF Stored
    <3>2. a \in Stored <=> artifacts[a] # "absent"
      BY DEF Stored
    <3>3. CASE a \in A
      BY <1>3, <1>10, <1>21, <3>1, <3>3
    <3>4. CASE a \notin A /\ new /\ a = made + 1
      BY <1>3, <1>11, <3>1, <3>4
    <3>5. CASE a \notin A /\ ~(new /\ a = made + 1)
      BY <1>3, <3>1, <3>2, <3>5
    <3>. QED
      BY <3>3, <3>4, <3>5
  <2>2. Stored' \subseteq RunIds /\ (Stored \ A) \cup (IF new THEN {made + 1} ELSE {}) \subseteq RunIds
    BY <1>10 DEF Stored
  <2>. QED
    BY <2>1, <2>2
(* The artifacts that runs refer to stay as they are.                        *)
<1>23. \A a \in Stored : a \in RunIds /\ (a \notin A => artifacts'[a] = artifacts[a])
  BY <1>3, <1>10 DEF Stored
<1>24. \A x \in RunIds : runs[x].status = "success" /\ x \notin R =>
          /\ runs'[x].status = "success" /\ runs'[x].artifact = runs[x].artifact
          /\ artifacts'[runs[x].artifact] = artifacts[runs[x].artifact]
  BY <1>4, <1>18, <1>21, <1>23, IInvParts DEF FinishedRunsReplay
<1>25. FinishedIsOrder' /\ finished' \subseteq Terminal' \X Terminal'
  <2>1. {r} \cap (Terminal \ R) = {} /\ \A a, b \in {r} : a = b
    BY <1>7
  <2>. QED
    BY <1>3, <1>20, <2>1, OrderKept, IInvParts
<1>26. StoreType'
  <2>1. artifacts' \in [RunIds -> Keys \cup {"ineligible", "absent"}]
    BY <1>3, <1>11, IInvParts DEF StoreType
  <2>2. made' \in 0..MaxRuns
    BY <1>3, <1>8, <1>10, IInvParts, Ids DEF StoreType
  <2>3. old' \subseteq Terminal'
    BY <1>3, <1>20, IInvParts DEF StoreType
  <2>. QED
    BY <1>3, <1>16, <1>25, <2>1, <2>2, <2>3, IInvParts DEF StoreType
<1>27. RowsAgree'
  <2>. SUFFICES ASSUME NEW x \in RunIds
                PROVE  /\ runs'[x].attempt = runs'[x].status
                       /\ runs'[x].status = "absent" => runs'[x] = NoRow
                       /\ x > created' => runs'[x].status = "absent"
                       /\ runs'[x].status # "running"
    BY DEF RowsAgree
  <2>1. CASE x = r
    <3>1. ~(r > created')
      BY <1>3, <1>4, IInvParts DEF RowsAgree
    <3>. QED
      BY <1>11, <1>13, <1>17, <2>1, <3>1 DEF Final
  <2>2. CASE x \in R
    BY <1>16, <2>2, AbsentRow
  <2>3. CASE x # r /\ x \notin R
    <3>1. runs[x].status = "absent" => runs[x].reused \notin R
      BY <1>6, AbsentRow, IInvParts, Ids DEF RowsAgree, Terminal
    <3>. QED
      BY <1>3, <1>18, <1>19, <2>3, <3>1, IInvParts DEF RowsAgree
  <2>. QED
    BY <2>1, <2>2, <2>3
<1>28. OneRuns'
  BY <1>3, <1>20 DEF OneRuns
<1>29. Counters'
  <2>1. Open' \in SUBSET (Open \ {r}) /\ IsFiniteSet(Open \ {r}) /\ Open' \subseteq RunIds
    BY <1>9, <1>20, FS_RemoveElement DEF Open
  <2>2. Cardinality(Open') <= Cardinality(Open) - 1 /\ Cardinality(Open') \in Nat
    BY <1>9, <2>1, FS_Subset, FiniteIds
  <2>3. made' + Cardinality(Open') <= created'
    <3>1. CASE new
      BY <1>3, <1>8, <1>9, <2>2, <3>1
    <3>2. CASE ~new
      BY <1>3, <1>8, <1>9, <2>2, <3>2
    <3>. QED
      BY <3>1, <3>2
  <2>4. Stored' \subseteq 1..made'
    <3>1. CASE new
      BY <1>3, <1>8, <1>22, <3>1
    <3>2. CASE ~new
      BY <1>3, <1>8, <1>22, <3>2
    <3>. QED
      BY <3>1, <3>2
  <2>. QED
    BY <2>3, <2>4 DEF Counters
<1>30. ArtifactsWithinCap'
  <2>1. /\ Stored \subseteq RunIds /\ MaxArtifacts \in Nat /\ Cardinality(Stored) <= MaxArtifacts
    BY IInvParts, ScanConstants DEF Stored, ArtifactsWithinCap
  <2>2. Stored \ A \subseteq RunIds
    BY <2>1
  <2>3. IsFiniteSet(Stored) /\ IsFiniteSet(Stored \ A) /\ Cardinality(Stored) \in Nat
        /\ Cardinality(Stored \ A) \in Nat
    BY <2>1, <2>2, FiniteIds
  <2>4. CASE new
    <3>1. ~Over(y.plan)
      BY <1>1, <1>2, <1>5, <2>4 DEF PlanHolds
    <3>2. Cardinality(Stored \ A) + 1 <= MaxArtifacts
      BY <1>2, <2>1, <2>3, <3>1 DEF Over
    <3>3. Stored' = (Stored \ A) \cup {made + 1} /\ made + 1 \notin Stored \ A
      BY <1>10, <1>22, <2>4
    <3>4. Cardinality((Stored \ A) \cup {made + 1}) = Cardinality(Stored \ A) + 1
      BY <2>3, <3>3, FS_AddElement
    <3>. QED
      BY <3>2, <3>3, <3>4 DEF ArtifactsWithinCap
  <2>5. CASE ~new
    <3>1. Stored' \in SUBSET Stored /\ Stored' \subseteq RunIds
      BY <1>22, <2>1, <2>5
    <3>2. Cardinality(Stored') <= Cardinality(Stored) /\ Cardinality(Stored') \in Nat
      BY <2>3, <3>1, FS_Subset, FiniteIds
    <3>3. Cardinality(Stored') <= MaxArtifacts
      BY <2>1, <2>3, <3>2
    <3>. QED
      BY <3>3 DEF ArtifactsWithinCap
  <2>. QED
    BY <2>4, <2>5
<1>31. y.reuse # None => A = {} /\ ~new /\ art = y.reuse /\ y.reuse \in Stored'
  <2>1. SUFFICES ASSUME y.reuse # None
                 PROVE  A = {} /\ ~new /\ art = y.reuse /\ y.reuse \in Stored'
    OBVIOUS
  <2>2. A = {} /\ ~new
    BY <1>1, <1>2, <2>1 DEF Agrees
  <2>. QED
    BY <1>2, <1>6, <1>22, <2>1, <2>2
<1>32. FinishedRunsReplay'
  <2>. SUFFICES ASSUME NEW x \in RunIds
                PROVE  /\ runs'[x].status \in {"success", "partial"} => runs'[x].artifact \in Stored'
                       /\ runs'[x].status \in {"error", "abandoned"} => runs'[x].artifact = None
    BY DEF FinishedRunsReplay
  <2>1. CASE x = r
    <3>1. new => art \in Stored'
      BY <1>2, <1>22
    <3>2. y.out # "abandoned"
      BY <1>11 DEF Final
    <3>. QED
      BY <1>12, <1>13, <1>17, <1>31, <2>1, <3>1, <3>2
  <2>2. CASE x \in R
    BY <1>16, <2>2, AbsentRow
  <2>3. CASE x # r /\ x \notin R
    <3>1. runs[x].status \in {"success", "partial"} => runs[x].artifact \in Stored /\ runs[x].artifact \notin A
      BY <1>21, <2>3, IInvParts DEF FinishedRunsReplay
    <3>2. Stored \ A \subseteq Stored'
      BY <1>22
    <3>. QED
      BY <1>18, <2>3, <3>1, <3>2, IInvParts DEF FinishedRunsReplay
  <2>. QED
    BY <2>1, <2>2, <2>3
(* The source of a hit is still there.                                       *)
<1>33. src # None => /\ src \in RunIds /\ runs[src].status = "success" /\ runs[src].artifact = y.reuse
                     /\ artifacts[y.reuse] \in Keys /\ y.reuse # None
  BY <1>1, <1>2, <1>4, <1>6 DEF Agrees, HitHolds, Present
<1>34. ReuseIsGrounded'
  <2>. SUFFICES ASSUME NEW x \in RunIds, runs'[x].reused # None
                PROVE  /\ runs'[runs'[x].reused].status = "success"
                       /\ runs'[runs'[x].reused].artifact = runs'[x].artifact
                       /\ artifacts'[runs'[x].artifact] \in Keys
    BY DEF ReuseIsGrounded
  <2>1. CASE x = r
    <3>1. runs'[x].reused = src /\ src # None /\ runs'[x].artifact = art
      BY <1>13, <1>17, <2>1
    <3>. QED
      BY <1>4, <1>24, <1>31, <1>33, <3>1
  <2>2. CASE x # r
    <3>1. x \notin R
      BY <1>16, AbsentRow
    <3>2. PICK s : s = runs[x].reused /\ s = runs'[x].reused /\ s # None /\ s \notin R
      BY <1>18, <2>2, <3>1
    <3>3. s \in RunIds
      BY <3>2, IInvParts DEF StoreType, Row
    <3>4. /\ runs[s].status = "success" /\ runs[s].artifact = runs[x].artifact
          /\ artifacts[runs[x].artifact] \in Keys
      BY <3>2, IInvParts DEF ReuseIsGrounded
    <3>5. runs'[x].artifact = runs[x].artifact
      BY <1>18, <2>2, <3>1
    <3>. QED
      BY <1>24, <3>2, <3>3, <3>4, <3>5
  <2>. QED
    BY <2>1, <2>2
<1>35. StoreInv'
  BY <1>25, <1>27, <1>28, <1>29, <1>30, <1>32, <1>34 DEF StoreInv
<1>36. Keeps
  <2>1. ASSUME NEW x \in RunIds, runs[x].status = "absent"
        PROVE  runs'[x].status = "absent"
    BY <1>4, <1>16, <1>18, <2>1, AbsentRow
  <2>2. ASSUME NEW x \in RunIds, x \in R
        PROVE  runs'[x].status = "absent"
    BY <1>16, <2>2, AbsentRow
  <2>3. created <= created'
    BY <1>3, <1>8
  <2>. QED
    BY <1>24, <2>1, <2>2, <2>3 DEF Keeps
<1>37. Stays
  <2>1. ASSUME NEW x \in RunIds, runs[x].status = "running"
        PROVE  runs'[x].status # "absent"
    BY <1>11, <1>13, <1>17, <1>19, <2>1 DEF Final
  <2>2. ASSUME NEW x \in RunIds, runs[x].status \in Final
        PROVE  runs'[x] \in {runs[x], [runs[x] EXCEPT !.reused = None], NoRow}
    BY <1>4, <1>16, <1>18, <2>2 DEF Final
  <2>. QED
    BY <2>1, <2>2 DEF Stays
<1>38. LeaseKept
  BY <1>3 DEF LeaseKept
<1>39. Survives
  <2>. SUFFICES ASSUME NEW x \in Engine, At(x, "commit"), eng'[x].step = "gc", eng[x].source # None
                PROVE  runs'[eng[x].source].status = "success"
    BY DEF Survives
  <2>1. x = e
    BY <1>3, IInvParts DEF At
  <2>. QED
    BY <1>1, <1>2, <1>4, <1>24, <1>33, <2>1
<1>40. PICK z : z = [Idle EXCEPT !.step = "gc"]
  OBVIOUS
<1>41. z \in EngineState /\ z.step = "gc" /\ z.source = None
  BY <1>40, IdleAgrees DEF EngineState, Steps, Idle
<1>42. Agrees(z)'
  BY <1>41 DEF Agrees
<1>43. eng' = [eng EXCEPT ![e] = z] /\ faults' = faults
  BY <1>3, <1>40
<1>. QED
  BY <1>26, <1>35, <1>36, <1>37, <1>38, <1>39, <1>41, <1>42, <1>43, TransactionStep

---------------------------------------------------------------------------
(* The theorems.                                                            *)

LEMMA InitStore == ASSUME Init PROVE IInv
<1>1. NoRow \in Row
  <2>1. FALSE \in BOOLEAN
    OBVIOUS
  <2>. QED
    BY <2>1 DEF NoRow, Row, Statuses, Final
<1>2. \A r \in RunIds : runs[r] = NoRow
  BY DEF Init
<1>3. Terminal = {} /\ Running = {} /\ Open = {} /\ Stored = {}
  BY <1>2, AbsentRow DEF Init, Terminal, Running, Open, Stored, Final
<1>4. MaxRuns \in Nat /\ MaxFaults \in Nat /\ MaxArtifacts \in Nat
  BY ScanConstants
<1>5. Idle \in EngineState
  BY IdleAgrees
<1>6. TypeOK
  BY <1>1, <1>3, <1>4, <1>5 DEF Init, TypeOK
<1>7. RowsAgree
  BY <1>2, AbsentRow DEF RowsAgree
<1>8. FinishedIsOrder /\ OneRuns
  BY <1>3 DEF Init, FinishedIsOrder, OneRuns
<1>9. Cardinality(Open) = 0 /\ Cardinality(Stored) = 0
  BY <1>3, FS_EmptySet
<1>10. Counters /\ ArtifactsWithinCap
  BY <1>3, <1>4, <1>9 DEF Init, Counters, ArtifactsWithinCap
<1>11. FinishedRunsReplay /\ ReuseIsGrounded
  BY <1>2, AbsentRow DEF FinishedRunsReplay, ReuseIsGrounded
<1>12. EnginesAgree
  BY IdleAgrees DEF Init, EnginesAgree
<1>. QED
  BY <1>6, <1>7, <1>8, <1>10, <1>11, <1>12 DEF IInv, StoreInv

LEMMA StepStore == ASSUME IInv, [Next]_vars PROVE StepOK
<1>1. CASE UNCHANGED vars
  <2>1. UNCHANGED Store /\ eng' = eng /\ faults' = faults
    BY <1>1 DEF vars, Store
  <2>. QED
    BY <2>1, SameStore, SameEngines
<1>2. CASE Tick
  BY <1>2, TickStep
<1>3. CASE Age
  BY <1>3, AgeStep
<1>4. ASSUME NEW e \in Engine, Begin(e)
      PROVE  StepOK
  BY <1>4, BeginRunStep DEF Begin
<1>5. ASSUME NEW e \in Engine, NEW lag \in OwnLags, Heartbeat(e, lag)
      PROVE  StepOK
  BY <1>5, HeartbeatStep
<1>6. ASSUME NEW e \in Engine, Fault(e)
      PROVE  StepOK
  BY <1>6, TimingFailsStep, ReturnsStep DEF Fault
<1>7. ASSUME NEW e \in Engine, Step(e)
      PROVE  StepOK
  <2>1. CASE HandshakeLate(e)
    BY <2>1, HandshakeLateStep
  <2>2. ASSUME NEW lag \in OwnLags, NEW ok \in BOOLEAN, RecordWorkers(e, ok, lag)
        PROVE  StepOK
    BY <2>2, RecordWorkersStep
  <2>3. CASE (\E lag \in OwnLags : RecordLost(e, lag)) \/ AbandonFails(e) \/ SkipGc(e)
    BY <2>3, ReturnsStep
  <2>4. ASSUME NEW lag \in OwnLags, Commit(e, lag)
        PROVE  StepOK
    BY <2>4, CommitStep
  <2>5. ASSUME NEW lag \in OwnLags, CommitFails(e, lag)
        PROVE  StepOK
    BY <2>5, CommitFailsStep
  <2>6. ASSUME NEW k \in Keys, FinishHit(e, k)
        PROVE  StepOK
    BY <2>6, FinishHitStep
  <2>7. ASSUME NEW out \in Final, NEW k \in Keys \cup {"ineligible"}, FinishScan(e, out, k)
        PROVE  StepOK
    BY <2>7, FinishScanStep
  <2>8. CASE Prepare(e) \/ PrepareFails(e)
    BY <2>8, PrepareStep, PrepareFailsStep
  <2>9. CASE Abandon(e)
    BY <2>9, AbandonStep
  <2>10. CASE Gc(e)
    BY <2>10, GcStep
  <2>. QED
    BY <1>7, <2>1, <2>2, <2>3, <2>4, <2>5, <2>6, <2>7, <2>8, <2>9, <2>10 DEF Step
<1>. QED
  BY <1>1, <1>2, <1>3, <1>4, <1>5, <1>6, <1>7 DEF Next

LEMMA StoreInvariant == Spec => []IInv
<1>1. IInv /\ [Next]_vars => IInv'
  BY StepStore DEF StepOK
<1>. QED
  BY <1>1, InitStore, PTL DEF Spec

(* The tables of the scanner's store agree with the lease and with their    *)
(* caps, and retention always makes room for the result of an engine that   *)
(* owns its run, whatever retention, GC and stalled engines do: for any     *)
(* number of engines, requests, keys and rows, any caps and any batch size. *)
THEOREM StoreStaysSound == Spec => []StoreIsSound
<1>1. ASSUME IInv
      PROVE  RunningIsLeased
  <2>1. RowsAgree /\ OneRuns
    BY <1>1, IInvParts
  <2>2. ASSUME lease # NoLease
        PROVE  \E r \in RunIds : \A s \in RunIds : (runs[s].status = "running") <=> (s = r)
    BY <2>1, <2>2 DEF OneRuns, Running
  <2>3. \A r \in RunIds : /\ runs[r].status = "running" => lease.owner = runs[r].owner
                          /\ runs[r].attempt = runs[r].status
    BY <2>1 DEF RowsAgree
  <2>. QED
    BY <2>2, <2>3 DEF RunningIsLeased
<1>2. IInv => StoreIsSound
  BY <1>1, IInvParts, RetentionSuffices DEF StoreIsSound
<1>. QED
  BY <1>2, StoreInvariant, PTL

(* An engine that owns its run and is about to finalize always finds room:  *)
(* the loop that plans what retention deletes ends with a plan that leaves  *)
(* room under both caps, as long as the rows it has to protect leave some.  *)
THEOREM RetentionAlwaysMakesRoom == Spec => []RetentionMakesRoom
<1>1. StoreIsSound => RetentionMakesRoom
  BY DEF StoreIsSound
<1>. QED
  BY <1>1, StoreStaysSound, PTL

(* What a finished run refers to is there: the artifact its stored envelope *)
(* is rebuilt from, and the successful run it reused.                       *)
THEOREM ResultsAlwaysReplay == Spec => []ResultsReplay
<1>1. IInv => ResultsReplay
  BY IInvParts DEF ResultsReplay
<1>. QED
  BY <1>1, StoreInvariant, PTL

(* begin_run never takes a live lease from its owner, however old the clock *)
(* it judges the lease by.                                                  *)
THEOREM LiveLeaseStays == Spec => LiveLeaseIsKept
<1>1. IInv /\ [Next]_vars => [lease # NoLease /\ lease.age < Grace /\ lease' # NoLease
                                 => lease'.owner = lease.owner]_vars
  BY StepStore DEF StepOK, LeaseKept
<1>. QED
  BY <1>1, StoreInvariant, PTL DEF Spec, LiveLeaseIsKept

(* No step undoes what another run has stored: results are final, running   *)
(* rows are not deleted, and the source of a hit survives the finalization  *)
(* that reuses its artifact.                                                *)
THEOREM StoredResultsStay == Spec => ResultsStay
<1>1. IInv /\ [Next]_vars =>
        [\A r \in RunIds :
            /\ runs[r].status = "running" => runs'[r].status # "absent"
            /\ runs[r].status \in Final =>
                  runs'[r] \in {runs[r], [runs[r] EXCEPT !.reused = None], NoRow}]_vars
  BY StepStore DEF StepOK, Stays
<1>2. IInv /\ [Next]_vars =>
        [\A e \in Engine :
            At(e, "commit") /\ eng'[e].step = "gc" /\ eng[e].source # None
               => runs'[eng[e].source].status = "success"]_vars
  BY StepStore DEF StepOK, Survives
<1>3. Spec => ResultsAreFinal
  BY <1>1, StoreInvariant, PTL DEF Spec, ResultsAreFinal
<1>4. Spec => SourceSurvives
  BY <1>2, StoreInvariant, PTL DEF Spec, SourceSurvives
<1>. QED
  BY <1>3, <1>4 DEF ResultsStay
=============================================================================
