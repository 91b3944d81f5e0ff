------------------------ MODULE ProcessingCacheProofs ------------------------
(***************************************************************************)
(* The quota of the processing cache, for any snapshots, sizes and limit:  *)
(* no byte escapes the account, the limit holds through every failure, and *)
(* the saved ledger always covers the files.                               *)
(***************************************************************************)
EXTENDS ProcessingCache, FiniteSetTheorems, WellFoundedInduction, TLAPS

---------------------------------------------------------------------------
(* Sums over finite sets, as SumFunctionOnSet of the community modules      *)
(* defines them: the fold that picks an arbitrary element at every step     *)
(* does not depend on what it picks.                                        *)

LEMMA LeastElement ==
    ASSUME NEW R, NEW F, NEW B, IsWellFoundedOn(R, F), B \subseteq F, B # {}
    PROVE  \E s \in B : \A u \in B : ~(<<u, s>> \in R)
BY WFMin, Zenon

(* Induction over the subsets of a finite set, with a set of good ones in   *)
(* the place of a predicate.                                                *)
LEMMA SubsetInduction ==
    ASSUME NEW S, IsFiniteSet(S), NEW Good,
           \A s \in SUBSET S : (\A u \in SUBSET s : u # s => u \in Good) => s \in Good
    PROVE  S \in Good
<1>. SUFFICES ASSUME S \notin Good
              PROVE  FALSE
  OBVIOUS
<1>1. PICK R, F : IsWellFoundedOn(R, F) /\ R = StrictSubsetOrdering(S) /\ F = SUBSET S
  <2>1. IsWellFoundedOn(StrictSubsetOrdering(S), FiniteSubsetsOf(S))
    BY FS_StrictSubsetOrderingWellFounded
  <2>. QED
    BY <2>1, FS_FiniteSubsetsOfFinite
<1>2. PICK B : B = {s \in SUBSET S : s \notin Good}
  OBVIOUS
<1>3. B # {} /\ B \subseteq F
  BY <1>1, <1>2
<1>4. PICK s \in B : \A u \in B : ~(<<u, s>> \in R)
  <2>1. IsWellFoundedOn(R, F)
    BY <1>1
  <2>. QED
    BY <2>1, <1>3, LeastElement
<1>5. \A u \in SUBSET s : u # s => u \in Good
  BY <1>1, <1>2, <1>4 DEF StrictSubsetOrdering
<1>. QED
  BY <1>2, <1>4, <1>5

---------------------------------------------------------------------------
Pick(s) == CHOOSE x \in s : TRUE

(* The equation the fold solves over the sets of D.                         *)
Solves(g, w, D) ==
    g = [s \in D |-> IF s = {} THEN 0 ELSE w[Pick(s)] + g[s \ {Pick(s)}]]

LEMMA SumSolves ==
    ASSUME NEW w, NEW S, NEW g, Solves(g, w, SUBSET S)
    PROVE  \E h : Solves(h, w, SUBSET S) /\ SumFunctionOnSet(w, S) = h[S]
<1>. DEFINE h == CHOOSE h : h = [s \in SUBSET S |->
                   IF s = {} THEN 0 ELSE w[CHOOSE x \in s : TRUE] + h[s \ {CHOOSE x \in s : TRUE}]]
<1>1. SumFunctionOnSet(w, S) = h[S]
  BY DEF SumFunctionOnSet, FoldFunctionOnSet, MapThenFoldSet
<1>2. Solves(h, w, SUBSET S)
  BY DEF Solves, Pick
<1>. QED
  BY <1>1, <1>2

(* A solution is unique where it is one.                                    *)
LEMMA SolutionUnique ==
    ASSUME NEW w, NEW U, NEW V, NEW g, NEW h, NEW S, S \subseteq U, S \subseteq V,
           IsFiniteSet(S), Solves(g, w, SUBSET U), Solves(h, w, SUBSET V)
    PROVE  g[S] = h[S]
<1>. DEFINE Good == {s \in SUBSET S : g[s] = h[s]}
<1>1. ASSUME NEW s \in SUBSET S, \A u \in SUBSET s : u # s => u \in Good
      PROVE  s \in Good
  <2>1. CASE s = {}
    BY <2>1 DEF Solves
  <2>2. CASE s # {}
    <3>1. PICK p : p = Pick(s) /\ p \in s
      BY <2>2 DEF Pick
    <3>2. s \ {p} \in SUBSET s /\ s \ {p} # s
      BY <3>1
    <3>3. g[s \ {p}] = h[s \ {p}]
      BY <1>1, <3>2
    <3>4. g[s] = w[p] + g[s \ {p}]
      BY <2>2, <3>1 DEF Solves
    <3>5. h[s] = w[p] + h[s \ {p}]
      BY <2>2, <3>1 DEF Solves
    <3>. QED
      BY <3>3, <3>4, <3>5
  <2>. QED
    BY <2>1, <2>2
<1>. HIDE DEF Good
<1>2. S \in Good
  BY <1>1, SubsetInduction
<1>. QED
  BY <1>2 DEF Good

LEMMA SolutionExists ==
    ASSUME NEW w, NEW S, IsFiniteSet(S)
    PROVE  \E g : Solves(g, w, SUBSET S)
<1>. DEFINE Good == {s \in SUBSET S : \E g : Solves(g, w, SUBSET s)}
            Some(u) == CHOOSE g : Solves(g, w, SUBSET u)
<1>1. ASSUME NEW s \in SUBSET S, \A u \in SUBSET s : u # s => u \in Good
      PROVE  s \in Good
  <2>. DEFINE f == [u \in SUBSET s |->
                      IF u = {} THEN 0
                      ELSE w[Pick(u)] + Some(u \ {Pick(u)})[u \ {Pick(u)}]]
  <2>1. \A u \in SUBSET s : u # s => Solves(Some(u), w, SUBSET u)
    BY <1>1
  <2>. HIDE DEF Some
  <2>2. ASSUME NEW u \in SUBSET s, u # {}
        PROVE  f[u \ {Pick(u)}] = Some(u \ {Pick(u)})[u \ {Pick(u)}]
    <3>1. PICK p : p = Pick(u) /\ p \in u
      BY <2>2 DEF Pick
    <3>2. PICK v : v = u \ {p}
      OBVIOUS
    <3>3. v \in SUBSET s /\ v # s /\ v \subseteq u
      BY <3>1, <3>2
    <3>4. Solves(Some(v), w, SUBSET v)
      BY <2>1, <3>3
    <3>5. CASE v = {}
      <4>1. f[v] = 0
        BY <3>3, <3>5
      <4>2. Some(v)[v] = 0
        BY <3>4, <3>5 DEF Solves
      <4>. QED
        BY <3>1, <3>2, <4>1, <4>2
    <3>6. CASE v # {}
      <4>1. PICK q : q = Pick(v) /\ q \in v
        BY <3>6 DEF Pick
      <4>2. f[v] = w[q] + Some(v \ {q})[v \ {q}]
        BY <3>3, <3>6, <4>1
      <4>3. Some(v)[v] = w[q] + Some(v)[v \ {q}]
        BY <3>4, <3>6, <4>1 DEF Solves
      <4>4. v \ {q} \in SUBSET s /\ v \ {q} # s
        BY <3>3, <4>1
      <4>5. Solves(Some(v \ {q}), w, SUBSET (v \ {q}))
        BY <2>1, <4>4
      <4>6. IsFiniteSet(v \ {q})
        BY <4>4, FS_Subset
      <4>7. Some(v)[v \ {q}] = Some(v \ {q})[v \ {q}]
        <5>1. PICK z : z = v \ {q}
          OBVIOUS
        <5>2. PICK a, b : a = Some(v) /\ b = Some(z)
          OBVIOUS
        <5>3. /\ Solves(a, w, SUBSET v) /\ Solves(b, w, SUBSET z) /\ IsFiniteSet(z)
              /\ z \subseteq v /\ z \subseteq z
          BY <3>4, <4>5, <4>6, <5>1, <5>2
        <5>4. a[z] = b[z]
          BY <5>3, SolutionUnique
        <5>. QED
          BY <5>1, <5>2, <5>4
      <4>. QED
        BY <3>1, <3>2, <4>2, <4>3, <4>7
    <3>. QED
      BY <3>5, <3>6
  <2>3. Solves(f, w, SUBSET s)
    BY <2>2 DEF Solves
  <2>. QED
    BY <2>3
<1>. HIDE DEF Good
<1>2. S \in Good
  BY <1>1, SubsetInduction
<1>. QED
  BY <1>2 DEF Good

---------------------------------------------------------------------------
(* What follows for the sum.                                                *)

LEMMA SumEmpty ==
    ASSUME NEW w
    PROVE  SumFunctionOnSet(w, {}) = 0
<1>1. \E g : Solves(g, w, SUBSET {})
  BY SolutionExists, FS_EmptySet
<1>2. PICK h : Solves(h, w, SUBSET {}) /\ SumFunctionOnSet(w, {}) = h[{}]
  BY <1>1, SumSolves
<1>. QED
  BY <1>2 DEF Solves

LEMMA SumPick ==
    ASSUME NEW w, NEW S, IsFiniteSet(S), S # {}
    PROVE  SumFunctionOnSet(w, S) = w[Pick(S)] + SumFunctionOnSet(w, S \ {Pick(S)})
<1>1. PICK p : p = Pick(S) /\ p \in S
  BY DEF Pick
<1>2. PICK T : T = S \ {p}
  OBVIOUS
<1>3. IsFiniteSet(T)
  BY <1>2, FS_RemoveElement
<1>4. PICK h : Solves(h, w, SUBSET S) /\ SumFunctionOnSet(w, S) = h[S]
  BY SolutionExists, SumSolves
<1>5. PICK k : Solves(k, w, SUBSET T) /\ SumFunctionOnSet(w, T) = k[T]
  BY <1>3, SolutionExists, SumSolves
<1>6. h[S] = w[p] + h[T]
  BY <1>1, <1>2, <1>4 DEF Solves
<1>7. T \subseteq S /\ T \subseteq T
  BY <1>2
<1>8. h[T] = k[T]
  BY <1>3, <1>4, <1>5, <1>7, SolutionUnique
<1>. QED
  BY <1>1, <1>2, <1>4, <1>5, <1>6, <1>8

LEMMA SumInt ==
    ASSUME NEW w, NEW S, IsFiniteSet(S), \A x \in S : w[x] \in Int
    PROVE  SumFunctionOnSet(w, S) \in Int
<1>. DEFINE Good == {s \in SUBSET S : SumFunctionOnSet(w, s) \in Int}
<1>1. ASSUME NEW s \in SUBSET S, \A u \in SUBSET s : u # s => u \in Good
      PROVE  s \in Good
  <2>1. CASE s = {}
    BY <2>1, SumEmpty
  <2>2. CASE s # {}
    <3>1. Pick(s) \in s
      BY <2>2 DEF Pick
    <3>2. SumFunctionOnSet(w, s \ {Pick(s)}) \in Int
      BY <1>1, <3>1
    <3>3. IsFiniteSet(s)
      BY FS_Subset
    <3>. QED
      BY <2>2, <3>1, <3>2, <3>3, SumPick
  <2>. QED
    BY <2>1, <2>2
<1>. HIDE DEF Good
<1>2. S \in Good
  BY <1>1, SubsetInduction
<1>. QED
  BY <1>2 DEF Good

(* Any element may be the first.                                            *)
LEMMA SumRemove ==
    ASSUME NEW w, NEW S, IsFiniteSet(S), \A x \in S : w[x] \in Int, NEW e \in S
    PROVE  SumFunctionOnSet(w, S) = w[e] + SumFunctionOnSet(w, S \ {e})
<1>. DEFINE Good == {s \in SUBSET S : \A x \in s :
                        SumFunctionOnSet(w, s) = w[x] + SumFunctionOnSet(w, s \ {x})}
<1>1. ASSUME NEW s \in SUBSET S, \A u \in SUBSET s : u # s => u \in Good
      PROVE  s \in Good
  <2>1. SUFFICES ASSUME NEW x \in s
                 PROVE  SumFunctionOnSet(w, s) = w[x] + SumFunctionOnSet(w, s \ {x})
    OBVIOUS
  <2>2. PICK p : p = Pick(s) /\ p \in s
    BY DEF Pick
  <2>3. SumFunctionOnSet(w, s) = w[p] + SumFunctionOnSet(w, s \ {p})
    BY <2>2, SumPick, FS_Subset
  <2>4. CASE x = p
    BY <2>3, <2>4
  <2>5. CASE x # p
    <3>1. PICK u, v, z : u = s \ {p} /\ v = s \ {x} /\ z = (s \ {p}) \ {x}
      OBVIOUS
    <3>2. u \in SUBSET s /\ u # s /\ v \in SUBSET s /\ v # s /\ x \in u /\ p \in v
          /\ z = v \ {p} /\ z = u \ {x} /\ z \in SUBSET S
      BY <2>2, <2>5, <3>1
    <3>3. u \in Good /\ v \in Good
      BY <1>1, <3>2
    <3>4. /\ SumFunctionOnSet(w, u) = w[x] + SumFunctionOnSet(w, z)
          /\ SumFunctionOnSet(w, v) = w[p] + SumFunctionOnSet(w, z)
      BY <3>2, <3>3
    <3>5. SumFunctionOnSet(w, z) \in Int
      <4>1. IsFiniteSet(z) /\ \A y \in z : w[y] \in Int
        BY <3>2, FS_Subset
      <4>. QED
        BY <4>1, SumInt
    <3>6. w[x] \in Int /\ w[p] \in Int
      BY <2>2
    <3>. QED
      BY <2>3, <3>1, <3>4, <3>5, <3>6
  <2>. QED
    BY <2>4, <2>5
<1>. HIDE DEF Good
<1>2. S \in Good
  BY <1>1, SubsetInduction
<1>. QED
  BY <1>2 DEF Good

(* The sum depends on the values over the set only.                         *)
LEMMA SumSame ==
    ASSUME NEW w, NEW v, NEW S, IsFiniteSet(S), \A x \in S : w[x] = v[x]
    PROVE  SumFunctionOnSet(w, S) = SumFunctionOnSet(v, S)
<1>. DEFINE Good == {s \in SUBSET S : SumFunctionOnSet(w, s) = SumFunctionOnSet(v, s)}
<1>1. ASSUME NEW s \in SUBSET S, \A u \in SUBSET s : u # s => u \in Good
      PROVE  s \in Good
  <2>1. CASE s = {}
    BY <2>1, SumEmpty
  <2>2. CASE s # {}
    <3>1. PICK p : p = Pick(s) /\ p \in s
      BY <2>2 DEF Pick
    <3>2. s \ {p} \in SUBSET s /\ s \ {p} # s
      BY <3>1
    <3>3. SumFunctionOnSet(w, s \ {p}) = SumFunctionOnSet(v, s \ {p})
      BY <1>1, <3>2
    <3>4. IsFiniteSet(s) /\ w[p] = v[p]
      BY <3>1, FS_Subset
    <3>. QED
      BY <2>2, <3>1, <3>3, <3>4, SumPick
  <2>. QED
    BY <2>1, <2>2
<1>. HIDE DEF Good
<1>2. S \in Good
  BY <1>1, SubsetInduction
<1>. QED
  BY <1>2 DEF Good

LEMMA SumNat ==
    ASSUME NEW w, NEW S, IsFiniteSet(S), \A x \in S : w[x] \in Nat
    PROVE  SumFunctionOnSet(w, S) \in Nat
<1>. DEFINE Good == {s \in SUBSET S : SumFunctionOnSet(w, s) \in Nat}
<1>1. ASSUME NEW s \in SUBSET S, \A u \in SUBSET s : u # s => u \in Good
      PROVE  s \in Good
  <2>1. CASE s = {}
    BY <2>1, SumEmpty
  <2>2. CASE s # {}
    <3>1. Pick(s) \in s
      BY <2>2 DEF Pick
    <3>2. SumFunctionOnSet(w, s \ {Pick(s)}) \in Nat
      BY <1>1, <3>1
    <3>3. IsFiniteSet(s)
      BY FS_Subset
    <3>. QED
      BY <2>2, <3>1, <3>2, <3>3, SumPick
  <2>. QED
    BY <2>1, <2>2
<1>. HIDE DEF Good
<1>2. S \in Good
  BY <1>1, SubsetInduction
<1>. QED
  BY <1>2 DEF Good

(* One value changes.                                                       *)
LEMMA SumChange ==
    ASSUME NEW w, NEW v, NEW S, IsFiniteSet(S), NEW e \in S,
           \A x \in S : w[x] \in Int /\ v[x] \in Int,
           \A x \in S \ {e} : w[x] = v[x]
    PROVE  SumFunctionOnSet(v, S) = SumFunctionOnSet(w, S) - w[e] + v[e]
<1>1. PICK T : T = S \ {e}
  OBVIOUS
<1>2. IsFiniteSet(T)
  BY <1>1, FS_RemoveElement
<1>3. SumFunctionOnSet(w, T) = SumFunctionOnSet(v, T) /\ SumFunctionOnSet(w, T) \in Int
  BY <1>1, <1>2, SumSame, SumInt
<1>4. /\ SumFunctionOnSet(w, S) = w[e] + SumFunctionOnSet(w, T)
      /\ SumFunctionOnSet(v, S) = v[e] + SumFunctionOnSet(v, T)
  BY <1>1, SumRemove
<1>. QED
  BY <1>3, <1>4

LEMMA SumZero ==
    ASSUME NEW w, NEW S, IsFiniteSet(S), \A x \in S : w[x] = 0
    PROVE  SumFunctionOnSet(w, S) = 0
<1>. DEFINE Good == {s \in SUBSET S : SumFunctionOnSet(w, s) = 0}
<1>1. ASSUME NEW s \in SUBSET S, \A u \in SUBSET s : u # s => u \in Good
      PROVE  s \in Good
  <2>1. CASE s = {}
    BY <2>1, SumEmpty
  <2>2. CASE s # {}
    <3>1. Pick(s) \in s
      BY <2>2 DEF Pick
    <3>2. SumFunctionOnSet(w, s \ {Pick(s)}) = 0
      BY <1>1, <3>1
    <3>3. IsFiniteSet(s)
      BY FS_Subset
    <3>. QED
      BY <2>2, <3>1, <3>2, <3>3, SumPick
  <2>. QED
    BY <2>1, <2>2
<1>. HIDE DEF Good
<1>2. S \in Good
  BY <1>1, SubsetInduction
<1>. QED
  BY <1>2 DEF Good

(* What adds nothing may be left out.                                       *)
LEMMA SumWithout ==
    ASSUME NEW w, NEW S, IsFiniteSet(S), \A x \in S : w[x] \in Int,
           NEW T, \A x \in S \ T : w[x] = 0
    PROVE  SumFunctionOnSet(w, S) = SumFunctionOnSet(w, S \cap T)
<1>. DEFINE Good == {s \in SUBSET S : SumFunctionOnSet(w, s) = SumFunctionOnSet(w, s \cap T)}
<1>1. ASSUME NEW s \in SUBSET S, \A u \in SUBSET s : u # s => u \in Good
      PROVE  s \in Good
  <2>0. IsFiniteSet(s) /\ IsFiniteSet(s \cap T)
    BY FS_Subset
  <2>1. CASE s = {}
    <3>1. s \cap T = {}
      BY <2>1
    <3>. QED
      BY <2>1, <3>1, SumEmpty
  <2>2. CASE s # {}
    <3>1. PICK p : p \in s
      BY <2>2
    <3>2. PICK u : u = s \ {p}
      OBVIOUS
    <3>3. u \in Good /\ u \in SUBSET S
      BY <1>1, <3>1, <3>2
    <3>4. SumFunctionOnSet(w, u) = SumFunctionOnSet(w, u \cap T)
      BY <3>3
    <3>5. SumFunctionOnSet(w, s) = w[p] + SumFunctionOnSet(w, u)
      BY <2>0, <3>1, <3>2, SumRemove
    <3>6. CASE p \in T
      <4>1. p \in s \cap T /\ (s \cap T) \ {p} = u \cap T
        BY <3>1, <3>2, <3>6
      <4>2. SumFunctionOnSet(w, s \cap T) = w[p] + SumFunctionOnSet(w, (s \cap T) \ {p})
        BY <2>0, <4>1, SumRemove
      <4>. QED
        BY <3>4, <3>5, <4>1, <4>2
    <3>7. CASE p \notin T
      <4>1. s \cap T = u \cap T /\ w[p] = 0
        BY <3>1, <3>2, <3>7
      <4>2. SumFunctionOnSet(w, u) \in Int
        BY <2>0, <3>2, <3>3, SumInt, FS_Subset
      <4>3. SumFunctionOnSet(w, s) = SumFunctionOnSet(w, u)
        BY <3>5, <4>1, <4>2
      <4>. QED
        BY <3>4, <4>1, <4>3
    <3>. QED
      BY <3>6, <3>7
  <2>. QED
    BY <2>1, <2>2
<1>. HIDE DEF Good
<1>2. S \in Good
  BY <1>1, SubsetInduction
<1>. QED
  BY <1>2 DEF Good

LEMMA SumOne ==
    ASSUME NEW w, NEW e, w[e] \in Int
    PROVE  SumFunctionOnSet(w, {e}) = w[e]
<1>1. IsFiniteSet({e}) /\ {e} \ {e} = {}
  BY FS_Singleton
<1>2. SumFunctionOnSet(w, {e}) = w[e] + SumFunctionOnSet(w, {e} \ {e})
  BY <1>1, SumRemove
<1>. QED
  BY <1>1, <1>2, SumEmpty

LEMMA SumTwo ==
    ASSUME NEW w, NEW d, NEW e, d # e, w[d] \in Int, w[e] \in Int
    PROVE  SumFunctionOnSet(w, {d, e}) = w[d] + w[e]
<1>1. IsFiniteSet({d, e}) /\ {d, e} \ {d} = {e}
  <2>1. IsFiniteSet({d}) /\ {d, e} = {d} \cup {e}
    BY FS_Singleton
  <2>. QED
    BY <2>1, FS_AddElement
<1>2. SumFunctionOnSet(w, {d, e}) = w[d] + SumFunctionOnSet(w, {d, e} \ {d})
  BY <1>1, SumRemove
<1>. QED
  BY <1>1, <1>2, SumOne

(* Two values change.                                                       *)
LEMMA SumChangeTwo ==
    ASSUME NEW w, NEW v, NEW S, IsFiniteSet(S), NEW d \in S, NEW e \in S, d # e,
           \A x \in S : w[x] \in Int /\ v[x] \in Int,
           \A x \in S \ {d, e} : w[x] = v[x]
    PROVE  SumFunctionOnSet(v, S) = SumFunctionOnSet(w, S) - w[d] - w[e] + v[d] + v[e]
<1>1. PICK u : u = [x \in S |-> IF x = d THEN v[x] ELSE w[x]]
  OBVIOUS
<1>2. \A x \in S : u[x] \in Int
  BY <1>1
<1>3. \A x \in S \ {d} : w[x] = u[x]
  BY <1>1
<1>4. \A x \in S \ {e} : u[x] = v[x]
  BY <1>1
<1>5. u[d] = v[d] /\ u[e] = w[e]
  BY <1>1
<1>6. SumFunctionOnSet(u, S) = SumFunctionOnSet(w, S) - w[d] + u[d]
  BY <1>2, <1>3, SumChange
<1>7. SumFunctionOnSet(v, S) = SumFunctionOnSet(u, S) - u[e] + v[e]
  BY <1>2, <1>4, SumChange
<1>8. SumFunctionOnSet(w, S) \in Int
  BY SumInt
<1>. QED
  BY <1>5, <1>6, <1>7, <1>8

---------------------------------------------------------------------------
Putting == {"create", "register", "track", "write", "link", "drop", "commit"}

Bytes == BytesOf(Paths)
At(p) == IF p \in Paths /\ files[p] # Absent THEN files[p] ELSE 0
Held  == IF response THEN Response ELSE 0

(* The bytes of all files but the two names of the snapshot being put.      *)
Rest == Bytes - At(name) - At(temp)

(* What the locals of put_bytes hold at each of its steps.                  *)
Locals ==
    /\ pc \in {"closed", "pruning", "removing", "idle"} =>
          name = NoPath /\ temp = NoPath /\ tracked = {}
    /\ pc \in {"closed", "pruning", "removing"} => ~response
    /\ pc \in Putting \cup {"undo", "release"} => name \in Names
    /\ pc = "create" => temp = NoPath
    /\ pc \in Putting \ {"create"} => temp \in Temps
    /\ pc \in {"create", "register"} => tracked = {}
    /\ pc = "track" => tracked = {temp}
    /\ pc \in {"write", "link", "drop", "commit"} => tracked = {name, temp}
    /\ pc \in Putting \cup {"undo"} => tracked \subseteq {name, temp} \cap Paths

(* How much of the snapshot its two files hold.                             *)
Contents ==
    /\ pc \in {"register", "track", "write"} => files[temp] = 0
    /\ pc = "link" => files[temp] = Size[name]
    /\ pc \in {"create", "register", "track", "write", "link"} => files[name] = Absent
    /\ pc \in Putting \cup {"undo"} => At(temp) <= Size[name]
    /\ pc = "undo" => (temp \notin tracked => At(temp) = 0) /\ (name \notin tracked => At(name) = 0)

(* The entries in memory cover the files as the saved ones do.              *)
Covered ==
    /\ pc # "closed" => \A p \in Paths : files[p] > 0 => entries[p] # "none"
    /\ pc = "pruning" => ledger = entries
    /\ pc \in Putting \cup {"undo"} => \A p \in tracked : ledger[p] = "pending"
    /\ pc \in Putting => \A p \in tracked : entries[p] = "pending"

(* The account: a reservation covers both names of the snapshot; a commit   *)
(* that fails after it has counted the snapshot has given it back already.  *)
Account ==
    /\ pc \in {"pruning", "removing", "idle", "release"} => Bytes <= used
    /\ pc \in {"closed", "pruning", "removing", "idle"} => reserved = Held
    /\ pc = "release" => reserved <= Held
    /\ pc \in Putting => reserved = Held + 2 * Size[name] /\ Rest <= used
    /\ pc = "undo" => \/ reserved = Held + 2 * Size[name] /\ Rest <= used
                      \/ reserved = Held /\ Bytes <= used
    /\ pc \in Putting \cup {"undo"} => Rest + Held + 2 * Size[name] <= Limit
    /\ Bytes + Held <= Limit

IInv == LedgerIsSound /\ Locals /\ Contents /\ Covered /\ Account

---------------------------------------------------------------------------
(* The bytes of the files.                                                  *)
Weight(f) == [p \in Paths |-> IF f[p] = Absent THEN 0 ELSE f[p]]
FileType == [Paths -> Nat \cup {Absent}]

LEMMA PathFacts ==
    /\ IsFiniteSet(Paths) /\ NoPath \notin Paths /\ Absent \notin Nat
    /\ \A n \in Names : n \in Paths /\ n \notin Temps /\ Size[n] \in Nat /\ Size[n] > 0
    /\ \A t \in Temps : t \in Paths /\ t \notin Names
<1>1. IsFiniteSet(Paths)
  BY PathAssumption, FS_Union DEF Paths
<1>. QED
  BY <1>1, PathAssumption, NoPathAssumption, SizeAssumption DEF Paths, Absent

LEMMA WeightNat ==
    ASSUME NEW f \in FileType
    PROVE  \A p \in Paths : Weight(f)[p] \in Nat /\ Weight(f)[p] = IF f[p] = Absent THEN 0 ELSE f[p]
BY DEF Weight, FileType

(* A set of paths weighs what its files that are there weigh.               *)
LEMMA WeightOfSet ==
    ASSUME NEW f \in FileType, NEW S \in SUBSET Paths
    PROVE  SumFunctionOnSet(f, S \cap {p \in Paths : f[p] # Absent})
           = SumFunctionOnSet(Weight(f), S)
<1>1. PICK w, T : w = Weight(f) /\ T = {p \in Paths : f[p] # Absent}
  OBVIOUS
<1>2. \A p \in Paths : w[p] \in Nat /\ w[p] = IF f[p] = Absent THEN 0 ELSE f[p]
  BY <1>1, WeightNat
<1>3. IsFiniteSet(S) /\ IsFiniteSet(S \cap T)
  BY PathFacts, FS_Subset
<1>4. \A p \in S \cap T : f[p] = w[p]
  BY <1>1, <1>2
<1>5. \A p \in S : w[p] \in Int
  BY <1>2
<1>6. \A p \in S \ T : w[p] = 0
  BY <1>1, <1>2
<1>7. SumFunctionOnSet(w, S) = SumFunctionOnSet(w, S \cap T)
  BY <1>3, <1>5, <1>6, SumWithout
<1>8. SumFunctionOnSet(f, S \cap T) = SumFunctionOnSet(w, S \cap T)
  BY <1>3, <1>4, SumSame
<1>. QED
  BY <1>1, <1>7, <1>8

LEMMA BytesWeigh ==
    ASSUME files \in FileType
    PROVE  /\ Bytes = SumFunctionOnSet(Weight(files), Paths) /\ Bytes \in Nat
           /\ \A p \in Paths : BytesOf({p}) = At(p) /\ At(p) = Weight(files)[p] /\ At(p) \in Nat
           /\ \A S \in SUBSET Paths : BytesOf(S) = SumFunctionOnSet(Weight(files), S)
<1>1. PICK w : w = Weight(files)
  OBVIOUS
<1>2. \A p \in Paths : w[p] \in Nat /\ w[p] = IF files[p] = Absent THEN 0 ELSE files[p]
  BY <1>1, WeightNat
<1>3. \A S \in SUBSET Paths : BytesOf(S) = SumFunctionOnSet(w, S)
  BY <1>1, WeightOfSet DEF BytesOf, Present
<1>4. SumFunctionOnSet(w, Paths) \in Nat
  BY <1>2, PathFacts, SumNat
<1>5. \A p \in Paths : BytesOf({p}) = w[p]
  <2>1. SUFFICES ASSUME NEW p \in Paths
                 PROVE  BytesOf({p}) = w[p]
    OBVIOUS
  <2>2. w[p] \in Int
    BY <1>2
  <2>. QED
    BY <1>3, <2>2, SumOne
<1>. QED
  BY <1>1, <1>2, <1>3, <1>4, <1>5 DEF Bytes, At

LEMMA BytesWeighNext ==
    ASSUME files' \in FileType
    PROVE  Bytes' = SumFunctionOnSet(Weight(files'), Paths) /\ Bytes' \in Nat
<1>1. PICK w : w = Weight(files')
  OBVIOUS
<1>2. \A p \in Paths : w[p] \in Nat
  BY <1>1, WeightNat
<1>3. Bytes' = SumFunctionOnSet(w, Paths)
  <2>1. Bytes' = SumFunctionOnSet(files', Paths \cap {p \in Paths : files'[p] # Absent})
    BY DEF Bytes, BytesOf, Present
  <2>. QED
    BY <1>1, <2>1, WeightOfSet
<1>4. SumFunctionOnSet(w, Paths) \in Nat
  BY <1>2, PathFacts, SumNat
<1>. QED
  BY <1>1, <1>3, <1>4

LEMMA BytesKept ==
    ASSUME files' = files
    PROVE  Bytes' = Bytes /\ \A p : (IF p \in Paths /\ files'[p] # Absent THEN files'[p] ELSE 0) = At(p)
BY DEF Bytes, BytesOf, Present, At

(* One file is written, created or removed.                                 *)
LEMMA OneFile ==
    ASSUME files \in FileType, NEW p \in Paths, NEW v \in Nat \cup {Absent},
           files' = [files EXCEPT ![p] = v]
    PROVE  /\ files' \in FileType /\ files'[p] = v /\ \A q \in Paths \ {p} : files'[q] = files[q]
           /\ Bytes \in Nat /\ Bytes' \in Nat /\ At(p) \in Nat
           /\ Bytes' = Bytes - At(p) + IF v = Absent THEN 0 ELSE v
<1>1. files' \in FileType /\ files'[p] = v /\ \A q \in Paths \ {p} : files'[q] = files[q]
  BY DEF FileType
<1>2. PICK w, u : w = Weight(files) /\ u = Weight(files')
  OBVIOUS
<1>3. \A q \in Paths : w[q] \in Nat /\ w[q] = IF files[q] = Absent THEN 0 ELSE files[q]
  BY <1>2, WeightNat
<1>4. \A q \in Paths : u[q] \in Nat /\ u[q] = IF files'[q] = Absent THEN 0 ELSE files'[q]
  BY <1>1, <1>2, WeightNat
<1>5. \A q \in Paths \ {p} : w[q] = u[q]
  BY <1>1, <1>3, <1>4
<1>6. \A q \in Paths : w[q] \in Int /\ u[q] \in Int
  BY <1>3, <1>4
<1>7. SumFunctionOnSet(u, Paths) = SumFunctionOnSet(w, Paths) - w[p] + u[p]
  BY <1>5, <1>6, PathFacts, SumChange
<1>8. /\ Bytes = SumFunctionOnSet(w, Paths) /\ Bytes \in Nat
      /\ Bytes' = SumFunctionOnSet(u, Paths) /\ Bytes' \in Nat
      /\ At(p) = w[p]
  BY <1>1, <1>2, BytesWeigh, BytesWeighNext
<1>. QED
  BY <1>1, <1>3, <1>4, <1>7, <1>8

(* Two files change.                                                        *)
LEMMA TwoFiles ==
    ASSUME files \in FileType, files' \in FileType, NEW p \in Paths, NEW q \in Paths, p # q,
           \A r \in Paths \ {p, q} : files'[r] = files[r]
    PROVE  /\ Bytes \in Nat /\ Bytes' \in Nat /\ At(p) \in Nat /\ At(q) \in Nat
           /\ Bytes' = Bytes - At(p) - At(q) + (IF files'[p] = Absent THEN 0 ELSE files'[p])
                       + (IF files'[q] = Absent THEN 0 ELSE files'[q])
<1>2. PICK w, u : w = Weight(files) /\ u = Weight(files')
  OBVIOUS
<1>3. \A r \in Paths : w[r] \in Nat /\ w[r] = IF files[r] = Absent THEN 0 ELSE files[r]
  BY <1>2, WeightNat
<1>4. \A r \in Paths : u[r] \in Nat /\ u[r] = IF files'[r] = Absent THEN 0 ELSE files'[r]
  BY <1>2, WeightNat
<1>5. \A r \in Paths \ {p, q} : w[r] = u[r]
  BY <1>3, <1>4
<1>6. \A r \in Paths : w[r] \in Int /\ u[r] \in Int
  BY <1>3, <1>4
<1>7. SumFunctionOnSet(u, Paths) = SumFunctionOnSet(w, Paths) - w[p] - w[q] + u[p] + u[q]
  BY <1>5, <1>6, PathFacts, SumChangeTwo
<1>8. /\ Bytes = SumFunctionOnSet(w, Paths) /\ Bytes \in Nat
      /\ Bytes' = SumFunctionOnSet(u, Paths) /\ Bytes' \in Nat
      /\ At(p) = w[p] /\ At(q) = w[q]
  BY <1>2, BytesWeigh, BytesWeighNext
<1>. QED
  BY <1>3, <1>4, <1>7, <1>8

---------------------------------------------------------------------------
(* Every action keeps the invariant.                                        *)
(* The types of everything the invariant speaks of.                         *)
Typed ==
    /\ files \in FileType /\ ledger \in [Paths -> Entry] /\ entries \in [Paths -> Entry]
    /\ used \in Nat /\ reserved \in Nat /\ response \in BOOLEAN /\ pc \in Places
    /\ name \in Names \cup {NoPath} /\ temp \in Temps \cup {NoPath} /\ tracked \subseteq Paths
    /\ faults \in 0 .. MaxFaults /\ days \in 0 .. MaxDays
    /\ MaxFaults \in Nat /\ MaxDays \in Nat /\ Limit \in Nat /\ Response \in Nat
    /\ Bytes \in Nat /\ Held \in Nat /\ At(name) \in Nat /\ At(temp) \in Nat

LEMMA Facts ==
    ASSUME IInv
    PROVE  Typed
<1>1. files \in FileType
  BY DEF IInv, LedgerIsSound, TypeOK, FileType
<1>2. Bytes \in Nat /\ \A p \in Paths : At(p) \in Nat
  BY <1>1, BytesWeigh
<1>3. At(name) \in Nat /\ At(temp) \in Nat
  BY <1>2 DEF At
<1>. QED
  BY <1>1, <1>2, <1>3, SizeAssumption, CacheBoundsAssumption
  DEF IInv, LedgerIsSound, TypeOK, Held, Typed

LEMMA SaveRemovalKeeps ==
    ASSUME IInv, SaveRemoval
    PROVE  IInv'
<1>0. Typed
  BY Facts
<1>1. Bytes' = Bytes /\ files' = files
  BY BytesKept DEF Typed, SaveRemoval, memory, put, bounds, Goto
<1>2. TypeOK'
  BY <1>0, <1>1, PathFacts
  DEF Typed, SaveRemoval, memory, put, bounds, Goto, TypeOK, FileType, Places, Entry,
      IInv, Locals, Putting
<1>3. RegisteredBeforeContent' /\ SnapshotsComplete'
  BY <1>0, <1>1, PathFacts
  DEF Typed, SaveRemoval, memory, put, bounds, Goto, IInv, LedgerIsSound,
      RegisteredBeforeContent, SnapshotsComplete, Locals, Contents, Covered, Putting
<1>4. Locals'
  BY <1>0, PathFacts DEF Typed, SaveRemoval, memory, put, bounds, Goto, IInv, Locals, Putting
<1>5. Contents'
  BY <1>0, <1>1, PathFacts
  DEF Typed, SaveRemoval, memory, put, bounds, Goto, IInv, Locals, Contents, Putting, At
<1>6. Covered'
  BY <1>0, <1>1, PathFacts
  DEF Typed, SaveRemoval, memory, put, bounds, Goto, IInv, Locals, Covered, Contents,
      Putting
<1>7. Account'
  BY <1>0, <1>1, PathFacts
  DEF Typed, SaveRemoval, memory, put, bounds, Goto, IInv, Locals, Contents, Account,
      Putting, Rest, At, Held
<1>. QED
  BY <1>2, <1>3, <1>4, <1>5, <1>6, <1>7 DEF IInv, LedgerIsSound

LEMMA CloseKeeps ==
    ASSUME IInv, Close
    PROVE  IInv'
<1>0. Typed
  BY Facts
<1>1. Bytes' = Bytes /\ files' = files
  BY BytesKept DEF Typed, Close, Reset, bounds
<1>2. TypeOK'
  <2>1. response' \in BOOLEAN
    BY Zenon DEF Typed, Close, Reset, bounds
  <2>. QED
    BY <1>0, <1>1, <2>1, PathFacts
    DEF Typed, Close, Reset, bounds, TypeOK, FileType, Places, Entry, IInv, Locals,
        Putting
<1>3. RegisteredBeforeContent' /\ SnapshotsComplete'
  BY <1>0, <1>1, PathFacts
  DEF Typed, Close, Reset, bounds, IInv, LedgerIsSound, RegisteredBeforeContent,
      SnapshotsComplete, Locals, Contents, Covered, Putting
<1>4. Locals'
  BY <1>0, PathFacts DEF Typed, Close, Reset, bounds, IInv, Locals, Putting
<1>5. Contents'
  BY <1>0, <1>1, PathFacts DEF Typed, Close, Reset, bounds, IInv, Locals, Contents, Putting, At
<1>6. Covered'
  BY <1>0, <1>1, PathFacts
  DEF Typed, Close, Reset, bounds, IInv, Locals, Covered, Contents, Putting
<1>7. Account'
  BY <1>0, <1>1, PathFacts
  DEF Typed, Close, Reset, bounds, IInv, Locals, Contents, Account, Putting, Rest, At,
      Held
<1>. QED
  BY <1>2, <1>3, <1>4, <1>5, <1>6, <1>7 DEF IInv, LedgerIsSound

LEMMA PruneFailsKeeps ==
    ASSUME IInv, PruneFails
    PROVE  IInv'
<1>0. Typed
  BY Facts
<1>1. Bytes' = Bytes /\ files' = files
  BY BytesKept DEF Typed, PruneFails, Reset, Fault
<1>2. TypeOK'
  <2>1. response' \in BOOLEAN
    BY Zenon DEF Typed, PruneFails, Reset, Fault
  <2>. QED
    BY <1>0, <1>1, <2>1, PathFacts
    DEF Typed, PruneFails, Reset, Fault, TypeOK, FileType, Places, Entry, IInv, Locals,
        Putting
<1>3. RegisteredBeforeContent' /\ SnapshotsComplete'
  BY <1>0, <1>1, PathFacts
  DEF Typed, PruneFails, Reset, Fault, IInv, LedgerIsSound, RegisteredBeforeContent,
      SnapshotsComplete, Locals, Contents, Covered, Putting
<1>4. Locals'
  BY <1>0, PathFacts DEF Typed, PruneFails, Reset, Fault, IInv, Locals, Putting
<1>5. Contents'
  BY <1>0, <1>1, PathFacts
  DEF Typed, PruneFails, Reset, Fault, IInv, Locals, Contents, Putting, At
<1>6. Covered'
  BY <1>0, <1>1, PathFacts
  DEF Typed, PruneFails, Reset, Fault, IInv, Locals, Covered, Contents, Putting
<1>7. Account'
  BY <1>0, <1>1, PathFacts
  DEF Typed, PruneFails, Reset, Fault, IInv, Locals, Contents, Account, Putting, Rest, At,
      Held
<1>. QED
  BY <1>2, <1>3, <1>4, <1>5, <1>6, <1>7 DEF IInv, LedgerIsSound

LEMMA CrashKeeps ==
    ASSUME IInv, Crash
    PROVE  IInv'
<1>0. Typed
  BY Facts
<1>1. Bytes' = Bytes /\ files' = files
  BY BytesKept DEF Typed, Crash, Reset, Fault
<1>2. TypeOK'
  <2>1. response' \in BOOLEAN
    BY Zenon DEF Typed, Crash, Reset, Fault
  <2>. QED
    BY <1>0, <1>1, <2>1, PathFacts
    DEF Typed, Crash, Reset, Fault, TypeOK, FileType, Places, Entry, IInv, Locals,
        Putting
<1>3. RegisteredBeforeContent' /\ SnapshotsComplete'
  BY <1>0, <1>1, PathFacts
  DEF Typed, Crash, Reset, Fault, IInv, LedgerIsSound, RegisteredBeforeContent,
      SnapshotsComplete, Locals, Contents, Covered, Putting
<1>4. Locals'
  BY <1>0, PathFacts DEF Typed, Crash, Reset, Fault, IInv, Locals, Putting
<1>5. Contents'
  BY <1>0, <1>1, PathFacts DEF Typed, Crash, Reset, Fault, IInv, Locals, Contents, Putting, At
<1>6. Covered'
  BY <1>0, <1>1, PathFacts
  DEF Typed, Crash, Reset, Fault, IInv, Locals, Covered, Contents, Putting
<1>7. Account'
  BY <1>0, <1>1, PathFacts
  DEF Typed, Crash, Reset, Fault, IInv, Locals, Contents, Account, Putting, Rest, At, Held
<1>. QED
  BY <1>2, <1>3, <1>4, <1>5, <1>6, <1>7 DEF IInv, LedgerIsSound

LEMMA ReserveResponseKeeps ==
    ASSUME IInv, ReserveResponse
    PROVE  IInv'
<1>0. Typed
  BY Facts
<1>1. Bytes' = Bytes /\ files' = files
  BY BytesKept DEF Typed, ReserveResponse, Fits, put, bounds
<1>2. TypeOK'
  <2>1. response' \in BOOLEAN
    BY Zenon DEF Typed, ReserveResponse, Fits, put, bounds
  <2>. QED
    BY <1>0, <1>1, <2>1, PathFacts
    DEF Typed, ReserveResponse, Fits, put, bounds, TypeOK, FileType, Places, Entry,
        IInv, Locals, Putting
<1>3. RegisteredBeforeContent' /\ SnapshotsComplete'
  BY <1>0, <1>1, PathFacts
  DEF Typed, ReserveResponse, Fits, put, bounds, IInv, LedgerIsSound,
      RegisteredBeforeContent, SnapshotsComplete, Locals, Contents, Covered, Putting
<1>4. Locals'
  BY <1>0, PathFacts DEF Typed, ReserveResponse, Fits, put, bounds, IInv, Locals, Putting
<1>5. Contents'
  BY <1>0, <1>1, PathFacts
  DEF Typed, ReserveResponse, Fits, put, bounds, IInv, Locals, Contents, Putting, At
<1>6. Covered'
  BY <1>0, <1>1, PathFacts
  DEF Typed, ReserveResponse, Fits, put, bounds, IInv, Locals, Covered, Contents, Putting
<1>7. Account'
  BY <1>0, <1>1, PathFacts
  DEF Typed, ReserveResponse, Fits, put, bounds, IInv, Locals, Contents, Account, Putting,
      Rest, At, Held
<1>. QED
  BY <1>2, <1>3, <1>4, <1>5, <1>6, <1>7 DEF IInv, LedgerIsSound

LEMMA ReleaseResponseKeeps ==
    ASSUME IInv, ReleaseResponse
    PROVE  IInv'
<1>0. Typed
  BY Facts
<1>1. Bytes' = Bytes /\ files' = files
  BY BytesKept DEF Typed, ReleaseResponse, Less, put, Fault
<1>2. TypeOK'
  <2>1. response' \in BOOLEAN
    BY Zenon DEF Typed, ReleaseResponse, Less, put, Fault
  <2>. QED
    BY <1>0, <1>1, <2>1, PathFacts
    DEF Typed, ReleaseResponse, Less, put, Fault, TypeOK, FileType, Places, Entry,
        IInv, Locals, Putting
<1>3. RegisteredBeforeContent' /\ SnapshotsComplete'
  BY <1>0, <1>1, PathFacts
  DEF Typed, ReleaseResponse, Less, put, Fault, IInv, LedgerIsSound,
      RegisteredBeforeContent, SnapshotsComplete, Locals, Contents, Covered, Putting
<1>4. Locals'
  BY <1>0, PathFacts DEF Typed, ReleaseResponse, Less, put, Fault, IInv, Locals, Putting
<1>5. Contents'
  BY <1>0, <1>1, PathFacts
  DEF Typed, ReleaseResponse, Less, put, Fault, IInv, Locals, Contents, Putting, At
<1>6. Covered'
  BY <1>0, <1>1, PathFacts
  DEF Typed, ReleaseResponse, Less, put, Fault, IInv, Locals, Covered, Contents, Putting
<1>7. Account'
  BY <1>0, <1>1, PathFacts
  DEF Typed, ReleaseResponse, Less, put, Fault, IInv, Locals, Contents, Account, Putting,
      Rest, At, Held
<1>. QED
  BY <1>2, <1>3, <1>4, <1>5, <1>6, <1>7 DEF IInv, LedgerIsSound

LEMMA ReserveKeeps ==
    ASSUME IInv, NEW n \in Names, Reserve(n)
    PROVE  IInv'
<1>0. Typed
  BY Facts
<1>1. Bytes' = Bytes /\ files' = files
  BY BytesKept DEF Typed, Reserve, Fits, Goto, bounds
<1>2. TypeOK'
  BY <1>0, <1>1, PathFacts
  DEF Typed, Reserve, Fits, Goto, bounds, TypeOK, FileType, Places, Entry, IInv, Locals,
      Putting
<1>3. RegisteredBeforeContent' /\ SnapshotsComplete'
  BY <1>0, <1>1, PathFacts
  DEF Typed, Reserve, Fits, Goto, bounds, IInv, LedgerIsSound, RegisteredBeforeContent,
      SnapshotsComplete, Locals, Contents, Covered, Putting
<1>4. Locals'
  BY <1>0, PathFacts DEF Typed, Reserve, Fits, Goto, bounds, IInv, Locals, Putting
<1>5. Contents'
  BY <1>0, <1>1, PathFacts
  DEF Typed, Reserve, Fits, Goto, bounds, IInv, Locals, Contents, Putting, At
<1>6. Covered'
  BY <1>0, <1>1, PathFacts
  DEF Typed, Reserve, Fits, Goto, bounds, IInv, Locals, Covered, Contents, Putting
<1>7. Account'
  BY <1>0, <1>1, PathFacts
  DEF Typed, Reserve, Fits, Goto, bounds, IInv, Locals, Contents, Account, Putting, Rest,
      At, Held
<1>. QED
  BY <1>2, <1>3, <1>4, <1>5, <1>6, <1>7 DEF IInv, LedgerIsSound

LEMMA RegisterTempKeeps ==
    ASSUME IInv, RegisterTemp
    PROVE  IInv'
<1>0. Typed
  BY Facts
<1>1. Bytes' = Bytes /\ files' = files
  BY BytesKept DEF Typed, RegisterTemp, Track, Goto, bounds
<1>2. TypeOK'
  BY <1>0, <1>1, PathFacts
  DEF Typed, RegisterTemp, Track, Goto, bounds, TypeOK, FileType, Places, Entry, IInv,
      Locals, Putting
<1>3. RegisteredBeforeContent' /\ SnapshotsComplete'
  BY <1>0, <1>1, PathFacts
  DEF Typed, RegisterTemp, Track, Goto, bounds, IInv, LedgerIsSound,
      RegisteredBeforeContent, SnapshotsComplete, Locals, Contents, Covered, Putting
<1>4. Locals'
  BY <1>0, PathFacts DEF Typed, RegisterTemp, Track, Goto, bounds, IInv, Locals, Putting
<1>5. Contents'
  BY <1>0, <1>1, PathFacts
  DEF Typed, RegisterTemp, Track, Goto, bounds, IInv, Locals, Contents, Putting, At
<1>6. Covered'
  BY <1>0, <1>1, PathFacts
  DEF Typed, RegisterTemp, Track, Goto, bounds, IInv, Locals, Covered, Contents, Putting
<1>7. Account'
  BY <1>0, <1>1, PathFacts
  DEF Typed, RegisterTemp, Track, Goto, bounds, IInv, Locals, Contents, Account, Putting,
      Rest, At, Held
<1>. QED
  BY <1>2, <1>3, <1>4, <1>5, <1>6, <1>7 DEF IInv, LedgerIsSound

LEMMA TrackNameKeeps ==
    ASSUME IInv, TrackName
    PROVE  IInv'
<1>0. Typed
  BY Facts
<1>1. Bytes' = Bytes /\ files' = files
  BY BytesKept DEF Typed, TrackName, Track, Goto, bounds
<1>2. TypeOK'
  BY <1>0, <1>1, PathFacts
  DEF Typed, TrackName, Track, Goto, bounds, TypeOK, FileType, Places, Entry, IInv,
      Locals, Putting
<1>3. RegisteredBeforeContent' /\ SnapshotsComplete'
  BY <1>0, <1>1, PathFacts
  DEF Typed, TrackName, Track, Goto, bounds, IInv, LedgerIsSound, RegisteredBeforeContent,
      SnapshotsComplete, Locals, Contents, Covered, Putting
<1>4. Locals'
  BY <1>0, PathFacts DEF Typed, TrackName, Track, Goto, bounds, IInv, Locals, Putting
<1>5. Contents'
  BY <1>0, <1>1, PathFacts
  DEF Typed, TrackName, Track, Goto, bounds, IInv, Locals, Contents, Putting, At
<1>6. Covered'
  BY <1>0, <1>1, PathFacts
  DEF Typed, TrackName, Track, Goto, bounds, IInv, Locals, Covered, Contents, Putting
<1>7. Account'
  BY <1>0, <1>1, PathFacts
  DEF Typed, TrackName, Track, Goto, bounds, IInv, Locals, Contents, Account, Putting,
      Rest, At, Held
<1>. QED
  BY <1>2, <1>3, <1>4, <1>5, <1>6, <1>7 DEF IInv, LedgerIsSound

LEMMA TrackConflictKeeps ==
    ASSUME IInv, TrackConflict
    PROVE  IInv'
<1>0. Typed
  BY Facts
<1>1. Bytes' = Bytes /\ files' = files
  BY BytesKept DEF Typed, TrackConflict, Goto, memory, put, bounds
<1>2. TypeOK'
  BY <1>0, <1>1, PathFacts
  DEF Typed, TrackConflict, Goto, memory, put, bounds, TypeOK, FileType, Places, Entry,
      IInv, Locals, Putting
<1>3. RegisteredBeforeContent' /\ SnapshotsComplete'
  BY <1>0, <1>1, PathFacts
  DEF Typed, TrackConflict, Goto, memory, put, bounds, IInv, LedgerIsSound,
      RegisteredBeforeContent, SnapshotsComplete, Locals, Contents, Covered, Putting
<1>4. Locals'
  BY <1>0, PathFacts DEF Typed, TrackConflict, Goto, memory, put, bounds, IInv, Locals, Putting
<1>5. Contents'
  BY <1>0, <1>1, PathFacts
  DEF Typed, TrackConflict, Goto, memory, put, bounds, IInv, Locals, Contents, Putting, At
<1>6. Covered'
  BY <1>0, <1>1, PathFacts
  DEF Typed, TrackConflict, Goto, memory, put, bounds, IInv, Locals, Covered, Contents,
      Putting
<1>7. Account'
  BY <1>0, <1>1, PathFacts
  DEF Typed, TrackConflict, Goto, memory, put, bounds, IInv, Locals, Contents, Account,
      Putting, Rest, At, Held
<1>. QED
  BY <1>2, <1>3, <1>4, <1>5, <1>6, <1>7 DEF IInv, LedgerIsSound

LEMMA TrackFailsKeeps ==
    ASSUME IInv, TrackFails
    PROVE  IInv'
<1>0. Typed
  BY Facts
<1>1. Bytes' = Bytes /\ files' = files
  BY BytesKept DEF Typed, TrackFails, Goto, Fault, put
<1>2. TypeOK'
  BY <1>0, <1>1, PathFacts
  DEF Typed, TrackFails, Goto, Fault, put, TypeOK, FileType, Places, Entry, IInv, Locals,
      Putting
<1>3. RegisteredBeforeContent' /\ SnapshotsComplete'
  BY <1>0, <1>1, PathFacts
  DEF Typed, TrackFails, Goto, Fault, put, IInv, LedgerIsSound, RegisteredBeforeContent,
      SnapshotsComplete, Locals, Contents, Covered, Putting
<1>4. Locals'
  BY <1>0, PathFacts DEF Typed, TrackFails, Goto, Fault, put, IInv, Locals, Putting
<1>5. Contents'
  BY <1>0, <1>1, PathFacts
  DEF Typed, TrackFails, Goto, Fault, put, IInv, Locals, Contents, Putting, At
<1>6. Covered'
  BY <1>0, <1>1, PathFacts
  DEF Typed, TrackFails, Goto, Fault, put, IInv, Locals, Covered, Contents, Putting
<1>7. Account'
  BY <1>0, <1>1, PathFacts
  DEF Typed, TrackFails, Goto, Fault, put, IInv, Locals, Contents, Account, Putting, Rest,
      At, Held
<1>. QED
  BY <1>2, <1>3, <1>4, <1>5, <1>6, <1>7 DEF IInv, LedgerIsSound

LEMMA StepFailsKeeps ==
    ASSUME IInv, StepFails
    PROVE  IInv'
<1>0. Typed
  BY Facts
<1>1. Bytes' = Bytes /\ files' = files
  BY BytesKept DEF Typed, StepFails, Goto, Fault, memory, put
<1>2. TypeOK'
  BY <1>0, <1>1, PathFacts
  DEF Typed, StepFails, Goto, Fault, memory, put, TypeOK, FileType, Places, Entry, IInv,
      Locals, Putting
<1>3. RegisteredBeforeContent' /\ SnapshotsComplete'
  BY <1>0, <1>1, PathFacts
  DEF Typed, StepFails, Goto, Fault, memory, put, IInv, LedgerIsSound,
      RegisteredBeforeContent, SnapshotsComplete, Locals, Contents, Covered, Putting
<1>4. Locals'
  BY <1>0, PathFacts DEF Typed, StepFails, Goto, Fault, memory, put, IInv, Locals, Putting
<1>5. Contents'
  BY <1>0, <1>1, PathFacts
  DEF Typed, StepFails, Goto, Fault, memory, put, IInv, Locals, Contents, Putting, At
<1>6. Covered'
  BY <1>0, <1>1, PathFacts
  DEF Typed, StepFails, Goto, Fault, memory, put, IInv, Locals, Covered, Contents, Putting
<1>7. Account'
  BY <1>0, <1>1, PathFacts
  DEF Typed, StepFails, Goto, Fault, memory, put, IInv, Locals, Contents, Account,
      Putting, Rest, At, Held
<1>. QED
  BY <1>2, <1>3, <1>4, <1>5, <1>6, <1>7 DEF IInv, LedgerIsSound

LEMMA DropTempFailsKeeps ==
    ASSUME IInv, DropTempFails
    PROVE  IInv'
<1>0. Typed
  BY Facts
<1>1. Bytes' = Bytes /\ files' = files
  BY BytesKept DEF Typed, DropTempFails, Goto, Fault, memory, put
<1>2. TypeOK'
  BY <1>0, <1>1, PathFacts
  DEF Typed, DropTempFails, Goto, Fault, memory, put, TypeOK, FileType, Places, Entry,
      IInv, Locals, Putting
<1>3. RegisteredBeforeContent' /\ SnapshotsComplete'
  BY <1>0, <1>1, PathFacts
  DEF Typed, DropTempFails, Goto, Fault, memory, put, IInv, LedgerIsSound,
      RegisteredBeforeContent, SnapshotsComplete, Locals, Contents, Covered, Putting
<1>4. Locals'
  BY <1>0, PathFacts DEF Typed, DropTempFails, Goto, Fault, memory, put, IInv, Locals, Putting
<1>5. Contents'
  BY <1>0, <1>1, PathFacts
  DEF Typed, DropTempFails, Goto, Fault, memory, put, IInv, Locals, Contents, Putting, At
<1>6. Covered'
  BY <1>0, <1>1, PathFacts
  DEF Typed, DropTempFails, Goto, Fault, memory, put, IInv, Locals, Covered, Contents,
      Putting
<1>7. Account'
  BY <1>0, <1>1, PathFacts
  DEF Typed, DropTempFails, Goto, Fault, memory, put, IInv, Locals, Contents, Account,
      Putting, Rest, At, Held
<1>. QED
  BY <1>2, <1>3, <1>4, <1>5, <1>6, <1>7 DEF IInv, LedgerIsSound

LEMMA ReleaseKeeps ==
    ASSUME IInv, Release
    PROVE  IInv'
<1>0. Typed
  BY Facts
<1>1. Bytes' = Bytes /\ files' = files
  BY BytesKept DEF Typed, Release, ReleaseAll, Idle, Less, bounds
<1>2. TypeOK'
  <2>1. response' \in BOOLEAN
    BY Zenon DEF Typed, Release, ReleaseAll, Idle, Less, bounds
  <2>. QED
    BY <1>0, <1>1, <2>1, PathFacts
    DEF Typed, Release, ReleaseAll, Idle, Less, bounds, TypeOK, FileType, Places, Entry,
        IInv, Locals, Putting
<1>3. RegisteredBeforeContent' /\ SnapshotsComplete'
  BY <1>0, <1>1, PathFacts
  DEF Typed, Release, ReleaseAll, Idle, Less, bounds, IInv, LedgerIsSound,
      RegisteredBeforeContent, SnapshotsComplete, Locals, Contents, Covered, Putting
<1>4. Locals'
  BY <1>0, PathFacts DEF Typed, Release, ReleaseAll, Idle, Less, bounds, IInv, Locals, Putting
<1>5. Contents'
  BY <1>0, <1>1, PathFacts
  DEF Typed, Release, ReleaseAll, Idle, Less, bounds, IInv, Locals, Contents, Putting, At
<1>6. Covered'
  BY <1>0, <1>1, PathFacts
  DEF Typed, Release, ReleaseAll, Idle, Less, bounds, IInv, Locals, Covered, Contents,
      Putting
<1>7. Account'
  BY <1>0, <1>1, PathFacts
  DEF Typed, Release, ReleaseAll, Idle, Less, bounds, IInv, Locals, Contents, Account,
      Putting, Rest, At, Held
<1>. QED
  BY <1>2, <1>3, <1>4, <1>5, <1>6, <1>7 DEF IInv, LedgerIsSound

LEMMA ReleaseFailsKeeps ==
    ASSUME IInv, ReleaseFails
    PROVE  IInv'
<1>0. Typed
  BY Facts
<1>1. Bytes' = Bytes /\ files' = files
  BY BytesKept DEF Typed, ReleaseFails, ReleaseAll, Idle, Less, Fault
<1>2. TypeOK'
  <2>1. response' \in BOOLEAN
    BY Zenon DEF Typed, ReleaseFails, ReleaseAll, Idle, Less, Fault
  <2>. QED
    BY <1>0, <1>1, <2>1, PathFacts
    DEF Typed, ReleaseFails, ReleaseAll, Idle, Less, Fault, TypeOK, FileType, Places,
        Entry, IInv, Locals, Putting
<1>3. RegisteredBeforeContent' /\ SnapshotsComplete'
  BY <1>0, <1>1, PathFacts
  DEF Typed, ReleaseFails, ReleaseAll, Idle, Less, Fault, IInv, LedgerIsSound,
      RegisteredBeforeContent, SnapshotsComplete, Locals, Contents, Covered, Putting
<1>4. Locals'
  BY <1>0, PathFacts
  DEF Typed, ReleaseFails, ReleaseAll, Idle, Less, Fault, IInv, Locals, Putting
<1>5. Contents'
  BY <1>0, <1>1, PathFacts
  DEF Typed, ReleaseFails, ReleaseAll, Idle, Less, Fault, IInv, Locals, Contents, Putting,
      At
<1>6. Covered'
  BY <1>0, <1>1, PathFacts
  DEF Typed, ReleaseFails, ReleaseAll, Idle, Less, Fault, IInv, Locals, Covered, Contents,
      Putting
<1>7. Account'
  BY <1>0, <1>1, PathFacts
  DEF Typed, ReleaseFails, ReleaseAll, Idle, Less, Fault, IInv, Locals, Contents, Account,
      Putting, Rest, At, Held
<1>. QED
  BY <1>2, <1>3, <1>4, <1>5, <1>6, <1>7 DEF IInv, LedgerIsSound

LEMMA DaysPassKeeps ==
    ASSUME IInv, DaysPass
    PROVE  IInv'
<1>0. Typed
  BY Facts
<1>1. Bytes' = Bytes /\ files' = files
  BY BytesKept DEF Typed, DaysPass, memory, put
<1>2. TypeOK'
  BY <1>0, <1>1, PathFacts
  DEF Typed, DaysPass, memory, put, TypeOK, FileType, Places, Entry, IInv, Locals, Putting
<1>3. RegisteredBeforeContent' /\ SnapshotsComplete'
  BY <1>0, <1>1, PathFacts
  DEF Typed, DaysPass, memory, put, IInv, LedgerIsSound, RegisteredBeforeContent,
      SnapshotsComplete, Locals, Contents, Covered, Putting
<1>4. Locals'
  BY <1>0, PathFacts DEF Typed, DaysPass, memory, put, IInv, Locals, Putting
<1>5. Contents'
  BY <1>0, <1>1, PathFacts DEF Typed, DaysPass, memory, put, IInv, Locals, Contents, Putting, At
<1>6. Covered'
  BY <1>0, <1>1, PathFacts
  DEF Typed, DaysPass, memory, put, IInv, Locals, Covered, Contents, Putting
<1>7. Account'
  BY <1>0, <1>1, PathFacts
  DEF Typed, DaysPass, memory, put, IInv, Locals, Contents, Account, Putting, Rest, At,
      Held
<1>. QED
  BY <1>2, <1>3, <1>4, <1>5, <1>6, <1>7 DEF IInv, LedgerIsSound

LEMMA OpenKeeps ==
    ASSUME IInv, Open
    PROVE  IInv'
<1>0. Typed
  BY Facts
<1>1. Bytes' = Bytes /\ files' = files /\ used' = Bytes
  BY BytesKept DEF Typed, Open, Goto, put, bounds, Absent, Present, Bytes
<1>2. TypeOK'
  BY <1>0, <1>1, PathFacts
  DEF Typed, Open, Goto, put, bounds, Absent, Present, TypeOK, FileType, Places, Entry,
      IInv, Locals, Putting
<1>3. RegisteredBeforeContent' /\ SnapshotsComplete'
  BY <1>0, <1>1, PathFacts
  DEF Typed, Open, Goto, put, bounds, Absent, Present, IInv, LedgerIsSound,
      RegisteredBeforeContent, SnapshotsComplete, Locals, Contents, Covered, Putting
<1>4. Locals'
  BY <1>0, PathFacts DEF Typed, Open, Goto, put, bounds, Absent, Present, IInv, Locals, Putting
<1>5. Contents'
  BY <1>0, <1>1, PathFacts
  DEF Typed, Open, Goto, put, bounds, Absent, Present, IInv, Locals, Contents, Putting, At
<1>6. Covered'
  BY <1>0, <1>1, PathFacts
  DEF Typed, Open, Goto, put, bounds, Absent, Present, IInv, Locals, Covered, Contents,
      Putting
<1>7. Account'
  BY <1>0, <1>1, PathFacts
  DEF Typed, Open, Goto, put, bounds, Absent, Present, IInv, Locals, Contents, Account,
      Putting, Rest, At, Held
<1>. QED
  BY <1>2, <1>3, <1>4, <1>5, <1>6, <1>7 DEF IInv, LedgerIsSound

LEMMA CreateTempKeeps ==
    ASSUME IInv, NEW t \in Temps, CreateTemp(t)
    PROVE  IInv'
<1>0. Typed
  BY Facts
<1>a. t \in Paths /\ 0 \in Nat \cup {Absent} /\ files' = [files EXCEPT ![t] = 0]
  BY <1>0, PathFacts
  DEF Typed, CreateTemp, Goto, memory, bounds, IInv, Locals, Contents, Putting, FileType
<1>1. /\ files' \in FileType /\ files'[t] = 0 /\ \A q \in Paths \ {t} : files'[q] = files[q]
      /\ Bytes' \in Nat /\ At(t) \in Nat
      /\ Bytes' = Bytes - At(t) + IF 0 = Absent THEN 0 ELSE 0
  BY <1>0, <1>a, OneFile DEF Typed
<1>2. TypeOK'
  BY <1>0, <1>1, PathFacts
  DEF Typed, CreateTemp, Goto, memory, bounds, TypeOK, FileType, Places, Entry, IInv,
      Locals, Putting
<1>3. RegisteredBeforeContent' /\ SnapshotsComplete'
  BY <1>0, <1>1, PathFacts
  DEF Typed, CreateTemp, Goto, memory, bounds, IInv, LedgerIsSound,
      RegisteredBeforeContent, SnapshotsComplete, Locals, Contents, Covered, Putting
<1>4. Locals'
  BY <1>0, PathFacts DEF Typed, CreateTemp, Goto, memory, bounds, IInv, Locals, Putting
<1>5. Contents'
  BY <1>0, <1>1, PathFacts
  DEF Typed, CreateTemp, Goto, memory, bounds, IInv, Locals, Contents, Putting, At
<1>6. Covered'
  BY <1>0, <1>1, PathFacts
  DEF Typed, CreateTemp, Goto, memory, bounds, IInv, Locals, Covered, Contents, Putting
<1>7. Account'
  BY <1>0, <1>1, PathFacts
  DEF Typed, CreateTemp, Goto, memory, bounds, IInv, Locals, Contents, Account, Putting,
      Rest, At, Held
<1>. QED
  BY <1>2, <1>3, <1>4, <1>5, <1>6, <1>7 DEF IInv, LedgerIsSound

LEMMA WriteTempKeeps ==
    ASSUME IInv, WriteTemp
    PROVE  IInv'
<1>0. Typed
  BY Facts
<1>a. temp \in Paths /\ Size[name] \in Nat \cup {Absent} /\ files' = [files EXCEPT ![temp] = Size[name]]
  BY <1>0, PathFacts
  DEF Typed, WriteTemp, Goto, memory, put, bounds, IInv, Locals, Contents, Putting,
      FileType
<1>1. /\ files' \in FileType /\ files'[temp] = Size[name] /\ \A q \in Paths \ {temp} : files'[q] = files[q]
      /\ Bytes' \in Nat /\ At(temp) \in Nat
      /\ Bytes' = Bytes - At(temp) + IF Size[name] = Absent THEN 0 ELSE Size[name]
  BY <1>0, <1>a, OneFile DEF Typed
<1>2. TypeOK'
  BY <1>0, <1>1, PathFacts
  DEF Typed, WriteTemp, Goto, memory, put, bounds, TypeOK, FileType, Places, Entry, IInv,
      Locals, Putting
<1>3. RegisteredBeforeContent' /\ SnapshotsComplete'
  BY <1>0, <1>1, PathFacts
  DEF Typed, WriteTemp, Goto, memory, put, bounds, IInv, LedgerIsSound,
      RegisteredBeforeContent, SnapshotsComplete, Locals, Contents, Covered, Putting
<1>4. Locals'
  BY <1>0, PathFacts DEF Typed, WriteTemp, Goto, memory, put, bounds, IInv, Locals, Putting
<1>5. Contents'
  BY <1>0, <1>1, PathFacts
  DEF Typed, WriteTemp, Goto, memory, put, bounds, IInv, Locals, Contents, Putting, At
<1>6. Covered'
  BY <1>0, <1>1, PathFacts
  DEF Typed, WriteTemp, Goto, memory, put, bounds, IInv, Locals, Covered, Contents,
      Putting
<1>7. Account'
  BY <1>0, <1>1, PathFacts
  DEF Typed, WriteTemp, Goto, memory, put, bounds, IInv, Locals, Contents, Account,
      Putting, Rest, At, Held
<1>. QED
  BY <1>2, <1>3, <1>4, <1>5, <1>6, <1>7 DEF IInv, LedgerIsSound

LEMMA WriteFailsKeeps ==
    ASSUME IInv, NEW bytes \in 0 .. Limit, WriteFails(bytes)
    PROVE  IInv'
<1>0. Typed
  BY Facts
<1>a. temp \in Paths /\ bytes \in Nat \cup {Absent} /\ files' = [files EXCEPT ![temp] = bytes]
  BY <1>0, PathFacts
  DEF Typed, WriteFails, Goto, Fault, memory, put, IInv, Locals, Contents, Putting,
      FileType
<1>1. /\ files' \in FileType /\ files'[temp] = bytes /\ \A q \in Paths \ {temp} : files'[q] = files[q]
      /\ Bytes' \in Nat /\ At(temp) \in Nat
      /\ Bytes' = Bytes - At(temp) + IF bytes = Absent THEN 0 ELSE bytes
  BY <1>0, <1>a, OneFile DEF Typed
<1>2. TypeOK'
  BY <1>0, <1>1, PathFacts
  DEF Typed, WriteFails, Goto, Fault, memory, put, TypeOK, FileType, Places, Entry, IInv,
      Locals, Putting
<1>3. RegisteredBeforeContent' /\ SnapshotsComplete'
  BY <1>0, <1>1, PathFacts
  DEF Typed, WriteFails, Goto, Fault, memory, put, IInv, LedgerIsSound,
      RegisteredBeforeContent, SnapshotsComplete, Locals, Contents, Covered, Putting
<1>4. Locals'
  BY <1>0, PathFacts DEF Typed, WriteFails, Goto, Fault, memory, put, IInv, Locals, Putting
<1>5. Contents'
  BY <1>0, <1>1, PathFacts
  DEF Typed, WriteFails, Goto, Fault, memory, put, IInv, Locals, Contents, Putting, At
<1>6. Covered'
  BY <1>0, <1>1, PathFacts
  DEF Typed, WriteFails, Goto, Fault, memory, put, IInv, Locals, Covered, Contents,
      Putting
<1>7. Account'
  BY <1>0, <1>1, PathFacts
  DEF Typed, WriteFails, Goto, Fault, memory, put, IInv, Locals, Contents, Account,
      Putting, Rest, At, Held
<1>. QED
  BY <1>2, <1>3, <1>4, <1>5, <1>6, <1>7 DEF IInv, LedgerIsSound

LEMMA WriteTornKeeps ==
    ASSUME IInv, NEW bytes \in 0 .. Limit, WriteTorn(bytes)
    PROVE  IInv'
<1>0. Typed
  BY Facts
<1>a. temp \in Paths /\ bytes \in Nat \cup {Absent} /\ files' = [files EXCEPT ![temp] = bytes]
  BY <1>0, PathFacts
  DEF Typed, WriteTorn, Reset, Fault, IInv, Locals, Contents, Putting, FileType
<1>1. /\ files' \in FileType /\ files'[temp] = bytes /\ \A q \in Paths \ {temp} : files'[q] = files[q]
      /\ Bytes' \in Nat /\ At(temp) \in Nat
      /\ Bytes' = Bytes - At(temp) + IF bytes = Absent THEN 0 ELSE bytes
  BY <1>0, <1>a, OneFile DEF Typed
<1>2. TypeOK'
  <2>1. response' \in BOOLEAN
    BY Zenon DEF Typed, WriteTorn, Reset, Fault
  <2>. QED
    BY <1>0, <1>1, <2>1, PathFacts
    DEF Typed, WriteTorn, Reset, Fault, TypeOK, FileType, Places, Entry, IInv, Locals,
        Putting
<1>3. RegisteredBeforeContent' /\ SnapshotsComplete'
  BY <1>0, <1>1, PathFacts
  DEF Typed, WriteTorn, Reset, Fault, IInv, LedgerIsSound, RegisteredBeforeContent,
      SnapshotsComplete, Locals, Contents, Covered, Putting
<1>4. Locals'
  BY <1>0, PathFacts DEF Typed, WriteTorn, Reset, Fault, IInv, Locals, Putting
<1>5. Contents'
  BY <1>0, <1>1, PathFacts
  DEF Typed, WriteTorn, Reset, Fault, IInv, Locals, Contents, Putting, At
<1>6. Covered'
  BY <1>0, <1>1, PathFacts
  DEF Typed, WriteTorn, Reset, Fault, IInv, Locals, Covered, Contents, Putting
<1>7. Account'
  BY <1>0, <1>1, PathFacts
  DEF Typed, WriteTorn, Reset, Fault, IInv, Locals, Contents, Account, Putting, Rest, At,
      Held
<1>. QED
  BY <1>2, <1>3, <1>4, <1>5, <1>6, <1>7 DEF IInv, LedgerIsSound

LEMMA LinkKeeps ==
    ASSUME IInv, Link
    PROVE  IInv'
<1>0. Typed
  BY Facts
<1>a. name \in Paths /\ files[temp] \in Nat \cup {Absent} /\ files' = [files EXCEPT ![name] = files[temp]]
  BY <1>0, PathFacts
  DEF Typed, Link, Goto, memory, put, bounds, IInv, Locals, Contents, Putting, FileType
<1>1. /\ files' \in FileType /\ files'[name] = files[temp] /\ \A q \in Paths \ {name} : files'[q] = files[q]
      /\ Bytes' \in Nat /\ At(name) \in Nat
      /\ Bytes' = Bytes - At(name) + IF files[temp] = Absent THEN 0 ELSE files[temp]
  BY <1>0, <1>a, OneFile DEF Typed
<1>2. TypeOK'
  BY <1>0, <1>1, PathFacts
  DEF Typed, Link, Goto, memory, put, bounds, TypeOK, FileType, Places, Entry, IInv,
      Locals, Putting
<1>3. RegisteredBeforeContent' /\ SnapshotsComplete'
  BY <1>0, <1>1, PathFacts
  DEF Typed, Link, Goto, memory, put, bounds, IInv, LedgerIsSound,
      RegisteredBeforeContent, SnapshotsComplete, Locals, Contents, Covered, Putting
<1>4. Locals'
  BY <1>0, PathFacts DEF Typed, Link, Goto, memory, put, bounds, IInv, Locals, Putting
<1>5. Contents'
  BY <1>0, <1>1, PathFacts
  DEF Typed, Link, Goto, memory, put, bounds, IInv, Locals, Contents, Putting, At
<1>6. Covered'
  BY <1>0, <1>1, PathFacts
  DEF Typed, Link, Goto, memory, put, bounds, IInv, Locals, Covered, Contents, Putting
<1>7. Account'
  BY <1>0, <1>1, PathFacts
  DEF Typed, Link, Goto, memory, put, bounds, IInv, Locals, Contents, Account, Putting,
      Rest, At, Held
<1>. QED
  BY <1>2, <1>3, <1>4, <1>5, <1>6, <1>7 DEF IInv, LedgerIsSound

LEMMA DropTempKeeps ==
    ASSUME IInv, DropTemp
    PROVE  IInv'
<1>0. Typed
  BY Facts
<1>a. temp \in Paths /\ Absent \in Nat \cup {Absent} /\ files' = [files EXCEPT ![temp] = Absent]
  BY <1>0, PathFacts
  DEF Typed, DropTemp, Goto, memory, put, bounds, IInv, Locals, Contents, Putting,
      FileType
<1>1. /\ files' \in FileType /\ files'[temp] = Absent /\ \A q \in Paths \ {temp} : files'[q] = files[q]
      /\ Bytes' \in Nat /\ At(temp) \in Nat
      /\ Bytes' = Bytes - At(temp) + IF Absent = Absent THEN 0 ELSE Absent
  BY <1>0, <1>a, OneFile DEF Typed
<1>2. TypeOK'
  BY <1>0, <1>1, PathFacts
  DEF Typed, DropTemp, Goto, memory, put, bounds, TypeOK, FileType, Places, Entry, IInv,
      Locals, Putting
<1>3. RegisteredBeforeContent' /\ SnapshotsComplete'
  BY <1>0, <1>1, PathFacts
  DEF Typed, DropTemp, Goto, memory, put, bounds, IInv, LedgerIsSound,
      RegisteredBeforeContent, SnapshotsComplete, Locals, Contents, Covered, Putting
<1>4. Locals'
  BY <1>0, PathFacts DEF Typed, DropTemp, Goto, memory, put, bounds, IInv, Locals, Putting
<1>5. Contents'
  BY <1>0, <1>1, PathFacts
  DEF Typed, DropTemp, Goto, memory, put, bounds, IInv, Locals, Contents, Putting, At
<1>6. Covered'
  BY <1>0, <1>1, PathFacts
  DEF Typed, DropTemp, Goto, memory, put, bounds, IInv, Locals, Covered, Contents, Putting
<1>7. Account'
  BY <1>0, <1>1, PathFacts
  DEF Typed, DropTemp, Goto, memory, put, bounds, IInv, Locals, Contents, Account,
      Putting, Rest, At, Held
<1>. QED
  BY <1>2, <1>3, <1>4, <1>5, <1>6, <1>7 DEF IInv, LedgerIsSound

LEMMA DeleteUnknownKeeps ==
    ASSUME IInv, NEW p \in Paths, DeleteUnknown(p)
    PROVE  IInv'
<1>0. Typed
  BY Facts
<1>a. p \in Paths /\ Absent \in Nat \cup {Absent} /\ files' = [files EXCEPT ![p] = Absent]
  BY <1>0, PathFacts
  DEF Typed, DeleteUnknown, memory, put, bounds, Absent, IInv, Locals, Contents, Putting,
      FileType
<1>1. /\ files' \in FileType /\ files'[p] = Absent /\ \A q \in Paths \ {p} : files'[q] = files[q]
      /\ Bytes' \in Nat /\ At(p) \in Nat
      /\ Bytes' = Bytes - At(p) + IF Absent = Absent THEN 0 ELSE Absent
  BY <1>0, <1>a, OneFile DEF Typed
<1>2. TypeOK'
  BY <1>0, <1>1, PathFacts
  DEF Typed, DeleteUnknown, memory, put, bounds, Absent, TypeOK, FileType, Places, Entry,
      IInv, Locals, Putting
<1>3. RegisteredBeforeContent' /\ SnapshotsComplete'
  BY <1>0, <1>1, PathFacts
  DEF Typed, DeleteUnknown, memory, put, bounds, Absent, IInv, LedgerIsSound,
      RegisteredBeforeContent, SnapshotsComplete, Locals, Contents, Covered, Putting
<1>4. Locals'
  BY <1>0, PathFacts
  DEF Typed, DeleteUnknown, memory, put, bounds, Absent, IInv, Locals, Putting
<1>5. Contents'
  BY <1>0, <1>1, PathFacts
  DEF Typed, DeleteUnknown, memory, put, bounds, Absent, IInv, Locals, Contents, Putting,
      At
<1>6. Covered'
  BY <1>0, <1>1, PathFacts
  DEF Typed, DeleteUnknown, memory, put, bounds, Absent, IInv, Locals, Covered, Contents,
      Putting
<1>7. Account'
  BY <1>0, <1>1, PathFacts
  DEF Typed, DeleteUnknown, memory, put, bounds, Absent, IInv, Locals, Contents, Account,
      Putting, Rest, At, Held
<1>. QED
  BY <1>2, <1>3, <1>4, <1>5, <1>6, <1>7 DEF IInv, LedgerIsSound

(* Nothing has expired, or one path goes.                                   *)
LEMMA PruneKeeps ==
    ASSUME IInv, Prune
    PROVE  IInv'
<1>0. Typed
  BY Facts
<1>1. CASE pc' = "idle" /\ UNCHANGED <<files, used, entries>>
  <2>1. Bytes' = Bytes /\ files' = files
    BY <1>1, BytesKept
  <2>2. TypeOK'
    BY <1>0, <1>1 DEF Typed, Prune, put, bounds, TypeOK, FileType, Places
  <2>3. RegisteredBeforeContent' /\ SnapshotsComplete' /\ Locals' /\ Contents' /\ Covered'
    BY <1>1, <2>1 DEF Prune, put, bounds, IInv, LedgerIsSound, RegisteredBeforeContent,
       SnapshotsComplete, Locals, Contents, Covered, Putting
  <2>4. Account'
    BY <1>1, <2>1 DEF Prune, put, bounds, IInv, Account, Locals, Putting, Held
  <2>. QED
    BY <2>2, <2>3, <2>4 DEF IInv, LedgerIsSound
<1>2. CASE \E p \in Paths :
             /\ files' = [files EXCEPT ![p] = Absent]
             /\ used' = Less(used, BytesOf({p}))
             /\ entries' = [entries EXCEPT ![p] = "none"]
             /\ pc' = "removing"
  <2>1. PICK p \in Paths : /\ files' = [files EXCEPT ![p] = Absent]
                           /\ used' = Less(used, BytesOf({p}))
                           /\ entries' = [entries EXCEPT ![p] = "none"]
                           /\ pc' = "removing"
    BY <1>2
  <2>2. /\ files' \in FileType /\ files'[p] = Absent /\ \A q \in Paths \ {p} : files'[q] = files[q]
        /\ Bytes' \in Nat /\ At(p) \in Nat
        /\ Bytes' = Bytes - At(p) + IF Absent = Absent THEN 0 ELSE Absent
    BY <1>0, <2>1, OneFile DEF Typed
  <2>3. Bytes' = Bytes - At(p) /\ BytesOf({p}) = At(p)
    BY <1>0, <2>2, BytesWeigh DEF Typed
  <2>4. TypeOK'
    BY <1>0, <2>1, <2>2, <2>3
    DEF Typed, Prune, Less, put, bounds, TypeOK, FileType, Places, Entry
  <2>5. RegisteredBeforeContent' /\ SnapshotsComplete' /\ Locals' /\ Contents' /\ Covered'
    BY <1>0, <2>1, <2>2
    DEF Typed, Prune, put, bounds, IInv, LedgerIsSound, RegisteredBeforeContent,
       SnapshotsComplete, Locals, Contents, Covered, Putting, Absent
  <2>6. Account'
    BY <1>0, <2>1, <2>2, <2>3
    DEF Typed, Prune, Less, put, bounds, IInv, Account, Locals, Putting, Held
  <2>. QED
    BY <2>4, <2>5, <2>6 DEF IInv, LedgerIsSound
<1>. QED
  BY <1>1, <1>2 DEF Prune, Goto

(* What the commit does to the files and the counters.                      *)
LEMMA CommitMemoryFacts ==
    ASSUME IInv, pc = "commit", CommitMemory
    PROVE  /\ files' \in FileType /\ files'[temp] = Absent
           /\ \A p \in Paths \ {temp} : files'[p] = files[p]
           /\ entries' \in [Paths -> Entry] /\ entries'[name] = "kept" /\ entries'[temp] = "none"
           /\ \A p \in Paths \ {name, temp} : entries'[p] = entries[p]
           /\ Bytes' \in Nat /\ Bytes' = Bytes - At(temp) /\ used' = used + At(name)
           /\ reserved' = Held
           /\ name \in Names /\ temp \in Temps /\ tracked = {name, temp}
<1>0. Typed
  BY Facts
<1>1. name \in Names /\ temp \in Temps /\ tracked = {name, temp} /\ name \in Paths /\ temp \in Paths
      /\ name # temp
  BY PathFacts DEF IInv, Locals, Putting
<1>2. files' = [files EXCEPT ![temp] = Absent]
  BY <1>0, <1>1 DEF Typed, FileType, CommitMemory
<1>3. /\ files' \in FileType /\ files'[temp] = Absent /\ \A q \in Paths \ {temp} : files'[q] = files[q]
      /\ Bytes' \in Nat /\ At(temp) \in Nat
      /\ Bytes' = Bytes - At(temp) + IF Absent = Absent THEN 0 ELSE Absent
  BY <1>0, <1>1, <1>2, OneFile DEF Typed
<1>4. /\ entries' \in [Paths -> Entry] /\ entries'[name] = "kept" /\ entries'[temp] = "none"
      /\ \A p \in Paths \ {name, temp} : entries'[p] = entries[p]
  BY <1>0, <1>1 DEF Typed, CommitMemory, Entry
<1>5. used' = used + At(name)
  BY <1>0, <1>1, BytesWeigh DEF Typed, CommitMemory
<1>6. reserved' = Held
  BY <1>0, <1>1, PathFacts DEF Typed, IInv, Account, Putting, CommitMemory, Less
<1>. QED
  BY <1>0, <1>1, <1>3, <1>4, <1>5, <1>6 DEF Typed

LEMMA CommitKeeps ==
    ASSUME IInv, Commit
    PROVE  IInv'
<1>0. Typed
  BY Facts
<1>1. /\ files' \in FileType /\ files'[temp] = Absent
      /\ \A p \in Paths \ {temp} : files'[p] = files[p]
      /\ entries' \in [Paths -> Entry] /\ entries'[name] = "kept" /\ entries'[temp] = "none"
      /\ \A p \in Paths \ {name, temp} : entries'[p] = entries[p]
      /\ Bytes' \in Nat /\ Bytes' = Bytes - At(temp) /\ used' = used + At(name)
      /\ reserved' = Held
      /\ name \in Names /\ temp \in Temps /\ tracked = {name, temp}
  BY CommitMemoryFacts DEF Commit
<1>2. TypeOK'
  BY <1>0, <1>1 DEF Typed, Commit, Idle, bounds, TypeOK, FileType, Places
<1>3. RegisteredBeforeContent' /\ SnapshotsComplete'
  BY <1>0, <1>1, PathFacts DEF Typed, Commit, IInv, LedgerIsSound, RegisteredBeforeContent,
     SnapshotsComplete, Covered, Absent
<1>4. Locals' /\ Contents'
  BY DEF Commit, Idle, Locals, Contents, Putting
<1>5. Covered'
  BY <1>0, <1>1, PathFacts DEF Typed, Commit, Idle, IInv, Covered, Putting, Absent
<1>6. Account'
  BY <1>0, <1>1, PathFacts DEF Typed, Commit, Idle, IInv, Account, Rest, Putting, Held
<1>. QED
  BY <1>2, <1>3, <1>4, <1>5, <1>6 DEF IInv, LedgerIsSound

LEMMA CommitFailsKeeps ==
    ASSUME IInv, CommitFails
    PROVE  IInv'
<1>0. Typed
  BY Facts
<1>1. pc = "commit" /\ pc' = "undo" /\ UNCHANGED <<ledger, response, name, temp, tracked, days>>
      /\ faults' \in 0 .. MaxFaults
  BY <1>0 DEF Typed, CommitFails, Goto, put, Fault
<1>2. name \in Names /\ temp \in Temps /\ tracked = {name, temp} /\ name \in Paths /\ temp \in Paths
  BY <1>1, PathFacts DEF IInv, Locals, Putting
<1>3. Locals'
  BY <1>1, <1>2 DEF Locals, Putting
<1>4. CASE CommitMemory
  <2>1. /\ files' \in FileType /\ files'[temp] = Absent
        /\ \A p \in Paths \ {temp} : files'[p] = files[p]
        /\ entries' \in [Paths -> Entry] /\ entries'[name] = "kept" /\ entries'[temp] = "none"
        /\ \A p \in Paths \ {name, temp} : entries'[p] = entries[p]
        /\ Bytes' \in Nat /\ Bytes' = Bytes - At(temp) /\ used' = used + At(name)
        /\ reserved' = Held
    BY <1>1, <1>4, CommitMemoryFacts
  <2>2. TypeOK'
    BY <1>0, <1>1, <2>1 DEF Typed, TypeOK, FileType, Places
  <2>3. RegisteredBeforeContent' /\ SnapshotsComplete'
    BY <1>0, <1>1, <1>2, <2>1, PathFacts
    DEF Typed, IInv, LedgerIsSound, RegisteredBeforeContent,
       SnapshotsComplete, Absent
  <2>4. Contents'
    BY <1>0, <1>1, <1>2, <2>1, PathFacts DEF Typed, Contents, Putting, At
  <2>5. Covered'
    BY <1>0, <1>1, <1>2, <2>1 DEF Typed, IInv, Covered, Putting, Absent
  <2>6. Account'
    <3>1. At(name)' = At(name) /\ At(temp)' = 0 /\ Held' = Held
      BY <1>1, <1>2, <2>1, PathFacts DEF At, Held
    <3>2. Rest <= used /\ Rest + Held + 2 * Size[name] <= Limit /\ Bytes + Held <= Limit
      BY <1>1 DEF IInv, Account, Putting
    <3>3. Rest' = Bytes' - At(name) /\ Rest = Bytes - At(name) - At(temp)
      BY <1>0, <2>1, <3>1 DEF Rest, Typed
    <3>4. Bytes' <= used' /\ Rest' + Held + 2 * Size[name] <= Limit /\ Bytes' + Held <= Limit
      BY <1>0, <1>2, <2>1, <3>2, <3>3, PathFacts DEF Typed
    <3>. QED
      BY <1>1, <2>1, <3>1, <3>4 DEF Account, Putting
  <2>. QED
    BY <1>3, <2>2, <2>3, <2>4, <2>5, <2>6 DEF IInv, LedgerIsSound
<1>5. CASE UNCHANGED <<files, entries, used, reserved>>
  <2>1. Bytes' = Bytes /\ files' = files
    BY <1>5, BytesKept
  <2>2. TypeOK'
    BY <1>0, <1>1, <1>5 DEF Typed, TypeOK, FileType, Places
  <2>3. RegisteredBeforeContent' /\ SnapshotsComplete' /\ Contents' /\ Covered'
    BY <1>1, <1>2, <1>5 DEF IInv, LedgerIsSound, RegisteredBeforeContent, SnapshotsComplete,
       Contents, Covered, Putting, At
  <2>4. Account'
    BY <1>1, <1>5, <2>1 DEF IInv, Account, Putting, Rest, At, Held
  <2>. QED
    BY <1>3, <2>2, <2>3, <2>4 DEF IInv, LedgerIsSound
<1>. QED
  BY <1>4, <1>5 DEF CommitFails

(* Undo leaves x bytes of the snapshot's two files, and counts them.        *)
LEMMA UndoBytes ==
    ASSUME IInv, NEW left, Undo(left)
    PROVE  /\ files' \in FileType
           /\ \A p \in Paths : files'[p] \in {files[p], Absent}
           /\ \A p \in tracked \ left : files'[p] = Absent
           /\ \A p \in Paths \ (tracked \cup {temp}) : files'[p] = files[p]
           /\ used' \in Nat /\ Bytes' \in Nat
           /\ \E x \in Nat : /\ Bytes' = Rest + x /\ used' >= used + x
                             /\ x <= 2 * Size[name] /\ x <= At(name) + At(temp)
<1>0. Typed
  BY Facts
<1>1. /\ pc = "undo" /\ name \in Names /\ name \in Paths /\ name # temp
      /\ tracked \subseteq {name, temp} \cap Paths
      /\ Size[name] \in Nat
      /\ temp \notin tracked => At(temp) = 0
      /\ name \notin tracked => At(name) = 0
      /\ At(temp) <= Size[name]
  BY <1>0, PathFacts DEF Typed, Undo, IInv, Locals, Contents, Putting
<1>2. At(name) <= Size[name]
  <2>1. files[name] = Absent \/ files[name] = Size[name]
    BY <1>1 DEF IInv, LedgerIsSound, SnapshotsComplete
  <2>. QED
    BY <1>1, <2>1 DEF At
<1>3. /\ left \subseteq (tracked \cup {temp}) \cap Present
      /\ files' = [p \in Paths |-> IF p \in (tracked \cup {temp}) \ left THEN Absent ELSE files[p]]
  BY DEF Undo
<1>4. /\ files' \in FileType
      /\ \A p \in Paths : files'[p] \in {files[p], Absent}
      /\ \A p \in tracked \ left : files'[p] = Absent
      /\ \A p \in Paths \ (tracked \cup {temp}) : files'[p] = files[p]
  BY <1>0, <1>3 DEF Typed, FileType
<1>5. PICK L : L = left \cap tracked
  OBVIOUS
<1>6. PICK a \in Nat, b \in Nat : /\ a = IF name \in L THEN At(name) ELSE 0
                                  /\ b = IF temp \in L THEN At(temp) ELSE 0
  BY <1>0 DEF Typed
<1>7. Bytes' \in Nat /\ Bytes' = Rest + a + b
  <2>1. (IF files'[name] = Absent THEN 0 ELSE files'[name]) = a
    BY <1>1, <1>3, <1>5, <1>6 DEF At, Present
  <2>2. CASE temp \in Temps
    <3>1. temp \in Paths
      BY <2>2, PathFacts
    <3>2. (IF files'[temp] = Absent THEN 0 ELSE files'[temp]) = b
      BY <1>1, <1>3, <1>5, <1>6, <3>1 DEF At, Present
    <3>3. \A p \in Paths \ {name, temp} : files'[p] = files[p]
      BY <1>1, <1>4
    <3>4. /\ Bytes' \in Nat
          /\ Bytes' = Bytes - At(name) - At(temp) + (IF files'[name] = Absent THEN 0 ELSE files'[name])
                      + (IF files'[temp] = Absent THEN 0 ELSE files'[temp])
      BY <1>0, <1>1, <1>4, <3>1, <3>3, TwoFiles DEF Typed
    <3>. QED
      BY <1>0, <2>1, <3>2, <3>4 DEF Rest, Typed
  <2>3. CASE temp \notin Temps
    <3>1. temp = NoPath /\ temp \notin Paths /\ At(temp) = 0
      BY <1>0, <2>3, PathFacts DEF Typed, At
    <3>2. b = 0
      BY <1>6, <3>1
    <3>3. PICK v : v = files'[name]
      OBVIOUS
    <3>4. v \in Nat \cup {Absent} /\ files' = [files EXCEPT ![name] = v]
      BY <1>0, <1>1, <1>4, <3>1, <3>3 DEF Typed, FileType
    <3>5. Bytes' \in Nat /\ Bytes' = Bytes - At(name) + IF v = Absent THEN 0 ELSE v
      BY <1>0, <1>1, <3>4, OneFile DEF Typed
    <3>. QED
      BY <1>0, <2>1, <3>1, <3>2, <3>3, <3>5 DEF Rest, Typed
  <2>. QED
    BY <2>2, <2>3
<1>8. PICK c \in Nat : c = Cardinality(L) /\ BytesOf(L) = a + b /\ a + b <= c * (2 * Size[name])
  <2>1. L \subseteq {name, temp} /\ L \subseteq Paths
    BY <1>1, <1>5
  <2>2. PICK w : w = Weight(files)
    OBVIOUS
  <2>3. BytesOf(L) = SumFunctionOnSet(w, L) /\ \A p \in Paths : At(p) = w[p] /\ w[p] \in Int
    <3>1. files \in FileType /\ L \in SUBSET Paths
      BY <1>0, <2>1 DEF Typed
    <3>2. \A p \in Paths : w[p] \in Nat
      BY <2>2, <3>1, WeightNat
    <3>3. BytesOf(L) = SumFunctionOnSet(w, L)
      BY <2>2, <3>1, BytesWeigh
    <3>4. \A p \in Paths : At(p) = w[p]
      BY <2>2, <3>1, BytesWeigh
    <3>. QED
      BY <3>2, <3>3, <3>4
  <2>4. CASE L = {}
    <3>1. a = 0 /\ b = 0
      BY <1>6, <2>4
    <3>2. Cardinality(L) = 0 /\ SumFunctionOnSet(w, L) = 0
      BY <2>4, FS_EmptySet, SumEmpty
    <3>3. a + b = 0 /\ 0 * (2 * Size[name]) = 0 /\ 0 \in Nat
      BY <1>1, <3>1
    <3>. QED
      BY <2>3, <3>2, <3>3
  <2>5. CASE L = {name}
    <3>1. a = At(name) /\ b = 0
      BY <1>1, <1>6, <2>5
    <3>2. Cardinality(L) = 1
      BY <2>5, FS_Singleton, Zenon
    <3>3. SumFunctionOnSet(w, L) = a
      BY <1>1, <2>3, <2>5, <3>1, SumOne
    <3>4. a + b = a /\ a + b <= 1 * (2 * Size[name]) /\ 1 \in Nat
      BY <1>1, <1>2, <3>1
    <3>. QED
      BY <2>3, <3>2, <3>3, <3>4
  <2>6. CASE L = {temp}
    <3>0. temp \in Paths
      BY <2>1, <2>6
    <3>1. b = At(temp) /\ a = 0
      BY <1>1, <1>6, <2>6
    <3>2. Cardinality(L) = 1
      BY <2>6, FS_Singleton, Zenon
    <3>3. SumFunctionOnSet(w, L) = b
      BY <2>3, <2>6, <3>0, <3>1, SumOne
    <3>4. a + b = b /\ a + b <= 1 * (2 * Size[name]) /\ 1 \in Nat
      BY <1>1, <3>1
    <3>. QED
      BY <2>3, <3>2, <3>3, <3>4
  <2>7. CASE L = {name, temp}
    <3>0. temp \in Paths
      BY <2>1, <2>7
    <3>1. a = At(name) /\ b = At(temp)
      BY <1>6, <2>7
    <3>2. Cardinality(L) = 2
      <4>1. IsFiniteSet({name}) /\ Cardinality({name}) = 1 /\ {name} \cup {temp} = L
            /\ temp \notin {name}
        BY <1>1, <2>7, FS_Singleton
      <4>. QED
        BY <4>1, FS_AddElement
    <3>3. SumFunctionOnSet(w, L) = a + b
      <4>1. w[name] \in Int /\ w[temp] \in Int /\ a = w[name] /\ b = w[temp]
        BY <1>1, <2>3, <3>0, <3>1
      <4>2. SumFunctionOnSet(w, {name, temp}) = w[name] + w[temp]
        BY <1>1, <4>1, SumTwo
      <4>. QED
        BY <2>7, <4>1, <4>2
    <3>4. a + b <= 2 * (2 * Size[name]) /\ 2 \in Nat
      BY <1>1, <1>2, <3>1
    <3>. QED
      BY <2>3, <3>2, <3>3, <3>4
  <2>. QED
    BY <2>1, <2>4, <2>5, <2>6, <2>7
<1>9. used' \in Nat /\ used' >= used + (a + b)
  <2>1. used' = used + BytesOf(L) \/ used' = used + Cardinality(L) * 2 * Size[name]
    BY <1>5 DEF Undo
  <2>2. CASE used' = used + BytesOf(L)
    BY <1>0, <1>6, <1>8, <2>2 DEF Typed
  <2>3. CASE used' = used + Cardinality(L) * 2 * Size[name]
    <3>1. c * 2 * Size[name] = c * (2 * Size[name]) /\ c * (2 * Size[name]) \in Nat
      BY <1>1, <1>8
    <3>. QED
      BY <1>0, <1>6, <1>8, <2>3, <3>1 DEF Typed
  <2>. QED
    BY <2>1, <2>2, <2>3
<1>10. PICK x \in Nat : x = a + b
  BY <1>6
<1>11. x <= 2 * Size[name] /\ x <= At(name) + At(temp)
  BY <1>0, <1>1, <1>2, <1>6, <1>10 DEF Typed
<1>12. Bytes' = Rest + x /\ used' >= used + x
  BY <1>0, <1>6, <1>7, <1>9, <1>10 DEF Rest, Typed
<1>. QED
  BY <1>4, <1>7, <1>9, <1>11, <1>12

LEMMA UndoKeeps ==
    ASSUME IInv, NEW left \in SUBSET Paths, Undo(left)
    PROVE  IInv'
<1>0. Typed
  BY Facts
<1>1. /\ files' \in FileType
      /\ \A p \in Paths : files'[p] \in {files[p], Absent}
      /\ \A p \in tracked \ left : files'[p] = Absent
      /\ used' \in Nat /\ Bytes' \in Nat
      /\ \A p \in Paths \ (tracked \cup {temp}) : files'[p] = files[p]
  BY UndoBytes
<1>2. PICK x \in Nat : /\ Bytes' = Rest + x /\ used' >= used + x
                       /\ x <= 2 * Size[name] /\ x <= At(name) + At(temp)
  BY UndoBytes
<1>3. /\ pc = "undo" /\ pc' = "release" /\ UNCHANGED <<ledger, response, name, temp, tracked, days>>
      /\ faults' \in 0 .. MaxFaults
      /\ reserved' = Less(reserved, 2 * Size[name])
      /\ entries' = [p \in Paths |-> IF p \in tracked \ left THEN "none" ELSE entries[p]]
  BY <1>0 DEF Typed, Undo, Goto, put, Fault
<1>4. name \in Names /\ Size[name] \in Nat
  BY <1>3, PathFacts DEF IInv, Locals
<1>5. reserved' \in Nat /\ reserved' <= Held
  <2>1. reserved = Held + 2 * Size[name] \/ reserved = Held
    BY <1>3 DEF IInv, Account
  <2>. QED
    BY <1>0, <1>3, <1>4, <2>1 DEF Typed, Less
<1>6. entries' \in [Paths -> Entry]
  BY <1>0, <1>3 DEF Typed, Entry
<1>7. TypeOK'
  BY <1>0, <1>1, <1>3, <1>5, <1>6 DEF Typed, TypeOK, FileType, Places
<1>8. RegisteredBeforeContent' /\ SnapshotsComplete'
  BY <1>0, <1>1, <1>3, PathFacts
  DEF Typed, IInv, LedgerIsSound, RegisteredBeforeContent, SnapshotsComplete, Absent
<1>9. Locals' /\ Contents'
  BY <1>3, <1>4 DEF Locals, Contents, Putting
<1>10. Covered'
  <2>1. \A p \in Paths : files'[p] > 0 => entries'[p] # "none"
    <3>1. \A p \in Paths : files'[p] > 0 => files[p] > 0 /\ p \notin tracked \ left
      BY <1>1 DEF Absent
    <3>2. \A p \in Paths : files[p] > 0 => entries[p] # "none"
      BY <1>3 DEF IInv, Covered
    <3>. QED
      BY <1>3, <3>1, <3>2
  <2>. QED
    BY <1>3, <2>1 DEF Covered, Putting
<1>11. Account'
  <2>1. Rest + Held + 2 * Size[name] <= Limit /\ Held' = Held
    BY <1>3 DEF IInv, Account, Held
  <2>2. Bytes' + Held <= Limit
    BY <1>0, <1>2, <1>4, <2>1 DEF Typed, Rest
  <2>3. Rest <= used \/ Bytes <= used
    BY <1>3 DEF IInv, Account
  <2>4. Bytes' <= used'
    BY <1>0, <1>1, <1>2, <2>3 DEF Typed, Rest
  <2>. QED
    BY <1>3, <1>5, <2>1, <2>2, <2>4 DEF Account, Putting
<1>. QED
  BY <1>7, <1>8, <1>9, <1>10, <1>11 DEF IInv, LedgerIsSound

---------------------------------------------------------------------------
LEMMA InitIInv ==
    ASSUME Init
    PROVE  IInv
<1>1. files \in FileType /\ \A p \in Paths : files[p] = Absent
  BY DEF Init, FileType
<1>2. Bytes = 0
  <2>1. PICK w : w = Weight(files)
    OBVIOUS
  <2>2. \A p \in Paths : w[p] = 0
    BY <1>1, <2>1 DEF Weight
  <2>3. SumFunctionOnSet(w, Paths) = 0
    BY <2>2, PathFacts, SumZero
  <2>. QED
    BY <1>1, <2>1, <2>3, BytesWeigh
<1>3. TypeOK
  <2>1. response \in BOOLEAN
    BY Zenon DEF Init
  <2>. QED
    BY <1>1, <2>1, CacheBoundsAssumption DEF Init, TypeOK, FileType, Places, Entry
<1>4. RegisteredBeforeContent /\ SnapshotsComplete
  BY <1>1, PathFacts DEF RegisteredBeforeContent, SnapshotsComplete, Absent
<1>5. Locals /\ Contents /\ Covered
  BY DEF Init, Locals, Contents, Covered, Putting
<1>6. Account
  BY <1>2, SizeAssumption DEF Init, Account, Held, Putting
<1>. QED
  BY <1>3, <1>4, <1>5, <1>6 DEF IInv, LedgerIsSound

LEMMA StutterKeeps ==
    ASSUME IInv, UNCHANGED vars
    PROVE  IInv'
<1>1. Bytes' = Bytes
  BY BytesKept DEF vars
<1>2. UNCHANGED <<files, ledger, entries, used, reserved, response, pc, name, temp, tracked, faults, days>>
  BY DEF vars, memory, put, bounds
<1>3. LedgerIsSound' /\ Locals' /\ Contents' /\ Covered'
  BY <1>2 DEF IInv, LedgerIsSound, TypeOK, RegisteredBeforeContent, SnapshotsComplete, Locals,
     Contents, Covered, At
<1>4. Account'
  BY <1>1, <1>2 DEF IInv, Account, Rest, At, Held
<1>. QED
  BY <1>3, <1>4 DEF IInv

LEMMA Inductive ==
    ASSUME IInv, [Next]_vars
    PROVE  IInv'
<1>1. CASE Open \/ Prune \/ SaveRemoval \/ PruneFails \/ Close \/ ReserveResponse \/ ReleaseResponse
  BY <1>1, OpenKeeps, PruneKeeps, SaveRemovalKeeps, PruneFailsKeeps, CloseKeeps,
     ReserveResponseKeeps, ReleaseResponseKeeps
<1>2. CASE \/ \E n \in Names : Reserve(n)
           \/ \E t \in Temps : CreateTemp(t)
           \/ RegisterTemp \/ TrackName \/ TrackConflict \/ TrackFails
  BY <1>2, ReserveKeeps, CreateTempKeeps, RegisterTempKeeps, TrackNameKeeps, TrackConflictKeeps,
     TrackFailsKeeps
<1>3. CASE \/ WriteTemp \/ Link \/ StepFails \/ DropTemp \/ DropTempFails
           \/ \E bytes \in 0 .. Limit : WriteFails(bytes) \/ WriteTorn(bytes)
  BY <1>3, WriteTempKeeps, LinkKeeps, StepFailsKeeps, DropTempKeeps, DropTempFailsKeeps,
     WriteFailsKeeps, WriteTornKeeps
<1>4. CASE Commit \/ CommitFails \/ \E left \in SUBSET Paths : Undo(left)
  BY <1>4, CommitKeeps, CommitFailsKeeps, UndoKeeps
<1>5. CASE Release \/ ReleaseFails \/ Crash \/ DaysPass \/ \E p \in Paths : DeleteUnknown(p)
  BY <1>5, ReleaseKeeps, ReleaseFailsKeeps, CrashKeeps, DaysPassKeeps, DeleteUnknownKeeps
<1>6. CASE UNCHANGED vars
  BY <1>6, StutterKeeps
<1>. QED
  BY <1>1, <1>2, <1>3, <1>4, <1>5, <1>6 DEF Next

LEMMA Invariance == Spec => []IInv
<1>1. Init => IInv
  BY InitIInv
<1>2. IInv /\ [Next]_vars => IInv'
  BY Inductive
<1>. QED
  BY <1>1, <1>2, PTL DEF Spec

---------------------------------------------------------------------------
(* Whatever step fails or is cut off by a crash, a file with content has an *)
(* entry in .cache-ledger.json and a snapshot is missing or complete: the   *)
(* next command can open the cache (put_bytes, track_inner, commit, Drop).  *)
THEOREM LedgerStaysSound == Spec => []LedgerIsSound
<1>1. IInv => LedgerIsSound
  BY DEF IInv
<1>. QED
  BY <1>1, Invariance, PTL

(* The quota holds for every limit and every size of a snapshot: no byte    *)
(* escapes the account, and the files with the room held for a response     *)
(* never exceed the limit, also after a commit that failed halfway          *)
(* (CacheQuota, CacheReservation).                                          *)
THEOREM BytesStayAccounted == Spec => []BytesAreAccounted
<1>1. ASSUME IInv
      PROVE  BytesAreAccounted
  <2>0. Typed
    BY <1>1, Facts
  <2>1. WithinLimit
    BY <1>1 DEF IInv, Account, WithinLimit, Held, Bytes
  <2>2. EveryByteIsCounted
    <3>1. CASE pc \in {"closed", "pruning", "removing", "idle", "release"}
      BY <1>1, <2>0, <3>1 DEF Typed, IInv, Account, EveryByteIsCounted, Bytes
    <3>2. CASE pc \in Putting \cup {"undo"}
      <4>1. name \in Names /\ Size[name] \in Nat /\ name \in Paths
        BY <1>1, <3>2, PathFacts DEF IInv, Locals, Putting
      <4>2. At(temp) <= Size[name]
        BY <1>1, <3>2 DEF IInv, Contents
      <4>3. files[name] = Absent \/ files[name] = Size[name]
        BY <1>1, <4>1 DEF IInv, LedgerIsSound, SnapshotsComplete
      <4>4. At(name) <= Size[name]
        BY <4>1, <4>3 DEF At
      <4>5. \/ reserved = Held + 2 * Size[name] /\ Rest <= used
            \/ reserved = Held /\ Bytes <= used
        BY <1>1, <3>2 DEF IInv, Account, Putting
      <4>6. Bytes <= used + reserved
        BY <2>0, <4>1, <4>2, <4>4, <4>5 DEF Typed, Rest
      <4>. QED
        BY <4>6 DEF EveryByteIsCounted, Bytes
    <3>. QED
      BY <2>0, <3>1, <3>2 DEF Typed, Places, Putting
  <2>. QED
    BY <2>1, <2>2 DEF BytesAreAccounted
<1>. QED
  BY <1>1, Invariance, PTL

(* A step removes or rewrites no snapshot that the ledger says is kept.     *)
LEMMA KeptStep ==
    ASSUME IInv, [Next]_vars, NEW n \in Names, ledger[n] = "kept", files[n] # Absent
    PROVE  files'[n] = files[n]
<1>0. Typed
  BY Facts
<1>1. n \in Paths /\ n \notin Temps /\ files \in FileType
  BY <1>0, PathFacts DEF Typed
<1>2. n \notin tracked \/ pc \notin Putting \cup {"undo"}
  BY DEF IInv, Covered
<1>3. temp # n
  BY <1>0, <1>1, PathFacts DEF Typed
<1>4. CASE UNCHANGED files
  BY <1>4
<1>5. CASE Prune
  BY <1>1, <1>5 DEF Prune, IInv, Covered, FileType
<1>6. CASE \E t \in Temps : CreateTemp(t)
  BY <1>1, <1>6 DEF CreateTemp, FileType
<1>7. CASE WriteTemp \/ DropTemp \/ \E bytes \in 0 .. Limit : WriteFails(bytes) \/ WriteTorn(bytes)
  BY <1>1, <1>3, <1>7 DEF WriteTemp, DropTemp, WriteFails, WriteTorn, FileType
<1>8. CASE Link
  BY <1>1, <1>8 DEF Link, IInv, Contents, FileType
<1>9. CASE Commit \/ CommitFails
  BY <1>0, <1>1, <1>2, <1>9 DEF Commit, CommitFails, CommitMemory, Putting
<1>10. ASSUME NEW left \in SUBSET Paths, Undo(left)
       PROVE  files'[n] = files[n]
  BY <1>1, <1>2, <1>3, <1>10 DEF Undo
<1>11. ASSUME NEW p \in Paths, DeleteUnknown(p)
       PROVE  files'[n] = files[n]
  BY <1>1, <1>11 DEF DeleteUnknown, FileType
<1>12. CASE Open \/ SaveRemoval \/ PruneFails \/ Close \/ ReserveResponse \/ ReleaseResponse
            \/ (\E m \in Names : Reserve(m)) \/ RegisterTemp \/ TrackName \/ TrackConflict \/ TrackFails
            \/ StepFails \/ DropTempFails \/ Release \/ ReleaseFails \/ Crash \/ DaysPass
            \/ UNCHANGED vars
  BY <1>12 DEF Open, SaveRemoval, PruneFails, Close, ReserveResponse, ReleaseResponse, Reserve,
     RegisterTemp, TrackName, TrackConflict, TrackFails, StepFails, DropTempFails, Release,
     ReleaseFails, Crash, DaysPass, vars
<1>. QED
  BY <1>5, <1>6, <1>7, <1>8, <1>9, <1>10, <1>11, <1>12 DEF Next

(* A snapshot that a command has committed stays until it expires: no       *)
(* failed put, no clean-up and no recovery of a later command removes it    *)
(* (commit, Drop, prune_snapshots).                                         *)
THEOREM CommittedSnapshotsStay == Spec => CommittedStays
<1>. DEFINE Stays == \A n \in Names : ledger[n] = "kept" /\ files[n] # Absent => files'[n] = files[n]
<1>1. IInv /\ [Next]_vars => [Stays]_vars
  BY KeptStep
<1>2. Spec => [][Stays]_vars
  BY <1>1, Invariance, PTL DEF Spec
<1>. QED
  BY <1>2 DEF CommittedStays

=============================================================================
