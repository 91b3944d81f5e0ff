------------------------- MODULE ScanSchedulerProofs -------------------------
(***************************************************************************)
(* What a budgeted scan promises, for any files, settings, quotas, number  *)
(* of workers and changes of the sources: its texts are of the files that  *)
(* discovery saw, its rows are accepted by the store and its outcome says  *)
(* what happened, a refill round only adds to what was done, no quota is   *)
(* exceeded in any round, and what was admitted fits the context.          *)
(*                                                                         *)
(* A file is settled when the admission has decided on it for the current  *)
(* round, and its decision then follows from its plan and its verdict.     *)
(* A file that waits, in the queue, among the tasks or in the wave, waits  *)
(* once and has no result: the waves may be taken in any order because no  *)
(* file is ever handed out twice.  A rendered section fits its reservation *)
(* because a reservation is the widest form of a section, and the whole    *)
(* fits because no step hands out more than the budget still has.          *)
(***************************************************************************)
EXTENDS ScanScheduler, FiniteSetTheorems, WellFoundedInduction, TLAPS

(* The elements of a sequence, and that none occurs twice.                  *)
Elems(s) == {s[k] : k \in 1 .. Len(s)}
Distinct(s) == \A k, l \in 1 .. Len(s) : s[k] = s[l] => k = l

Verdictless == {"none", "by_budget"}
Answered == {"text", "no_text"}
Refused == {"unknown", "error"}

(* A plan that TakeSlot makes for a file.                                   *)
PlanActs == {"admit", "not_parsed", "reject"}
OmitWhys == BudgetReasons \cup {"file_size_policy", "legacy_extension_disabled"}
RejectWhys == {"profile_route_invariant", "source_guard_unavailable"}
Plans == [act : PlanActs, why : OmitWhys \cup RejectWhys \cup Routes,
          classify : {"not_pdf", "by_budget", "classify"}, pages : Nat]
PlanOf(f, p) ==
    /\ p \in Plans
    /\ p.classify # "not_pdf" => Verdict(f) = "pdf" /\ f.guard
    /\ p.classify = "classify" <=> (p.act = "admit" /\ Verdict(f) = "pdf")
    /\ p.classify = "classify" => p.pages > 0
    /\ p.act = "admit" => p.why = Verdict(f) /\ p.why \in Routes
    /\ p.act = "not_parsed" => p.why \in OmitWhys
    /\ p.act = "reject" => p.why \in RejectWhys /\ (Verdict(f) # "pdf" \/ ~f.guard)

(* A decision that Admit makes on a plan and a verdict.                     *)
DecisionActs == PlanActs \cup {"none", "classifier_failed"}
DecisionWhys == OmitWhys \cup RejectWhys \cup Routes \cup {"none", "error", "unknown"}
Decisions == [act : DecisionActs, why : DecisionWhys, reserved : Int]
Decided(p, c, d) ==
    /\ d \in Decisions
    /\ p.act # "admit" => d.act = p.act /\ d.why = p.why
    /\ p.act = "admit" /\ (p.classify = "not_pdf" \/ c \in Answered) =>
          \/ d.act = "admit" /\ d.why = p.why
          \/ d.act = "not_parsed" /\ d.why \in BudgetReasons
    /\ p.act = "admit" /\ p.classify # "not_pdf" /\ c \notin Answered =>
          d.act = "classifier_failed" /\ d.why = IF c = "error" THEN "error" ELSE "unknown"

ClassCodes == {"none", "SOURCE_VERSION_CHANGED", "PARSER_TIMEOUT", "PARSER_FAILED", "PDF_PROTECTED"}
Classes == [s : Verdictless \cup Answered \cup Refused, code : ClassCodes]

Audits == [s : Verdictless \cup Answered \cup Refused, cache : {"none", "not_eligible", "fresh", "miss"},
           examined : Int, run : Int, charged : Int, attempts : Int]

(* What a classifier answers for a file of a plan.                          *)
Verdictions == [s : Answered \cup Refused, code : ClassCodes, examined : Int, attempts : Nat]
Verdicted(f, p, o) ==
    LET window == Least(f.pages, p.pages)
    IN /\ o \in Verdictions
       /\ \/ /\ o.s \in Answered /\ o.code = "none" /\ o.attempts \in {1, 2}
             /\ IF o.s = "text" THEN o.examined \in 1 .. window ELSE o.examined = window
          \/ o.s \in Refused /\ o.code # "none" /\ o.attempts \in {0, 1} /\ o.examined = -1

(* A result that is not NoResult, and what a parser answers.                *)
ResultCodes == {"none", "SOURCE_VERSION_CHANGED", "PARSER_TIMEOUT", "PARSER_FAILED"}
Results == [status : {"none", "success", "error", "timeout"}, code : ResultCodes, attempts : Nat,
            hit : BOOLEAN, fresh : BOOLEAN]
ResultOf(r) ==
    /\ r \in Results
    /\ r.status = "none" => r = NoResult
    /\ r.status = "success" => r.code = "none" /\ IF r.hit THEN r.attempts = 0 ELSE r.attempts > 0
    /\ r.status \in {"error", "timeout"} => r.code # "none" /\ ~r.hit
    /\ r.code = "SOURCE_VERSION_CHANGED" => r.status = "error"

WaveItems(n) == [i : 1 .. n, out : {Pending} \cup Verdictions \cup Results]

Types ==
    /\ scan \in Scans
    /\ pc \in {"classify", "parse", "refill", "finish", "done"}
    /\ changed \subseteq Index /\ runtime \subseteq Index /\ taint \subseteq Index
    /\ draft \subseteq Index /\ round \in Nat
    /\ queue \in Seq(Index) /\ tasks \in Seq(Index)
    /\ wave \in Seq(WaveItems(Len(Files)))
    /\ plan \in [Index -> Plans]
    /\ cls \in [Index -> Classes]
    /\ audit \in [Index -> Audits]
    /\ adm \in [Index -> Decisions]
    /\ result \in [Index -> Results]
    /\ cache \in [Index -> {"none", "good", "bad"}]

PlanInv == \A i \in Index : PlanOf(Files[i], plan[i])

(* Where a file waits.                                                      *)
Queued == Elems(queue)
Tasked == Elems(tasks)
Flying == {wave[k].i : k \in 1 .. Len(wave)}
Waiting == Queued \cup Tasked \cup Flying

WaitInv ==
    /\ Distinct(queue) /\ Distinct(tasks)
    /\ \A k, l \in 1 .. Len(wave) : wave[k].i = wave[l].i => k = l
    /\ Queued \cap Tasked = {} /\ Queued \cap Flying = {} /\ Tasked \cap Flying = {}
    /\ pc \in {"refill", "finish"} => queue = <<>> /\ tasks = <<>> /\ wave = <<>>

(* The classifications.                                                     *)
ClassifyInv ==
    pc = "classify" =>
        /\ \A i \in Waiting : /\ plan[i].classify # "not_pdf" /\ i \in draft
                              /\ cls[i].s \in Verdictless /\ i \notin runtime
        /\ \A i \in Tasked \cup Flying : plan[i].classify = "classify"
        /\ \A i \in draft : /\ adm[i].act # "admit" /\ result[i].status = "none"
                            /\ plan[i].classify = "classify" =>
                                 i \in Waiting \/ i \in runtime \/ cls[i].s \notin Verdictless
        /\ \A k \in 1 .. Len(wave) :
              wave[k].out # Pending => Verdicted(Files[wave[k].i], plan[wave[k].i], wave[k].out)
DraftInv ==
    round = 0 => draft = Index /\ (pc = "classify" => \A i \in Index : adm[i].act = "none")

(* A file whose decision stands.                                            *)
Settled(i) ==
    /\ adm[i].act = "none" => i \in runtime \/ plan[i].classify = "by_budget"
    /\ adm[i].act # "none" => Decided(plan[i], cls[i].s, adm[i])
    /\ plan[i].classify = "classify" => i \in runtime \/ cls[i].s \notin Verdictless
SettledInv ==
    \A i \in Index : (pc \in {"parse", "refill", "finish"} \/ (pc = "classify" /\ i \notin draft)) => Settled(i)

(* A verdict and its audit.                                                 *)
Audited(i) ==
    /\ cls[i].s # "none" => Verdict(Files[i]) = "pdf" /\ Files[i].guard
    /\ cls[i].s \notin Verdictless => plan[i].classify = "classify"
    /\ cls[i].s \in Answered => audit[i].s = cls[i].s
    /\ audit[i].s \notin Verdictless => audit[i].s = cls[i].s
    /\ audit[i].s # "none" => AuditValid(audit[i], Files[i])
    /\ cls[i].code # "none" => cls[i].s \in Refused
AuditInv == \A i \in Index : Audited(i)

(* The parses.                                                              *)
NoText(i) == adm[i].why = "pdf" /\ cls[i].s = "no_text"
ParseInv ==
    pc = "parse" =>
        /\ \A i \in Waiting : adm[i].act = "admit" /\ result[i].status = "none"
        /\ \A i \in Tasked \cup Flying : i \notin runtime /\ ~NoText(i)
        /\ \A i \in Flying : i \notin taint
        /\ \A k \in 1 .. Len(wave) :
              wave[k].out # Pending => ResultOf(wave[k].out) /\ wave[k].out.status # "none" /\ ~wave[k].out.hit
ResultInv ==
    \A i \in Index :
        /\ ResultOf(result[i])
        /\ result[i].status # "none" => adm[i].act = "admit" /\ i \notin runtime /\ ~NoText(i)
        /\ i \in taint => result[i].status = "none" \/ result[i].code = "SOURCE_VERSION_CHANGED"
        /\ pc # "done" /\ adm[i].act = "admit" =>
              \/ result[i].status # "none" \/ i \in runtime \/ NoText(i)
              \/ pc = "parse" /\ i \in Waiting

(* A changed file without a result failed its classification; a file that   *)
(* the deadline stopped has no verdict, or was admitted on one.             *)
TaintInv == \A i \in taint : result[i].status = "none" => cls[i].s = "error"
StopInv ==
    /\ runtime # {} => stopped
    /\ \A i \in runtime : cls[i].s \in Verdictless \/ adm[i].act = "admit"

(* The texts.                                                               *)
FreshInv ==
    scan.strict =>
        /\ \A i \in Index : cache[i] # "bad" /\ (result[i].status = "success" => result[i].fresh)
        /\ pc = "parse" => \A k \in 1 .. Len(wave) :
              wave[k].out # Pending /\ wave[k].out.status = "success" /\ wave[k].i \notin changed
                => wave[k].out.fresh

OutcomeInv ==
    /\ pc # "done" => outcome = NoOutcome
    /\ pc = "done" => SourcesAreUnchanged /\ OutcomeIsSound

ScanInv ==
    /\ Types /\ PlanInv /\ WaitInv /\ ClassifyInv /\ DraftInv /\ SettledInv /\ AuditInv
    /\ ParseInv /\ (pc # "done" => ResultInv) /\ TaintInv /\ StopInv /\ FreshInv /\ OutcomeInv

-----------------------------------------------------------------------------
(* Induction.                                                                *)

LEMMA LeastOf ==
    ASSUME NEW R, NEW F, NEW B, IsWellFoundedOn(R, F), B \subseteq F, B # {}
    PROVE  \E s \in B : \A u \in B : ~(<<u, s>> \in R)
BY WFMin, Zenon

LEMMA LeastNat ==
    ASSUME NEW S, S \subseteq Nat, S # {}
    PROVE  \E x \in S : \A y \in S : x <= y
<1>1. PICK R : IsWellFoundedOn(R, Nat) /\ R = OpToRel(<, Nat)
  BY NatLessThanWellFounded
<1>2. \A x, y \in Nat : x < y => <<x, y>> \in R
  BY <1>1 DEF OpToRel
<1>3. PICK x \in S : \A y \in S : ~(<<y, x>> \in R)
  BY <1>1, LeastOf
<1>4. ASSUME NEW y \in S PROVE x <= y
  <2>1. x \in Nat /\ y \in Nat /\ ~(y < x)
    BY <1>2, <1>3
  <2>2. QED
    BY <2>1
<1>5. QED
  BY <1>4

(* Induction up to a bound, with a set in the place of a predicate.         *)
LEMMA UpTo ==
    ASSUME NEW n \in Nat, NEW Good, 0 \in Good,
           \A k \in 0 .. n : k \in Good /\ k < n => k + 1 \in Good
    PROVE  \A k \in 0 .. n : k \in Good
<1>. DEFINE Bad == {k \in 0 .. n : k \notin Good}
<1>1. SUFFICES ASSUME Bad # {} PROVE FALSE
  OBVIOUS
<1>2. PICK x \in Bad : \A y \in Bad : x <= y
  <2>1. Bad \subseteq Nat
    OBVIOUS
  <2>2. QED
    BY <1>1, <2>1, LeastNat
<1>3. x # 0 /\ x - 1 \in 0 .. n /\ x - 1 < n /\ x - 1 \notin Bad
  BY <1>2
<1>4. QED
  BY <1>2, <1>3

-----------------------------------------------------------------------------
(* Sequences of distinct elements.                                           *)

LEMMA TailOf ==
    ASSUME NEW T, NEW s \in Seq(T), s # <<>>, Distinct(s)
    PROVE  /\ Head(s) \in Elems(s) /\ Tail(s) \in Seq(T) /\ Distinct(Tail(s))
           /\ Elems(Tail(s)) = Elems(s) \ {Head(s)}
<1>1. /\ Tail(s) \in Seq(T) /\ Len(Tail(s)) = Len(s) - 1 /\ Len(s) \in Nat /\ Len(s) >= 1
      /\ \A k \in 1 .. Len(s) - 1 : Tail(s)[k] = s[k + 1]
      /\ Head(s) = s[1]
  OBVIOUS
<1>2. Head(s) \in Elems(s)
  BY <1>1 DEF Elems
<1>3. Distinct(Tail(s))
  BY <1>1 DEF Distinct
<1>4. Elems(Tail(s)) \subseteq Elems(s) \ {Head(s)}
  BY <1>1 DEF Elems, Distinct
<1>5. ASSUME NEW x \in Elems(s) \ {Head(s)} PROVE x \in Elems(Tail(s))
  <2>1. PICK k \in 1 .. Len(s) : x = s[k]
    BY DEF Elems
  <2>2. k - 1 \in 1 .. Len(Tail(s)) /\ Tail(s)[k - 1] = x
    BY <1>1, <2>1
  <2>3. QED
    BY <2>2 DEF Elems
<1>6. QED
  BY <1>1, <1>2, <1>3, <1>4, <1>5

LEMMA AppendOf ==
    ASSUME NEW T, NEW s \in Seq(T), NEW x \in T, Distinct(s), x \notin Elems(s)
    PROVE  /\ Append(s, x) \in Seq(T) /\ Distinct(Append(s, x))
           /\ Elems(Append(s, x)) = Elems(s) \cup {x}
<1>1. /\ Append(s, x) \in Seq(T) /\ Len(Append(s, x)) = Len(s) + 1 /\ Len(s) \in Nat
      /\ \A k \in 1 .. Len(s) : Append(s, x)[k] = s[k]
      /\ Append(s, x)[Len(s) + 1] = x
  OBVIOUS
<1>2. \A k \in 1 .. Len(s) + 1 : k \in 1 .. Len(s) \/ k = Len(s) + 1
  BY <1>1
<1>3. Distinct(Append(s, x))
  BY <1>1, <1>2 DEF Distinct, Elems
<1>4. Elems(Append(s, x)) = Elems(s) \cup {x}
  BY <1>1, <1>2 DEF Elems
<1>5. QED
  BY <1>1, <1>3, <1>4

LEMMA SplitOf ==
    ASSUME NEW T, NEW s \in Seq(T), Distinct(s), NEW m \in 0 .. Len(s)
    PROVE  /\ SubSeq(s, 1, m) \in Seq(T) /\ SubSeq(s, m + 1, Len(s)) \in Seq(T)
           /\ Len(SubSeq(s, 1, m)) = m
           /\ Distinct(SubSeq(s, 1, m)) /\ Distinct(SubSeq(s, m + 1, Len(s)))
           /\ Elems(s) = Elems(SubSeq(s, 1, m)) \cup Elems(SubSeq(s, m + 1, Len(s)))
           /\ Elems(SubSeq(s, 1, m)) \cap Elems(SubSeq(s, m + 1, Len(s))) = {}
<1>. DEFINE a == SubSeq(s, 1, m)
            b == SubSeq(s, m + 1, Len(s))
<1>1. /\ a \in Seq(T) /\ Len(a) = m /\ Len(s) \in Nat /\ m <= Len(s)
      /\ \A k \in 1 .. m : a[k] = s[k]
  OBVIOUS
<1>2. /\ b \in Seq(T) /\ Len(b) = Len(s) - m
      /\ \A k \in 1 .. Len(s) - m : b[k] = s[m + k]
  OBVIOUS
<1>. HIDE DEF a, b
<1>3. Distinct(a) /\ Distinct(b)
  <2>1. ASSUME NEW k \in 1 .. m, NEW l \in 1 .. m, a[k] = a[l] PROVE k = l
    BY <1>1, <2>1 DEF Distinct
  <2>2. ASSUME NEW k \in 1 .. Len(s) - m, NEW l \in 1 .. Len(s) - m, b[k] = b[l] PROVE k = l
    <3>1. m + k \in 1 .. Len(s) /\ m + l \in 1 .. Len(s) /\ s[m + k] = s[m + l]
      BY <1>1, <1>2, <2>2
    <3>2. m + k = m + l
      BY <3>1 DEF Distinct
    <3>3. QED
      BY <1>1, <3>2
  <2>3. QED
    BY <1>1, <1>2, <2>1, <2>2 DEF Distinct
<1>4. Elems(a) \subseteq Elems(s) /\ Elems(b) \subseteq Elems(s)
  <2>1. ASSUME NEW k \in 1 .. Len(a) PROVE a[k] \in Elems(s)
    BY <1>1 DEF Elems
  <2>2. ASSUME NEW k \in 1 .. Len(b) PROVE b[k] \in Elems(s)
    <3>1. m + k \in 1 .. Len(s) /\ b[k] = s[m + k]
      BY <1>1, <1>2
    <3>2. QED
      BY <3>1 DEF Elems
  <2>3. QED
    BY <2>1, <2>2 DEF Elems
<1>5. ASSUME NEW x \in Elems(s) PROVE x \in Elems(a) \cup Elems(b)
  <2>1. PICK k \in 1 .. Len(s) : x = s[k]
    BY DEF Elems
  <2>2. CASE k <= m
    BY <1>1, <2>1, <2>2 DEF Elems
  <2>3. CASE k > m
    <3>1. k - m \in 1 .. Len(s) - m /\ b[k - m] = x
      BY <1>1, <1>2, <2>1, <2>3
    <3>2. QED
      BY <1>2, <3>1 DEF Elems
  <2>4. QED
    BY <1>1, <2>2, <2>3
<1>6. Elems(a) \cap Elems(b) = {}
  BY <1>1, <1>2 DEF Elems, Distinct
<1>7. QED
  BY <1>1, <1>2, <1>3, <1>4, <1>5, <1>6 DEF a, b

-----------------------------------------------------------------------------
(* A pass over n elements with accumulators in A exists.                     *)
Passes(g, n, A, start, F) ==
    g \in [0 .. n -> A] /\ g[0] = start /\ \A k \in 1 .. n : g[k] = F[k][g[k - 1]]

LEMMA PassExists ==
    ASSUME NEW n \in Nat, NEW A, NEW start \in A, NEW F \in [1 .. n -> [A -> A]]
    PROVE  \E g : Passes(g, n, A, start, F)
<1>. DEFINE Good == {m \in 0 .. n : \E g \in [0 .. m -> A] :
                        g[0] = start /\ \A k \in 1 .. m : g[k] = F[k][g[k - 1]]}
<1>1. 0 \in Good
  <2>1. PICK g : g = [k \in 0 .. 0 |-> start]
    OBVIOUS
  <2>2. g \in [0 .. 0 -> A] /\ g[0] = start /\ \A k \in 1 .. 0 : g[k] = F[k][g[k - 1]]
    BY <2>1
  <2>3. QED
    BY <2>2
<1>2. ASSUME NEW m \in 0 .. n, m \in Good, m < n PROVE m + 1 \in Good
  <2>1. PICK g \in [0 .. m -> A] : g[0] = start /\ \A k \in 1 .. m : g[k] = F[k][g[k - 1]]
    BY <1>2
  <2>2. PICK x : x = F[m + 1][g[m]] /\ x \in A
    <3>1. m + 1 \in 1 .. n /\ g[m] \in A
      BY <1>2
    <3>2. QED
      BY <3>1
  <2>3. PICK h : h = [k \in 0 .. m + 1 |-> IF k = m + 1 THEN x ELSE g[k]]
    OBVIOUS
  <2>4. h \in [0 .. m + 1 -> A]
    BY <2>2, <2>3
  <2>5. \A k \in 0 .. m : h[k] = g[k]
    BY <2>3
  <2>6. h[m + 1] = x
    BY <2>3
  <2>7. h[0] = start
    BY <2>1, <2>5
  <2>8. ASSUME NEW k \in 1 .. m + 1 PROVE h[k] = F[k][h[k - 1]]
    <3>1. CASE k = m + 1
      <4>1. k - 1 = m /\ h[k - 1] = g[m]
        BY <2>5, <3>1
      <4>2. QED
        BY <2>2, <2>6, <3>1, <4>1
    <3>2. CASE k # m + 1
      <4>1. k \in 1 .. m /\ k - 1 \in 0 .. m
        BY <3>2
      <4>2. QED
        BY <2>1, <2>5, <4>1
    <3>3. QED
      BY <3>1, <3>2
  <2>9. QED
    BY <1>2, <2>4, <2>7, <2>8
<1>. HIDE DEF Good
<1>3. n \in Good
  <2>1. \A k \in 0 .. n : k \in Good
    BY <1>1, <1>2, UpTo
  <2>2. QED
    BY <2>1
<1>4. QED
  BY <1>3 DEF Good, Passes

-----------------------------------------------------------------------------
(* The files of a scan.                                                      *)

LEMMA FilesTyped ==
    ASSUME scan \in Scans
    PROVE  /\ Files \in Seq(Source) /\ Len(Files) \in Nat /\ Index = 1 .. Len(Files)
           /\ \A i \in Index : Files[i] \in Source
           /\ scan.global \in Nat /\ scan.cached \subseteq Index
           /\ \A i \in Index : scan.known[i] \in KnownVerdicts(Files[i], PdfPages)
BY SchedulerAssumption DEF Files, Index

Collects(g, S, n) ==
    g = [k \in 0 .. n |-> IF k = 0 THEN <<>> ELSE IF k \in S THEN Append(g[k - 1], k) ELSE g[k - 1]]

LEMMA CollectsExists ==
    ASSUME NEW n \in Nat, NEW S
    PROVE  \E g : Collects(g, S, n)
<1>0. PICK A : A = Seq(Nat)
  OBVIOUS
<1>1. PICK F : F = [k \in 1 .. n |-> [s \in A |-> IF k \in S THEN Append(s, k) ELSE s]]
  OBVIOUS
<1>2. F \in [1 .. n -> [A -> A]]
  BY <1>0, <1>1
<1>3. PICK none : none = <<>>
  OBVIOUS
<1>4. none \in A
  BY <1>0, <1>3
<1>5. PICK g : Passes(g, n, A, none, F)
  BY <1>2, <1>4, PassExists
<1>6. g \in [0 .. n -> A] /\ g[0] = none /\ \A k \in 1 .. n : g[k] = F[k][g[k - 1]]
  BY <1>5 DEF Passes
<1>7. ASSUME NEW k \in 1 .. n PROVE g[k] = IF k \in S THEN Append(g[k - 1], k) ELSE g[k - 1]
  <2>1. k - 1 \in 0 .. n
    OBVIOUS
  <2>2. g[k - 1] \in A
    BY <1>6, <2>1
  <2>3. QED
    BY <1>1, <1>6, <2>2
<1>8. \A k \in 0 .. n : k # 0 => k \in 1 .. n
  OBVIOUS
<1>9. QED
  BY <1>3, <1>6, <1>7, <1>8 DEF Collects

LEMMA InOrderSolves ==
    ASSUME scan \in Scans, NEW S
    PROVE  \E g : Collects(g, S, Len(Files)) /\ InOrder(S) = g[Len(Files)]
<1>1. Len(Files) \in Nat
  BY FilesTyped
<1>2. \E g : Collects(g, S, Len(Files))
  BY <1>1, CollectsExists
<1>3. QED
  BY <1>2 DEF Collects, InOrder

LEMMA InOrderOf ==
    ASSUME scan \in Scans, NEW S, S \subseteq Index
    PROVE  InOrder(S) \in Seq(Index) /\ Distinct(InOrder(S)) /\ Elems(InOrder(S)) = S
<1>. DEFINE n == Len(Files)
<1>0. n \in Nat /\ Index = 1 .. n
  BY FilesTyped
<1>1. PICK g : Collects(g, S, n) /\ InOrder(S) = g[n]
  BY InOrderSolves
<1>. HIDE DEF n
<1>. DEFINE Good == {k \in 0 .. n : /\ g[k] \in Seq(Index) /\ Distinct(g[k])
                                    /\ Elems(g[k]) = S \cap (1 .. k)}
<1>2. 0 \in Good
  <2>1. g[0] = <<>> /\ 0 \in 0 .. n
    BY <1>0, <1>1 DEF Collects
  <2>2. <<>> \in Seq(Index) /\ Distinct(<<>>) /\ Elems(<<>>) = {}
    BY DEF Distinct, Elems
  <2>3. S \cap (1 .. 0) = {}
    OBVIOUS
  <2>4. QED
    BY <2>1, <2>2, <2>3
<1>3. ASSUME NEW k \in 0 .. n, k \in Good, k < n PROVE k + 1 \in Good
  <2>1. /\ k + 1 \in 0 .. n /\ k + 1 # 0 /\ (k + 1) - 1 = k /\ k + 1 \in Index
        /\ 1 .. k + 1 = (1 .. k) \cup {k + 1} /\ k + 1 \notin 1 .. k
    BY <1>0, <1>3
  <2>2. PICK s : s = g[k] /\ s \in Seq(Index) /\ Distinct(s) /\ Elems(s) = S \cap (1 .. k)
    BY <1>3
  <2>3. g[k + 1] = IF k + 1 \in S THEN Append(s, k + 1) ELSE s
    BY <1>1, <2>1, <2>2 DEF Collects
  <2>4. CASE k + 1 \in S
    <3>1. k + 1 \notin Elems(s)
      BY <2>1, <2>2
    <3>2. /\ Append(s, k + 1) \in Seq(Index) /\ Distinct(Append(s, k + 1))
          /\ Elems(Append(s, k + 1)) = Elems(s) \cup {k + 1}
      BY <2>1, <2>2, <3>1, AppendOf
    <3>3. QED
      BY <2>1, <2>2, <2>3, <2>4, <3>2
  <2>5. CASE k + 1 \notin S
    BY <2>1, <2>2, <2>3, <2>5
  <2>6. QED
    BY <2>4, <2>5
<1>. HIDE DEF Good
<1>4. n \in Good
  <2>1. n \in 0 .. n
    BY <1>0
  <2>2. \A k \in 0 .. n : k \in Good
    BY <1>0, <1>2, <1>3, UpTo
  <2>3. QED
    BY <2>1, <2>2
<1>5. g[n] \in Seq(Index) /\ Distinct(g[n]) /\ Elems(g[n]) = S \cap (1 .. n)
  BY <1>4 DEF Good
<1>6. QED
  BY <1>0, <1>1, <1>5

(* The place of an element.                                                  *)
LEMMA RankOf ==
    ASSUME NEW T, NEW s \in Seq(T), NEW x \in Elems(s)
    PROVE  Rank(s, x) \in 1 .. Len(s) /\ s[Rank(s, x)] = x
<1>1. \E k \in DOMAIN s : s[k] = x
  BY DEF Elems
<1>2. QED
  BY <1>1 DEF Rank

-----------------------------------------------------------------------------
(* The plan of the classifications.                                          *)
Lefts == [slots : Nat, pages : Nat, plans : Seq(Plans)]

LEMMA Types7 ==
    ASSUME NEW f \in Source
    PROVE  /\ f.type \in {"bin", "doc", "docx", "log", "md", "pdf", "txt"}
           /\ f.guard \in BOOLEAN /\ f.size \in Nat /\ f.abs \in Nat /\ f.rel \in Nat /\ f.chars \in Nat
           /\ f.pages \in Nat /\ f.found \in Nat /\ f.cut \in BOOLEAN /\ f.lines \subseteq Nat
<1>1. Range(Extensions) = {"bin", "doc", "docx", "log", "md", "pdf", "txt"}
  <2>1. /\ Extensions[1] = "bin" /\ Extensions[2] = "doc" /\ Extensions[3] = "docx"
        /\ Extensions[4] = "log" /\ Extensions[5] = "md" /\ Extensions[6] = "pdf"
        /\ Extensions[7] = "txt" /\ DOMAIN Extensions = 1 .. 7
    BY DEF Extensions
  <2>2. 1 .. 7 = {1, 2, 3, 4, 5, 6, 7}
    OBVIOUS
  <2>3. QED
    BY <2>1, <2>2 DEF Range
<1>2. QED
  BY <1>1 DEF Source

LEMMA VerdictOf ==
    ASSUME NEW f \in Source
    PROVE  Verdict(f) \in {"file_size_policy", "light", "office", "pdf", "legacy_extension_disabled",
                           "profile_route_invariant"}
BY Types7 DEF Verdict

LEMMA LeftChanges ==
    ASSUME NEW left \in Lefts, NEW c
    PROVE  [left EXCEPT !.plans = c] = [slots |-> left.slots, pages |-> left.pages, plans |-> c]
BY DEF Lefts

(* A plan takes its slot and its pages from what is left.                    *)
Spends(left, next, p) ==
    /\ next.slots + (IF p.act = "admit" THEN 1 ELSE 0) = left.slots
    /\ next.pages + p.pages = left.pages

LEMMA TakeSlotOf ==
    ASSUME NEW left \in Lefts, NEW f \in Source, NEW partial \in BOOLEAN
    PROVE  \E p : /\ PlanOf(f, p) /\ TakeSlot(left, f, partial) \in Lefts
                  /\ TakeSlot(left, f, partial).plans = Append(left.plans, p)
                  /\ Spends(left, TakeSlot(left, f, partial), p)
<1>1. PICK v : v = Verdict(f)
  OBVIOUS
<1>2. v \in {"file_size_policy", "light", "office", "pdf", "legacy_extension_disabled",
             "profile_route_invariant"}
  BY <1>1, VerdictOf
<1>3. left.slots \in Nat /\ left.pages \in Nat /\ left.plans \in Seq(Plans)
  BY DEF Lefts
<1>4. PICK charge : charge = IF partial THEN Least(PdfPages, left.pages) ELSE PdfPages
  OBVIOUS
<1>5. charge \in Nat
  BY <1>3, <1>4, BudgetAssumption DEF Least
<1>6. ASSUME NEW p \in Plans, NEW s \in Nat, NEW n \in Nat
      PROVE  /\ [slots |-> s, pages |-> n, plans |-> Append(left.plans, p)] \in Lefts
             /\ [slots |-> s, pages |-> n, plans |-> Append(left.plans, p)].plans = Append(left.plans, p)
             /\ [slots |-> s, pages |-> n, plans |-> Append(left.plans, p)].slots = s
             /\ [slots |-> s, pages |-> n, plans |-> Append(left.plans, p)].pages = n
  BY <1>3 DEF Lefts
<1>. DEFINE Made(s, n, p) == [slots |-> s, pages |-> n, plans |-> Append(left.plans, p)]
<1>7. ASSUME NEW x
      PROVE  [left EXCEPT !.plans = Append(@, x)] = Made(left.slots, left.pages, x)
  BY LeftChanges
<1>16. ASSUME NEW p \in Plans, NEW s \in Nat, NEW n \in Nat
      PROVE  /\ Made(s, n, p) \in Lefts /\ Made(s, n, p).plans = Append(left.plans, p)
             /\ Made(s, n, p).slots = s /\ Made(s, n, p).pages = n
  BY <1>6
<1>18. ASSUME NEW p \in Plans, p.act # "admit", p.pages = 0
       PROVE  Spends(left, Made(left.slots, left.pages, p), p)
  BY <1>3, <1>16, <1>18 DEF Spends
<1>20. ASSUME NEW p \in Plans
       PROVE  /\ Made(left.slots, left.pages, p) \in Lefts
              /\ Made(left.slots, left.pages, p).plans = Append(left.plans, p)
  <2>1. left.slots \in Nat /\ left.pages \in Nat
    BY <1>3
  <2>2. QED
    BY <1>16, <2>1
<1>19. \A w, c : /\ NotOpened(w, c).act = "not_parsed" /\ NotOpened(w, c).pages = 0
                 /\ Rejected(w).act = "reject" /\ Rejected(w).pages = 0
  BY DEF NotOpened, Rejected
<1>. HIDE DEF Made
<1>17. TakeSlot(left, f, partial) =
         CASE v \in {"file_size_policy", "legacy_extension_disabled"} ->
                Made(left.slots, left.pages, NotOpened(v, "not_pdf"))
           [] v = "profile_route_invariant" -> Made(left.slots, left.pages, Rejected(v))
           [] v \in Routes /\ ~f.guard ->
                Made(left.slots, left.pages, Rejected("source_guard_unavailable"))
           [] OTHER -> IF left.slots = 0
                       THEN Made(left.slots, left.pages, NotOpened("semantic_file_quota_exhausted", "not_pdf"))
                       ELSE IF v # "pdf" THEN Made(left.slots - 1, left.pages - 0, Planned(v, "not_pdf", 0))
                       ELSE IF charge = 0 \/ charge > left.pages
                       THEN Made(left.slots, left.pages,
                                 NotOpened("pdf_classification_page_quota_exhausted", "by_budget"))
                       ELSE Made(left.slots - 1, left.pages - charge, Planned("pdf", "classify", charge))
  BY <1>1, <1>4, <1>7 DEF TakeSlot, Made
<1>10. CASE v \in {"file_size_policy", "legacy_extension_disabled"}
  <2>1. PICK p : p = NotOpened(v, "not_pdf")
    OBVIOUS
  <2>2. PlanOf(f, p) /\ p \in Plans
    BY <1>1, <1>10, <2>1 DEF PlanOf, Plans, PlanActs, OmitWhys, NotOpened
  <2>3. TakeSlot(left, f, partial) = Made(left.slots, left.pages, p)
    BY <1>17, <1>10, <2>1 DEF Routes
  <2>4. Spends(left, TakeSlot(left, f, partial), p)
    BY <1>18, <1>19, <2>1, <2>2, <2>3
  <2>5. TakeSlot(left, f, partial) \in Lefts /\ TakeSlot(left, f, partial).plans = Append(left.plans, p)
    BY <1>20, <2>2, <2>3, Zenon
  <2>6. QED
    BY <2>2, <2>4, <2>5
<1>11. CASE v = "profile_route_invariant"
  <2>1. PICK p : p = Rejected(v)
    OBVIOUS
  <2>2. PlanOf(f, p) /\ p \in Plans
    BY <1>1, <1>11, <2>1 DEF PlanOf, Plans, PlanActs, OmitWhys, RejectWhys, Rejected
  <2>3. TakeSlot(left, f, partial) = Made(left.slots, left.pages, p)
    BY <1>17, <1>11, <2>1 DEF Routes
  <2>4. Spends(left, TakeSlot(left, f, partial), p)
    BY <1>18, <1>19, <2>1, <2>2, <2>3
  <2>5. TakeSlot(left, f, partial) \in Lefts /\ TakeSlot(left, f, partial).plans = Append(left.plans, p)
    BY <1>20, <2>2, <2>3, Zenon
  <2>6. QED
    BY <2>2, <2>4, <2>5
<1>12. CASE v \in Routes /\ ~f.guard
  <2>1. PICK p : p = Rejected("source_guard_unavailable")
    OBVIOUS
  <2>2. PlanOf(f, p) /\ p \in Plans
    BY <1>1, <1>12, <2>1 DEF PlanOf, Plans, PlanActs, OmitWhys, RejectWhys, Rejected
  <2>3. TakeSlot(left, f, partial) = Made(left.slots, left.pages, p)
    BY <1>17, <1>12, <2>1 DEF Routes
  <2>4. Spends(left, TakeSlot(left, f, partial), p)
    BY <1>18, <1>19, <2>1, <2>2, <2>3
  <2>5. TakeSlot(left, f, partial) \in Lefts /\ TakeSlot(left, f, partial).plans = Append(left.plans, p)
    BY <1>20, <2>2, <2>3, Zenon
  <2>6. QED
    BY <2>2, <2>4, <2>5
<1>13. CASE v \in Routes /\ f.guard
  <2>1. CASE left.slots = 0
    <3>1. PICK p : p = NotOpened("semantic_file_quota_exhausted", "not_pdf")
      OBVIOUS
    <3>2. PlanOf(f, p) /\ p \in Plans
      BY <1>1, <1>13, <3>1 DEF PlanOf, Plans, PlanActs, OmitWhys, BudgetReasons, NotOpened
    <3>3. TakeSlot(left, f, partial) = Made(left.slots, left.pages, p)
      BY <1>17, <1>13, <2>1, <3>1 DEF Routes
    <3>4. Spends(left, TakeSlot(left, f, partial), p)
      BY <1>18, <1>19, <3>1, <3>2, <3>3
    <3>5. TakeSlot(left, f, partial) \in Lefts /\ TakeSlot(left, f, partial).plans = Append(left.plans, p)
      BY <1>20, <3>2, <3>3, Zenon
    <3>6. QED
      BY <3>2, <3>4, <3>5
  <2>2. CASE left.slots # 0 /\ v # "pdf"
    <3>1. PICK p : p = Planned(v, "not_pdf", 0)
      OBVIOUS
    <3>2. PlanOf(f, p) /\ p \in Plans
      BY <1>1, <1>13, <2>2, <3>1 DEF PlanOf, Plans, PlanActs, Planned
    <3>3. TakeSlot(left, f, partial) = Made(left.slots - 1, left.pages - 0, p)
      BY <1>17, <1>13, <2>2, <3>1 DEF Routes
    <3>4. left.slots - 1 \in Nat /\ left.pages - 0 \in Nat
      BY <1>3, <2>2
    <3>5. p.act = "admit" /\ p.pages = 0
      BY <3>1 DEF Planned
    <3>6. Spends(left, TakeSlot(left, f, partial), p)
      BY <1>3, <1>16, <3>2, <3>3, <3>4, <3>5 DEF Spends
    <3>7. TakeSlot(left, f, partial) \in Lefts /\ TakeSlot(left, f, partial).plans = Append(left.plans, p)
      BY <1>16, <3>2, <3>3, <3>4
    <3>8. QED
      BY <3>2, <3>6, <3>7
  <2>3. CASE left.slots # 0 /\ v = "pdf" /\ (charge = 0 \/ charge > left.pages)
    <3>1. PICK p : p = NotOpened("pdf_classification_page_quota_exhausted", "by_budget")
      OBVIOUS
    <3>2. PlanOf(f, p) /\ p \in Plans
      BY <1>1, <1>13, <2>3, <3>1 DEF PlanOf, Plans, PlanActs, OmitWhys, BudgetReasons, NotOpened
    <3>3. TakeSlot(left, f, partial) = Made(left.slots, left.pages, p)
      BY <1>17, <1>13, <2>3, <3>1 DEF Routes
    <3>4. Spends(left, TakeSlot(left, f, partial), p)
      BY <1>18, <1>19, <3>1, <3>2, <3>3
    <3>5. TakeSlot(left, f, partial) \in Lefts /\ TakeSlot(left, f, partial).plans = Append(left.plans, p)
      BY <1>20, <3>2, <3>3, Zenon
    <3>6. QED
      BY <3>2, <3>4, <3>5
  <2>4. CASE left.slots # 0 /\ v = "pdf" /\ ~(charge = 0 \/ charge > left.pages)
    <3>1. PICK p : p = Planned("pdf", "classify", charge)
      OBVIOUS
    <3>2. PlanOf(f, p) /\ p \in Plans
      BY <1>1, <1>5, <1>13, <2>4, <3>1 DEF PlanOf, Plans, PlanActs, Routes, Planned
    <3>3. TakeSlot(left, f, partial) = Made(left.slots - 1, left.pages - charge, p)
      BY <1>17, <1>13, <2>4, <3>1 DEF Routes
    <3>4. left.slots - 1 \in Nat /\ left.pages - charge \in Nat
      BY <1>3, <1>5, <2>4
    <3>5. p.act = "admit" /\ p.pages = charge
      BY <3>1 DEF Planned
    <3>6. Spends(left, TakeSlot(left, f, partial), p)
      BY <1>3, <1>5, <1>16, <3>2, <3>3, <3>4, <3>5 DEF Spends
    <3>7. TakeSlot(left, f, partial) \in Lefts /\ TakeSlot(left, f, partial).plans = Append(left.plans, p)
      BY <1>16, <3>2, <3>3, <3>4
    <3>8. QED
      BY <3>2, <3>6, <3>7
  <2>5. QED
    BY <2>1, <2>2, <2>3, <2>4
<1>14. f.guard \in BOOLEAN
  BY Types7
<1>15. QED
  BY <1>2, <1>10, <1>11, <1>12, <1>13, <1>14 DEF Routes

Takes(g, fs, pages, slots, partial) ==
    g = [k \in 0 .. Len(fs) |->
           IF k = 0 THEN [slots |-> slots, pages |-> pages, plans |-> <<>>]
           ELSE CHOOSE next \in {TakeSlot(acc, fs[k], partial) : acc \in {g[k - 1]}} : TRUE]

LEMMA TheOnly ==
    ASSUME NEW x
    PROVE  (CHOOSE y \in {x} : TRUE) = x
OBVIOUS

LEMMA TakesExists ==
    ASSUME NEW fs \in Seq(Source), NEW pages \in Nat, NEW slots \in Nat, NEW partial \in BOOLEAN
    PROVE  \E g : Takes(g, fs, pages, slots, partial)
<1>1. PICK n : n = Len(fs) /\ n \in Nat
  OBVIOUS
<1>2. PICK F : F = [k \in 1 .. n |-> [left \in Lefts |-> TakeSlot(left, fs[k], partial)]]
  OBVIOUS
<1>3. F \in [1 .. n -> [Lefts -> Lefts]]
  <2>1. \A k \in 1 .. n : \A left \in Lefts : TakeSlot(left, fs[k], partial) \in Lefts
    <3>1. \A k \in 1 .. n : fs[k] \in Source
      BY <1>1
    <3>2. QED
      BY <3>1, TakeSlotOf
  <2>2. QED
    BY <1>2, <2>1
<1>4. PICK start : start = [slots |-> slots, pages |-> pages, plans |-> <<>>]
  OBVIOUS
<1>5. start \in Lefts
  <2>1. <<>> \in Seq(Plans)
    OBVIOUS
  <2>2. QED
    BY <1>4, <2>1 DEF Lefts
<1>6. PICK g : Passes(g, n, Lefts, start, F)
  BY <1>1, <1>3, <1>5, PassExists
<1>7. g \in [0 .. n -> Lefts] /\ g[0] = start /\ \A k \in 1 .. n : g[k] = F[k][g[k - 1]]
  BY <1>6 DEF Passes
<1>8. ASSUME NEW k \in 1 .. n
      PROVE  g[k] = CHOOSE next \in {TakeSlot(acc, fs[k], partial) : acc \in {g[k - 1]}} : TRUE
  <2>1. k - 1 \in 0 .. n
    BY <1>1
  <2>2. g[k - 1] \in Lefts
    BY <1>7, <2>1
  <2>3. g[k] = TakeSlot(g[k - 1], fs[k], partial)
    BY <1>2, <1>7, <2>2
  <2>4. {TakeSlot(acc, fs[k], partial) : acc \in {g[k - 1]}} = {g[k]}
    BY <2>3
  <2>5. QED
    BY <2>4, TheOnly
<1>9. \A k \in 0 .. n : k # 0 => k \in 1 .. n
  BY <1>1
<1>10. QED
  BY <1>1, <1>4, <1>7, <1>8, <1>9 DEF Takes

(* Every file of a sequence gets a plan.                                     *)
LEMMA ClassificationPlanOf ==
    ASSUME NEW fs \in Seq(Source), NEW pages \in Nat, NEW slots \in Nat, NEW partial \in BOOLEAN
    PROVE  LET p == ClassificationPlan(fs, pages, slots, partial)
           IN  /\ p \in Seq(Plans) /\ Len(p) = Len(fs)
               /\ \A k \in 1 .. Len(fs) : PlanOf(fs[k], p[k])
               /\ \E left \in [0 .. Len(fs) -> Lefts] :
                     /\ left[0].slots = slots /\ left[0].pages = pages
                     /\ \A k \in 1 .. Len(fs) : Spends(left[k - 1], left[k], p[k])
<1>1. PICK n : n = Len(fs) /\ n \in Nat
  OBVIOUS
<1>2. \E g : Takes(g, fs, pages, slots, partial)
  BY TakesExists
<1>3. PICK g : /\ Takes(g, fs, pages, slots, partial)
               /\ ClassificationPlan(fs, pages, slots, partial) = g[n].plans
  BY <1>1, <1>2 DEF Takes, ClassificationPlan, Pass
<1>. DEFINE Good == {k \in 0 .. n : /\ g[k] \in Lefts /\ Len(g[k].plans) = k
                                    /\ \A j \in 1 .. k : /\ PlanOf(fs[j], g[k].plans[j])
                                                          /\ Spends(g[j - 1], g[j], g[k].plans[j])}
<1>4. 0 \in Good
  <2>1. g[0] = [slots |-> slots, pages |-> pages, plans |-> <<>>] /\ 0 \in 0 .. n
    BY <1>1, <1>3 DEF Takes
  <2>2. <<>> \in Seq(Plans) /\ Len(<<>>) = 0
    OBVIOUS
  <2>3. g[0] \in Lefts /\ g[0].plans = <<>>
    BY <2>1, <2>2 DEF Lefts
  <2>4. QED
    BY <2>1, <2>2, <2>3
<1>5. ASSUME NEW k \in 0 .. n, k \in Good, k < n PROVE k + 1 \in Good
  <2>1. k + 1 \in 0 .. n /\ k + 1 # 0 /\ (k + 1) - 1 = k /\ fs[k + 1] \in Source /\ k \in Nat
    BY <1>1, <1>5
  <2>2. PICK left : /\ left = g[k] /\ left \in Lefts /\ Len(left.plans) = k
                    /\ \A j \in 1 .. k : /\ PlanOf(fs[j], left.plans[j])
                                          /\ Spends(g[j - 1], g[j], left.plans[j])
    BY <1>5
  <2>3. g[k + 1] = TakeSlot(left, fs[k + 1], partial)
    <3>1. g[k + 1] = CHOOSE next \in {TakeSlot(acc, fs[k + 1], partial) : acc \in {g[(k + 1) - 1]}} : TRUE
      BY <1>1, <1>3, <2>1 DEF Takes
    <3>2. {TakeSlot(acc, fs[k + 1], partial) : acc \in {g[(k + 1) - 1]}}
          = {TakeSlot(left, fs[k + 1], partial)}
      BY <2>1, <2>2
    <3>3. QED
      BY <3>1, <3>2, TheOnly
  <2>4. PICK p : /\ PlanOf(fs[k + 1], p) /\ g[k + 1] \in Lefts
                 /\ g[k + 1].plans = Append(left.plans, p) /\ Spends(left, g[k + 1], p)
    <3>1. PICK f, y : f = fs[k + 1] /\ y = TakeSlot(left, f, partial)
      OBVIOUS
    <3>2. f \in Source /\ left \in Lefts
      BY <2>1, <2>2, <3>1
    <3>3. \E p : /\ PlanOf(f, p) /\ TakeSlot(left, f, partial) \in Lefts
                 /\ TakeSlot(left, f, partial).plans = Append(left.plans, p)
                 /\ Spends(left, TakeSlot(left, f, partial), p)
      BY <3>2, TakeSlotOf
    <3>4. QED
      BY <2>3, <3>1, <3>3
  <2>5. left.plans \in Seq(Plans)
    BY <2>2 DEF Lefts
  <2>6. /\ Len(Append(left.plans, p)) = k + 1 /\ Append(left.plans, p)[k + 1] = p
        /\ \A j \in 1 .. k : Append(left.plans, p)[j] = left.plans[j]
    BY <2>1, <2>2, <2>5
  <2>7. \A j \in 1 .. k + 1 : j \in 1 .. k \/ j = k + 1
    BY <2>1
  <2>8. \A j \in 1 .. k + 1 : PlanOf(fs[j], g[k + 1].plans[j])
    BY <2>2, <2>4, <2>6, <2>7
  <2>9. \A j \in 1 .. k + 1 : Spends(g[j - 1], g[j], g[k + 1].plans[j])
    <3>1. Spends(g[(k + 1) - 1], g[k + 1], g[k + 1].plans[k + 1])
      BY <2>1, <2>2, <2>4, <2>6
    <3>2. \A j \in 1 .. k : Spends(g[j - 1], g[j], g[k + 1].plans[j])
      BY <2>2, <2>4, <2>6
    <3>3. QED
      BY <2>7, <3>1, <3>2
  <2>10. QED
    BY <2>1, <2>4, <2>6, <2>8, <2>9
<1>. HIDE DEF Good
<1>6. \A k \in 0 .. n : k \in Good
  BY <1>1, <1>4, <1>5, UpTo
<1>7. /\ g[n] \in Lefts /\ Len(g[n].plans) = n /\ \A j \in 1 .. n : PlanOf(fs[j], g[n].plans[j])
      /\ \A j \in 1 .. n : Spends(g[j - 1], g[j], g[n].plans[j])
  <2>1. n \in Good
    BY <1>1, <1>6
  <2>2. QED
    BY <2>1 DEF Good
<1>8. g[n].plans \in Seq(Plans)
  BY <1>7 DEF Lefts
<1>9. g \in [0 .. n -> Lefts]
  <2>1. \A k \in 0 .. n : g[k] \in Lefts
    BY <1>6 DEF Good
  <2>2. PICK G : g = [k \in 0 .. n |-> G[k]]
    <3>1. g = [k \in 0 .. n |->
                 IF k = 0 THEN [slots |-> slots, pages |-> pages, plans |-> <<>>]
                 ELSE CHOOSE next \in {TakeSlot(acc, fs[k], partial) : acc \in {g[k - 1]}} : TRUE]
      BY <1>1, <1>3 DEF Takes
    <3>2. PICK D : D = 0 .. n /\ DOMAIN g = D /\ g = [k \in D |-> g[k]]
      BY <3>1
    <3>3. QED
      BY <3>2
  <2>3. QED
    BY <2>1, <2>2
<1>10. g[0].slots = slots /\ g[0].pages = pages
  <2>1. g[0] = [slots |-> slots, pages |-> pages, plans |-> <<>>]
    BY <1>1, <1>3 DEF Takes
  <2>2. QED
    BY <2>1
<1>11. QED
  BY <1>1, <1>3, <1>7, <1>8, <1>9, <1>10

-----------------------------------------------------------------------------
(* The admission into the context.                                           *)

LEMMA MaxOfThree ==
    ASSUME NEW a \in Int, NEW b \in Int, NEW c \in Int
    PROVE  /\ Max({a, b, c}) \in Int
           /\ Max({a, b, c}) >= a /\ Max({a, b, c}) >= b /\ Max({a, b, c}) >= c
<1>1. \E x \in {a, b, c} : \A y \in {a, b, c} : x >= y
  <2>1. CASE a >= b /\ a >= c
    BY <2>1
  <2>2. CASE b >= a /\ b >= c
    BY <2>2
  <2>3. CASE c >= a /\ c >= b
    BY <2>3
  <2>4. QED
    BY <2>1, <2>2, <2>3
<1>2. Max({a, b, c}) \in {a, b, c} /\ \A y \in {a, b, c} : Max({a, b, c}) >= y
  BY <1>1 DEF Max
<1>3. QED
  BY <1>2

(* The widest section of a file, over the forms it may take.                 *)
LEMMA ReservedDeltaOf ==
    ASSUME NEW f \in Source, NEW route
    PROVE  /\ ReservedDelta(f, route) \in Int
           /\ ReservedDelta(f, route) >= f.abs + 427 + Least(PerFile, MaxExcerpt(route))
           /\ ReservedDelta(f, route) >= f.abs + 427 /\ ReservedDelta(f, route) >= f.abs + 152
<1>1. f.abs \in Nat
  BY Types7
<1>2. PICK body : body = Least(PerFile, MaxExcerpt(route))
  OBVIOUS
<1>3. body \in Int
  BY <1>2, BudgetAssumption DEF Least, MaxExcerpt
<1>. DEFINE success == f.abs + 5 + 11 + 64 + 11 + 64 + 19 + 64 + 16 + 64
                       + 16 + 21 + 17 + 20 + 20 + 8 + body + 5 + 2
            metadata == f.abs + 5 + 11 + 13 + 11 + 64 + 19 + 64 + 16 + 64
                        + 14 + 32 + 15 + 20 + 16 + 21 + 40 + 2
            error == f.abs + 2 + 10 + 64 + 9 + 64 + 1 + 2
<1>4. /\ success \in Int /\ metadata \in Int /\ error \in Int
      /\ success >= f.abs + 427 + body /\ metadata >= f.abs + 427 /\ error >= f.abs + 152
  BY <1>1, <1>3
<1>5. ReservedDelta(f, route) = Max({success, metadata, error})
  BY <1>2 DEF ReservedDelta
<1>. HIDE DEF success, metadata, error
<1>6. PICK x, y, z : x = success /\ y = metadata /\ z = error
  OBVIOUS
<1>7. ReservedDelta(f, route) \in Int /\ ReservedDelta(f, route) >= x /\ ReservedDelta(f, route) >= y
      /\ ReservedDelta(f, route) >= z
  <2>1. ReservedDelta(f, route) = Max({x, y, z}) /\ x \in Int /\ y \in Int /\ z \in Int
    BY <1>4, <1>5, <1>6
  <2>2. QED
    BY <2>1, MaxOfThree
<1>8. QED
  BY <1>1, <1>2, <1>3, <1>4, <1>6, <1>7

AccOf(r, s, o) == [running |-> r, slots |-> s, out |-> o]

LEMMA DecisionTyped ==
    ASSUME NEW x \in DecisionActs, NEW y \in DecisionWhys, NEW z \in Int
    PROVE  /\ Decision(x, y, z) \in Decisions /\ Decision(x, y, z).act = x /\ Decision(x, y, z).why = y
           /\ Decision(x, y, z).reserved = z
BY DEF Decision, Decisions

(* What a decision takes of the context and of the extractions: r and s are  *)
(* left before it, t and u after it.                                         *)
Extracts(p, c) == p.classify = "classify" /\ c = "text"
Charged(f, p, c, b, g, r, s, d, t, u) ==
    IF d.act = "admit"
    THEN /\ d.reserved = ReservedDelta(f, p.why) /\ b + r + d.reserved <= g
         /\ t = r + d.reserved
         /\ IF Extracts(p, c) THEN s # 0 /\ u = s - 1 ELSE u = s - 0
    ELSE d.reserved = 0 /\ t = r /\ u = s

LEMMA AdmitOf ==
    ASSUME NEW r, NEW s, NEW o, NEW f \in Source, NEW p, PlanOf(f, p), NEW c, NEW b, NEW g
    PROVE  \E d, t, u : /\ Decided(p, c, d) /\ Charged(f, p, c, b, g, r, s, d, t, u)
                        /\ Admit(AccOf(r, s, o), f, p, c, b, g) = AccOf(t, u, Append(o, d))
<1>1. PICK acc : acc = AccOf(r, s, o)
  OBVIOUS
<1>2. acc.running = r /\ acc.slots = s /\ acc.out = o
  BY <1>1 DEF AccOf
<1>3. PICK delta : delta = ReservedDelta(f, p.why)
  OBVIOUS
<1>4. delta \in Int
  BY <1>3, ReservedDeltaOf
<1>5. \A d : [acc EXCEPT !.out = Append(@, d)] = AccOf(r, s, Append(o, d))
  BY <1>1 DEF AccOf
<1>6. PICK yes : yes = Decision("admit", p.why, delta)
  OBVIOUS
<1>7. PICK over : over = Decision("not_parsed", "global_context_budget_exceeded", 0)
  OBVIOUS
<1>8. PICK full : full = Decision("not_parsed", "pdf_text_extraction_quota_exhausted", 0)
  OBVIOUS
<1>9. PICK kept : kept = Decision(p.act, p.why, 0)
  OBVIOUS
<1>10. PICK fail : fail = Decision("classifier_failed", IF c = "error" THEN "error" ELSE "unknown", 0)
  OBVIOUS
<1>11. Admit(acc, f, p, c, b, g) =
         CASE p.act # "admit" -> AccOf(r, s, Append(o, kept))
           [] p.act = "admit" /\ (p.classify = "not_pdf" \/ c = "no_text") ->
                IF b + r + delta <= g THEN AccOf(r + delta, s - 0, Append(o, yes))
                ELSE AccOf(r, s, Append(o, over))
           [] p.act = "admit" /\ p.classify = "classify" /\ c = "text" ->
                IF ~(b + r + delta <= g) THEN AccOf(r, s, Append(o, over))
                ELSE IF s = 0 THEN AccOf(r, s, Append(o, full))
                ELSE AccOf(r + delta, s - 1, Append(o, yes))
           [] OTHER -> AccOf(r, s, Append(o, fail))
  BY <1>2, <1>3, <1>5, <1>6, <1>7, <1>8, <1>9, <1>10 DEF Admit, AccOf
<1>18. /\ {"admit", "not_parsed", "classifier_failed"} \subseteq DecisionActs
       /\ {"pdf_text_extraction_quota_exhausted", "global_context_budget_exceeded"} \subseteq BudgetReasons
       /\ BudgetReasons \subseteq DecisionWhys /\ Routes \subseteq DecisionWhys
       /\ {"error", "unknown"} \subseteq DecisionWhys
  BY DEF DecisionActs, PlanActs, OmitWhys, DecisionWhys, BudgetReasons
<1>12. /\ p \in Plans /\ (p.act = "admit" => p.why \in Routes)
       /\ (p.act = "admit" /\ p.classify # "not_pdf" => p.classify = "classify")
  BY DEF PlanOf
<1>13. CASE p.act # "admit"
  <2>1. kept \in Decisions /\ kept.act = p.act /\ kept.why = p.why /\ kept.reserved = 0
    <3>1. p.act \in DecisionActs /\ p.why \in DecisionWhys
      <4>1. p.act \in PlanActs /\ p.why \in OmitWhys \cup RejectWhys \cup Routes
        BY <1>12 DEF Plans
      <4>2. QED
        BY <4>1, Zenon DEF DecisionActs, DecisionWhys
    <3>2. QED
      BY <1>9, DecisionTyped, <3>1
  <2>2. Decided(p, c, kept)
    BY <1>13, <2>1 DEF Decided
  <2>3. Charged(f, p, c, b, g, r, s, kept, r, s)
    BY <1>13, <2>1 DEF Charged
  <2>4. Admit(acc, f, p, c, b, g) = AccOf(r, s, Append(o, kept))
    BY <1>11, <1>13
  <2>5. QED
    BY <1>1, <2>2, <2>3, <2>4
<1>14. CASE p.act = "admit" /\ (p.classify = "not_pdf" \/ c \in Answered)
  <2>1. /\ yes \in Decisions /\ yes.act = "admit" /\ yes.why = p.why /\ yes.reserved = delta
        /\ over \in Decisions /\ over.act = "not_parsed" /\ over.why \in BudgetReasons /\ over.reserved = 0
        /\ full \in Decisions /\ full.act = "not_parsed" /\ full.why \in BudgetReasons /\ full.reserved = 0
    <3>0. /\ "admit" \in DecisionActs /\ "not_parsed" \in DecisionActs /\ 0 \in Int
          /\ p.why \in DecisionWhys
          /\ "pdf_text_extraction_quota_exhausted" \in DecisionWhys
          /\ "global_context_budget_exceeded" \in DecisionWhys
      BY <1>12, <1>14, <1>18
    <3>1. yes \in Decisions /\ yes.act = "admit" /\ yes.why = p.why /\ yes.reserved = delta
      BY <1>4, <1>6, DecisionTyped, <3>0
    <3>2. /\ over \in Decisions /\ over.act = "not_parsed" /\ over.why \in BudgetReasons
          /\ over.reserved = 0
      BY <1>7, DecisionTyped, <1>18, <3>0
    <3>3. /\ full \in Decisions /\ full.act = "not_parsed" /\ full.why \in BudgetReasons
          /\ full.reserved = 0
      BY <1>8, DecisionTyped, <1>18, <3>0
    <3>4. QED
      BY <3>1, <3>2, <3>3
  <2>2. Decided(p, c, yes) /\ Decided(p, c, over) /\ Decided(p, c, full)
    BY <1>14, <2>1 DEF Decided
  <2>3. \/ /\ Admit(acc, f, p, c, b, g) = AccOf(r + delta, s - 0, Append(o, yes))
           /\ b + r + delta <= g /\ ~Extracts(p, c)
        \/ Admit(acc, f, p, c, b, g) = AccOf(r, s, Append(o, over))
        \/ Admit(acc, f, p, c, b, g) = AccOf(r, s, Append(o, full))
        \/ /\ Admit(acc, f, p, c, b, g) = AccOf(r + delta, s - 1, Append(o, yes))
           /\ b + r + delta <= g /\ Extracts(p, c) /\ s # 0
    BY <1>11, <1>12, <1>14 DEF Answered, Extracts
  <2>4. /\ Charged(f, p, c, b, g, r, s, over, r, s) /\ Charged(f, p, c, b, g, r, s, full, r, s)
        /\ b + r + delta <= g /\ ~Extracts(p, c) => Charged(f, p, c, b, g, r, s, yes, r + delta, s - 0)
        /\ b + r + delta <= g /\ Extracts(p, c) /\ s # 0 =>
              Charged(f, p, c, b, g, r, s, yes, r + delta, s - 1)
    BY <1>3, <2>1 DEF Charged
  <2>5. QED
    BY <1>1, <2>2, <2>3, <2>4
<1>15. CASE p.act = "admit" /\ p.classify # "not_pdf" /\ c \notin Answered
  <2>1. /\ fail \in Decisions /\ fail.act = "classifier_failed" /\ fail.reserved = 0
        /\ fail.why = IF c = "error" THEN "error" ELSE "unknown"
    BY <1>10, <1>18 DEF Decision, Decisions
  <2>2. Decided(p, c, fail)
    BY <1>15, <2>1 DEF Decided
  <2>3. Admit(acc, f, p, c, b, g) = AccOf(r, s, Append(o, fail))
    BY <1>11, <1>12, <1>15 DEF Answered
  <2>4. Charged(f, p, c, b, g, r, s, fail, r, s)
    BY <2>1 DEF Charged
  <2>5. QED
    BY <1>1, <2>2, <2>3, <2>4
<1>16. QED
  BY <1>13, <1>14, <1>15

AdmitNext(acc, i, fs, ps, cs, b, g) ==
    CHOOSE next \in {Admit(a, fs[i], ps[i], cs[i], b, g) : a \in {acc}} : TRUE

AdmitsTo(q, n, seq, fs, ps, cs, b, r, s, g) ==
    q = [k \in 0 .. n |->
           IF k = 0 THEN [running |-> r, slots |-> s, out |-> <<>>]
           ELSE AdmitNext(q[k - 1], seq[k], fs, ps, cs, b, g)]

LEMMA AdmitsExists ==
    ASSUME NEW n \in Nat, NEW seq, NEW fs, NEW ps, NEW cs, NEW b, NEW r, NEW s, NEW g
    PROVE  \E q : AdmitsTo(q, n, seq, fs, ps, cs, b, r, s, g)
<1>. DEFINE Good == {m \in 0 .. n : \E q : AdmitsTo(q, m, seq, fs, ps, cs, b, r, s, g)}
<1>1. 0 \in Good
  <2>1. PICK q : q = [k \in 0 .. 0 |-> [running |-> r, slots |-> s, out |-> <<>>]]
    OBVIOUS
  <2>2. AdmitsTo(q, 0, seq, fs, ps, cs, b, r, s, g)
    <3>1. \A k \in 0 .. 0 : k = 0
      OBVIOUS
    <3>2. QED
      BY <2>1, <3>1 DEF AdmitsTo
  <2>3. QED
    BY <2>2
<1>2. ASSUME NEW m \in 0 .. n, m \in Good, m < n PROVE m + 1 \in Good
  <2>1. PICK q : AdmitsTo(q, m, seq, fs, ps, cs, b, r, s, g)
    BY <1>2
  <2>2. PICK x : x = AdmitNext(q[m], seq[m + 1], fs, ps, cs, b, g)
    OBVIOUS
  <2>3. PICK h : h = [k \in 0 .. m + 1 |-> IF k = m + 1 THEN x ELSE q[k]]
    OBVIOUS
  <2>4. \A k \in 0 .. m : h[k] = q[k]
    BY <2>3
  <2>5. h[m + 1] = x
    BY <2>3
  <2>6. ASSUME NEW k \in 0 .. m + 1
        PROVE  h[k] = IF k = 0 THEN [running |-> r, slots |-> s, out |-> <<>>]
                      ELSE AdmitNext(h[k - 1], seq[k], fs, ps, cs, b, g)
    <3>1. CASE k = m + 1
      <4>1. k - 1 = m /\ k # 0 /\ h[k - 1] = q[m]
        BY <2>4, <3>1
      <4>2. QED
        BY <2>2, <2>5, <3>1, <4>1
    <3>2. CASE k # m + 1
      <4>1. k \in 0 .. m /\ h[k] = q[k]
        BY <2>4, <3>2
      <4>2. q[k] = IF k = 0 THEN [running |-> r, slots |-> s, out |-> <<>>]
                   ELSE AdmitNext(q[k - 1], seq[k], fs, ps, cs, b, g)
        BY <2>1, <4>1 DEF AdmitsTo
      <4>3. k # 0 => h[k - 1] = q[k - 1]
        BY <2>4, <4>1
      <4>4. CASE k = 0
        BY <4>1, <4>2, <4>4
      <4>5. CASE k # 0
        BY <4>1, <4>2, <4>3, <4>5
      <4>6. QED
        BY <4>4, <4>5
    <3>3. QED
      BY <3>1, <3>2
  <2>7. AdmitsTo(h, m + 1, seq, fs, ps, cs, b, r, s, g)
    BY <2>3, <2>6 DEF AdmitsTo
  <2>8. QED
    BY <1>2, <2>7
<1>. HIDE DEF Good
<1>3. n \in Good
  <2>1. \A k \in 0 .. n : k \in Good
    BY <1>1, <1>2, UpTo
  <2>2. QED
    BY <2>1
<1>4. QED
  BY <1>3 DEF Good

(* What is taken and what is left after each file of a pass.                 *)
Charges(run, left, n, fs, ps, cs, b, r, s, g, d) ==
    /\ run[0] = r /\ left[0] = s
    /\ \A k \in 1 .. n : Charged(fs[k], ps[k], cs[k], b, g, run[k - 1], left[k - 1], d[k], run[k], left[k])

(* Every file of a sequence of planned files gets a decision.                *)
LEMMA ContentAdmissionOf ==
    ASSUME NEW fs \in Seq(Source), NEW ps, NEW cs, NEW b, NEW r, NEW s, NEW g,
           \A k \in 1 .. Len(fs) : PlanOf(fs[k], ps[k])
    PROVE  LET d == ContentAdmission(fs, ps, cs, b, r, s, g)
           IN  /\ Len(d) = Len(fs) /\ \A k \in 1 .. Len(fs) : Decided(ps[k], cs[k], d[k])
               /\ \E run, left : Charges(run, left, Len(fs), fs, ps, cs, b, r, s, g, d)
<1>1. PICK n : n = Len(fs) /\ n \in Nat
  OBVIOUS
<1>. DEFINE seq == [i \in 1 .. Len(fs) |-> i]
<1>2. seq \in Seq(1 .. n) /\ DOMAIN seq = 1 .. n
  BY <1>1
<1>3. Len(seq) = n /\ \A k \in 1 .. n : seq[k] = k
  BY <1>1, <1>2
<1>4. \E q : AdmitsTo(q, Len(seq), seq, fs, ps, cs, b, r, s, g)
  <2>. HIDE DEF seq
  <2>1. QED
    BY <1>1, <1>3, AdmitsExists
<1>12. PICK q : /\ AdmitsTo(q, Len(seq), seq, fs, ps, cs, b, r, s, g)
                /\ ContentAdmission(fs, ps, cs, b, r, s, g) = q[Len(seq)].out
  BY <1>4 DEF AdmitsTo, AdmitNext, ContentAdmission, Pass
<1>. HIDE DEF seq
<1>5. /\ AdmitsTo(q, n, seq, fs, ps, cs, b, r, s, g)
      /\ ContentAdmission(fs, ps, cs, b, r, s, g) = q[n].out
  BY <1>3, <1>12
<1>. DEFINE Chg(j, d) == Charged(fs[j], ps[j], cs[j], b, g, q[j - 1].running, q[j - 1].slots, d,
                                 q[j].running, q[j].slots)
<1>. HIDE DEF Chg
<1>. DEFINE Good == {k \in 0 .. n : \E t, u, o : /\ q[k] = AccOf(t, u, o) /\ o \in Seq(Decisions) /\ Len(o) = k
                                                 /\ \A j \in 1 .. k : Decided(ps[j], cs[j], o[j])
                                                 /\ \A j \in 1 .. k : Chg(j, o[j])}
<1>6. 0 \in Good
  <2>1. q[0] = AccOf(r, s, <<>>) /\ 0 \in 0 .. n
    BY <1>1, <1>5 DEF AdmitsTo, AccOf
  <2>2. <<>> \in Seq(Decisions) /\ Len(<<>>) = 0 /\ \A j \in 1 .. 0 : FALSE
    OBVIOUS
  <2>3. QED
    BY <2>1, <2>2
<1>7. ASSUME NEW k \in 0 .. n, k \in Good, k < n PROVE k + 1 \in Good
  <2>1. k + 1 \in 0 .. n /\ k + 1 # 0 /\ (k + 1) - 1 = k /\ k + 1 \in 1 .. n /\ k \in Nat
    BY <1>1, <1>7
  <2>2. PICK t, u, o : /\ q[k] = AccOf(t, u, o) /\ o \in Seq(Decisions) /\ Len(o) = k
                       /\ \A j \in 1 .. k : Decided(ps[j], cs[j], o[j])
                       /\ \A j \in 1 .. k : Chg(j, o[j])
    BY <1>7
  <2>3. PICK f, p, c : f = fs[k + 1] /\ p = ps[k + 1] /\ c = cs[k + 1]
    OBVIOUS
  <2>4. f \in Source /\ PlanOf(f, p)
    BY <1>1, <2>1, <2>3
  <2>5. q[k + 1] = Admit(AccOf(t, u, o), f, p, c, b, g)
    <3>1. q[k + 1] = AdmitNext(q[k], seq[k + 1], fs, ps, cs, b, g)
      BY <1>5, <2>1 DEF AdmitsTo
    <3>2. q[k + 1] = CHOOSE next \in {Admit(a, f, p, c, b, g) : a \in {AccOf(t, u, o)}} : TRUE
      BY <1>3, <2>1, <2>2, <2>3, <3>1 DEF AdmitNext
    <3>3. {Admit(a, f, p, c, b, g) : a \in {AccOf(t, u, o)}} = {Admit(AccOf(t, u, o), f, p, c, b, g)}
      OBVIOUS
    <3>4. QED
      BY <3>2, <3>3, TheOnly
  <2>6. PICK d, v, w : /\ Decided(p, c, d) /\ q[k + 1] = AccOf(v, w, Append(o, d))
                       /\ Charged(f, p, c, b, g, t, u, d, v, w)
    BY <2>4, <2>5, AdmitOf
  <2>7. d \in Decisions
    BY <2>6 DEF Decided
  <2>8. /\ Append(o, d) \in Seq(Decisions) /\ Len(Append(o, d)) = k + 1 /\ Append(o, d)[k + 1] = d
        /\ \A j \in 1 .. k : Append(o, d)[j] = o[j]
    BY <2>1, <2>2, <2>7
  <2>9. \A j \in 1 .. k + 1 : j \in 1 .. k \/ j = k + 1
    BY <2>1
  <2>10. \A j \in 1 .. k + 1 : Decided(ps[j], cs[j], Append(o, d)[j])
    BY <2>2, <2>3, <2>6, <2>8, <2>9
  <2>11. Chg(k + 1, d)
    <3>1. q[k].running = t /\ q[k].slots = u /\ q[k + 1].running = v /\ q[k + 1].slots = w
      BY <2>2, <2>6 DEF AccOf
    <3>2. QED
      BY <2>1, <2>3, <2>6, <3>1 DEF Chg
  <2>12. \A j \in 1 .. k + 1 : Chg(j, Append(o, d)[j])
    BY <2>2, <2>8, <2>9, <2>11
  <2>13. QED
    BY <2>1, <2>6, <2>8, <2>10, <2>12
<1>. HIDE DEF Good
<1>8. n \in Good
  <2>1. n \in 0 .. n
    BY <1>1
  <2>2. \A k \in 0 .. n : k \in Good
    BY <1>1, <1>6, <1>7, UpTo
  <2>3. QED
    BY <2>1, <2>2
<1>9. PICK t, u, o : /\ q[n] = AccOf(t, u, o) /\ o \in Seq(Decisions) /\ Len(o) = n
                     /\ \A j \in 1 .. n : Decided(ps[j], cs[j], o[j])
                     /\ \A j \in 1 .. n : Chg(j, o[j])
  BY <1>8 DEF Good
<1>10. q[n].out = o
  BY <1>9 DEF AccOf
<1>11. PICK run, left : /\ run = [k \in 0 .. n |-> q[k].running]
                        /\ left = [k \in 0 .. n |-> q[k].slots]
  OBVIOUS
<1>13. Charges(run, left, n, fs, ps, cs, b, r, s, g, o)
  <2>1. run[0] = r /\ left[0] = s
    <3>1. q[0] = AccOf(r, s, <<>>) /\ 0 \in 0 .. n
      BY <1>1, <1>5 DEF AdmitsTo, AccOf
    <3>2. QED
      BY <1>11, <3>1 DEF AccOf
  <2>2. ASSUME NEW k \in 1 .. n
        PROVE  Charged(fs[k], ps[k], cs[k], b, g, run[k - 1], left[k - 1], o[k], run[k], left[k])
    <3>1. k - 1 \in 0 .. n /\ k \in 0 .. n
      BY <1>1
    <3>2. /\ run[k - 1] = q[k - 1].running /\ left[k - 1] = q[k - 1].slots
          /\ run[k] = q[k].running /\ left[k] = q[k].slots
      BY <1>11, <3>1
    <3>3. QED
      BY <1>9, <3>2 DEF Chg
  <2>3. QED
    BY <2>1, <2>2 DEF Charges
<1>14. QED
  BY <1>1, <1>5, <1>9, <1>10, <1>13

LEMMA AdmissionOf ==
    ASSUME scan \in Scans, PlanInv, NEW S, S \subseteq Index, NEW b, NEW h
    PROVE  /\ DOMAIN Admission(S, b, h) = S
           /\ \A i \in S : Decided(plan[i], cls[i].s, Admission(S, b, h)[i])
<1>1. PICK seq : seq = InOrder(S)
  OBVIOUS
<1>2. seq \in Seq(Index) /\ Elems(seq) = S /\ DOMAIN seq = 1 .. Len(seq)
  BY <1>1, InOrderOf
<1>3. PICK fs, ps, cs : /\ fs = [k \in DOMAIN seq |-> Files[seq[k]]]
                        /\ ps = [k \in DOMAIN seq |-> plan[seq[k]]]
                        /\ cs = [k \in DOMAIN seq |-> cls[seq[k]].s]
  OBVIOUS
<1>4. PICK d : d = ContentAdmission(fs, ps, cs, b, h, Monus(MaxExtractions, ExtractionsUsed), scan.global)
  OBVIOUS
<1>5. Admission(S, b, h) = [i \in S |-> d[Rank(seq, i)]]
  BY <1>1, <1>3, <1>4 DEF Admission
<1>6. fs \in Seq(Source) /\ Len(fs) = Len(seq)
  <2>1. \A k \in 1 .. Len(seq) : seq[k] \in Index
    BY <1>2
  <2>2. \A k \in 1 .. Len(seq) : Files[seq[k]] \in Source
    BY <2>1, FilesTyped
  <2>3. QED
    BY <1>2, <1>3, <2>2
<1>7. \A k \in 1 .. Len(fs) : PlanOf(fs[k], ps[k])
  BY <1>2, <1>3, <1>6 DEF PlanInv
<1>8. \A k \in 1 .. Len(fs) : Decided(ps[k], cs[k], d[k])
  BY <1>4, <1>6, <1>7, ContentAdmissionOf
<1>9. ASSUME NEW i \in S PROVE Decided(plan[i], cls[i].s, Admission(S, b, h)[i])
  <2>1. PICK k : k = Rank(seq, i)
    OBVIOUS
  <2>2. k \in 1 .. Len(seq) /\ seq[k] = i
    BY <1>2, <2>1, RankOf
  <2>3. ps[k] = plan[i] /\ cs[k] = cls[i].s
    BY <1>2, <1>3, <2>2
  <2>4. Decided(ps[k], cs[k], d[k])
    BY <1>6, <1>8, <2>2
  <2>5. QED
    BY <1>5, <2>1, <2>3, <2>4
<1>10. QED
  BY <1>5, <1>9

LEMMA HeldFinite ==
    ASSUME NEW S, IsFiniteSet(S), NEW h, \A i \in S : h[i] \in Int
    PROVE  IsFiniteSet(UNION {{i} \X (1 .. h[i]) : i \in S})
<1>1. PICK P : P = {{i} \X (1 .. h[i]) : i \in S}
  OBVIOUS
<1>2. PICK f : f = [i \in S |-> {i} \X (1 .. h[i])]
  OBVIOUS
<1>3. P = {f[i] : i \in S}
  BY <1>1, <1>2
<1>4. IsFiniteSet(P)
  <2>1. f \in Surjection(S, P)
    BY <1>2, <1>3 DEF Surjection
  <2>2. QED
    BY <2>1, FS_Surjection
<1>5. ASSUME NEW p \in P PROVE IsFiniteSet(p)
  <2>1. PICK i \in S : p = {i} \X (1 .. h[i])
    BY <1>1
  <2>2. IsFiniteSet({i}) /\ IsFiniteSet(1 .. h[i])
    <3>1. PICK m \in Int : m = h[i]
      OBVIOUS
    <3>2. IsFiniteSet(1 .. m)
      BY FS_Interval
    <3>3. QED
      BY <3>1, <3>2, FS_Singleton
  <2>3. QED
    BY <2>1, <2>2, FS_Product
<1>6. QED
  BY <1>1, <1>4, <1>5, FS_UNION

(* What is used of the quotas.                                               *)
Paged == {j \in Index : plan[j].classify = "classify"}
HeldPages == UNION {{i} \X (1 .. Held(i)) : i \in Paged}
Extracting ==
    {i \in Index : /\ adm[i].act = "admit" /\ adm[i].why = "pdf" /\ cls[i].s = "text"
                   /\ ~(result[i].status = "success" /\ result[i].hit)}
Begun == {i \in Index : result[i].status # "none" \/ cls[i].s \notin Verdictless}

LEMMA HeldInt ==
    ASSUME Types, NEW i \in Index
    PROVE  Held(i) \in Int
<1>1. audit[i] \in Audits /\ plan[i] \in Plans
  BY DEF Types
<1>2. PICK a, q : a = audit[i] /\ q = plan[i]
  OBVIOUS
<1>3. a.run \in Int
  BY <1>1, <1>2 DEF Audits
<1>4. q.pages \in Nat
  BY <1>1, <1>2 DEF Plans
<1>5. QED
  BY <1>2, <1>3, <1>4 DEF Held

LEMMA QuotasCounted ==
    ASSUME Types
    PROVE  /\ IsFiniteSet(Index)
           /\ IsFiniteSet(HeldPages) /\ PagesHeld = Cardinality(HeldPages) /\ PagesHeld \in Nat
           /\ IsFiniteSet(Begun) /\ CandidatesUsed = Cardinality(Begun) /\ CandidatesUsed \in Nat
           /\ IsFiniteSet(Extracting) /\ ExtractionsUsed = Cardinality(Extracting)
           /\ ExtractionsUsed \in Nat
<1>1. IsFiniteSet(Index)
  <2>1. scan \in Scans
    BY DEF Types
  <2>2. Index = 1 .. Len(Files) /\ Len(Files) \in Nat
    BY <2>1, FilesTyped
  <2>3. PICK n : n = Len(Files)
    OBVIOUS
  <2>4. n \in Int /\ IsFiniteSet(1 .. n)
    BY <2>2, <2>3, FS_Interval
  <2>. QED
    BY <2>2, <2>3, <2>4
<1>2. IsFiniteSet(HeldPages)
  <2>1. PICK h : h = [i \in Index |-> Held(i)]
    OBVIOUS
  <2>2. Paged \subseteq Index /\ IsFiniteSet(Paged)
    BY <1>1, FS_Subset DEF Paged
  <2>3. \A i \in Paged : h[i] = Held(i) /\ h[i] \in Int
    BY <2>1, <2>2, HeldInt
  <2>4. IsFiniteSet(UNION {{i} \X (1 .. h[i]) : i \in Paged})
    BY <2>2, <2>3, HeldFinite
  <2>5. {{i} \X (1 .. h[i]) : i \in Paged} = {{i} \X (1 .. Held(i)) : i \in Paged}
    BY <2>3
  <2>6. QED
    BY <2>4, <2>5 DEF HeldPages
<1>3. IsFiniteSet(Begun) /\ IsFiniteSet(Extracting)
  <2>1. Begun \subseteq Index /\ Extracting \subseteq Index
    BY DEF Begun, Extracting
  <2>2. QED
    BY <1>1, <2>1, FS_Subset
<1>4. PagesHeld = Cardinality(HeldPages)
  BY DEF PagesHeld, HeldPages, Paged
<1>5. CandidatesUsed = Cardinality(Begun)
  BY DEF CandidatesUsed, Begun, Verdictless
<1>6. ExtractionsUsed = Cardinality(Extracting)
  BY DEF ExtractionsUsed, Extracting
<1>7. QED
  BY <1>1, <1>2, <1>3, <1>4, <1>5, <1>6, FS_CardinalityType

LEMMA RefillPlanOf ==
    ASSUME Types, NEW S, S \subseteq Index
    PROVE  /\ DOMAIN RefillPlan(S) = S
           /\ \A i \in S : PlanOf(Files[i], RefillPlan(S)[i])
<1>1. PICK seq : seq = InOrder(S)
  OBVIOUS
<1>0. scan \in Scans
  BY DEF Types
<1>2. seq \in Seq(Index) /\ Elems(seq) = S /\ DOMAIN seq = 1 .. Len(seq)
  BY <1>0, <1>1, InOrderOf
<1>3. PICK fs : fs = [k \in DOMAIN seq |-> Files[seq[k]]]
  OBVIOUS
<1>4. PICK pages, slots : pages = Monus(TotalPages, PagesHeld) /\ slots = Monus(MaxCandidates, CandidatesUsed)
  OBVIOUS
<1>5. PICK p : p = ClassificationPlan(fs, pages, slots, TRUE)
  OBVIOUS
<1>6. RefillPlan(S) = [i \in S |-> p[Rank(seq, i)]]
  BY <1>1, <1>3, <1>4, <1>5 DEF RefillPlan
<1>7. fs \in Seq(Source) /\ Len(fs) = Len(seq)
  <2>1. \A k \in 1 .. Len(seq) : seq[k] \in Index
    BY <1>2
  <2>2. \A k \in 1 .. Len(seq) : Files[seq[k]] \in Source
    BY <1>0, <2>1, FilesTyped
  <2>3. QED
    BY <1>2, <1>3, <2>2
<1>9. pages \in Nat /\ slots \in Nat
  BY <1>4, QuotasCounted, BudgetAssumption DEF Monus
<1>11. \A k \in 1 .. Len(fs) : PlanOf(fs[k], p[k])
  BY <1>5, <1>7, <1>9, ClassificationPlanOf
<1>12. ASSUME NEW i \in S PROVE PlanOf(Files[i], RefillPlan(S)[i])
  <2>1. PICK k : k = Rank(seq, i)
    OBVIOUS
  <2>2. k \in 1 .. Len(seq) /\ seq[k] = i
    BY <1>2, <2>1, RankOf
  <2>3. fs[k] = Files[i]
    BY <1>2, <1>3, <2>2
  <2>4. PlanOf(fs[k], p[k])
    BY <1>7, <1>11, <2>2
  <2>5. QED
    BY <1>6, <2>1, <2>3, <2>4
<1>13. QED
  BY <1>6, <1>12

-----------------------------------------------------------------------------
(* A scan starts.                                                            *)

LEMMA NothingWaits ==
    ASSUME queue = <<>>, tasks = <<>>, wave = <<>>
    PROVE  Waiting = {} /\ Tasked = {} /\ Flying = {} /\ Queued = {}
BY DEF Waiting, Tasked, Flying, Queued, Elems

LEMMA FirstTypes ==
    /\ NoClass \in Classes /\ NoAudit \in Audits /\ NoDecision \in Decisions /\ NoResult \in Results
    /\ NoClass.s = "none" /\ NoClass.code = "none" /\ NoAudit.s = "none" /\ NoDecision.act = "none"
    /\ NoResult.status = "none" /\ NoResult.code = "none" /\ NoResult.attempts = 0 /\ NoResult.hit = FALSE
    /\ NoResult.fresh = FALSE
<1>1. NoClass \in Classes /\ NoClass.s = "none" /\ NoClass.code = "none"
  BY DEF NoClass, Classes, Verdictless, ClassCodes
<1>2. NoAudit \in Audits /\ NoAudit.s = "none"
  BY DEF NoAudit, Audits, Verdictless
<1>3. NoDecision \in Decisions /\ NoDecision.act = "none"
  <2>1. "none" \in DecisionActs /\ "none" \in DecisionWhys
    BY DEF DecisionActs, DecisionWhys
  <2>2. QED
    BY <2>1, DecisionTyped DEF NoDecision
<1>4. /\ NoResult \in Results /\ NoResult.status = "none" /\ NoResult.code = "none" /\ NoResult.attempts = 0
      /\ NoResult.hit = FALSE /\ NoResult.fresh = FALSE
  BY DEF NoResult, Results, ResultCodes
<1>5. QED
  BY <1>1, <1>2, <1>3, <1>4

LEMMA Starts ==
    ASSUME Init
    PROVE  ScanInv
<1>1. /\ scan \in Scans /\ changed = {} /\ pc = "classify" /\ tasks = <<>> /\ wave = <<>>
      /\ plan = ClassificationPlan(Files, TotalPages, MaxCandidates, FALSE)
      /\ queue = InOrder({i \in Index : plan[i].classify # "not_pdf"})
      /\ cls = [i \in Index |-> NoClass] /\ audit = [i \in Index |-> NoAudit]
      /\ adm = [i \in Index |-> NoDecision] /\ result = [i \in Index |-> NoResult]
      /\ runtime = {} /\ taint = {} /\ round = 0 /\ draft = Index /\ outcome = NoOutcome
      /\ cache = [i \in Index |-> IF i \in scan.cached THEN "good" ELSE "none"]
  BY DEF Init, Files
<1>2. Files \in Seq(Source) /\ Len(Files) \in Nat /\ Index = 1 .. Len(Files)
  BY <1>1, FilesTyped
<1>3. plan \in Seq(Plans) /\ Len(plan) = Len(Files) /\ \A k \in 1 .. Len(Files) : PlanOf(Files[k], plan[k])
  <2>1. TotalPages \in Nat /\ MaxCandidates \in Nat /\ FALSE \in BOOLEAN
    BY BudgetAssumption
  <2>2. QED
    BY <1>1, <1>2, <2>1, ClassificationPlanOf
<1>4. plan \in [Index -> Plans] /\ PlanInv
  BY <1>2, <1>3 DEF PlanInv
<1>5. /\ queue \in Seq(Index) /\ Distinct(queue) /\ Elems(queue) = {i \in Index : plan[i].classify # "not_pdf"}
  BY <1>1, InOrderOf
<1>6. Types
  <2>1. cls \in [Index -> Classes] /\ audit \in [Index -> Audits] /\ adm \in [Index -> Decisions]
        /\ result \in [Index -> Results]
    BY <1>1, FirstTypes
  <2>2. cache \in [Index -> {"none", "good", "bad"}]
    BY <1>1
  <2>3. tasks \in Seq(Index) /\ wave \in Seq(WaveItems(Len(Files)))
    BY <1>1
  <2>4. QED
    BY <1>1, <1>4, <1>5, <2>1, <2>2, <2>3 DEF Types
<1>7. Tasked = {} /\ Flying = {} /\ Waiting = Elems(queue) /\ Queued = Elems(queue) /\ Len(wave) = 0 /\ Len(tasks) = 0
  BY <1>1 DEF Tasked, Flying, Waiting, Queued, Elems
<1>8. WaitInv
  <2>1. Distinct(queue) /\ Distinct(tasks)
    BY <1>5, <1>7 DEF Distinct
  <2>2. \A k, l \in 1 .. Len(wave) : wave[k].i = wave[l].i => k = l
    BY <1>7
  <2>3. QED
    BY <1>1, <1>7, <2>1, <2>2 DEF WaitInv
<1>9. \A i \in Index : /\ cls[i] = NoClass /\ audit[i] = NoAudit /\ adm[i] = NoDecision /\ result[i] = NoResult
                       /\ cls[i].s = "none" /\ adm[i].act = "none" /\ result[i].status = "none"
                       /\ cls[i].code = "none" /\ audit[i].s = "none"
  BY <1>1, FirstTypes
<1>10. ClassifyInv
  <2>1. \A i \in Waiting : /\ plan[i].classify # "not_pdf" /\ i \in draft
                           /\ cls[i].s \in Verdictless /\ i \notin runtime
    BY <1>1, <1>5, <1>7, <1>9 DEF Verdictless
  <2>2. \A i \in draft : /\ adm[i].act # "admit" /\ result[i].status = "none"
                         /\ plan[i].classify = "classify" =>
                              i \in Waiting \/ i \in runtime \/ cls[i].s \notin Verdictless
    BY <1>1, <1>5, <1>7, <1>9
  <2>3. QED
    BY <1>7, <2>1, <2>2 DEF ClassifyInv
<1>11. DraftInv /\ SettledInv
  BY <1>1, <1>9 DEF DraftInv, SettledInv
<1>12. AuditInv
  BY <1>9 DEF AuditInv, Audited, Verdictless, Answered
<1>13. ParseInv /\ TaintInv /\ StopInv
  BY <1>1 DEF ParseInv, TaintInv, StopInv
<1>14. ResultInv
  BY <1>1, <1>9, FirstTypes DEF ResultInv, ResultOf
<1>15. FreshInv
  BY <1>1, <1>9 DEF FreshInv
<1>16. OutcomeInv
  BY <1>1 DEF OutcomeInv
<1>17. QED
  BY <1>4, <1>6, <1>8, <1>10, <1>11, <1>12, <1>13, <1>14, <1>15, <1>16 DEF ScanInv

-----------------------------------------------------------------------------
(* What a step leaves alone.                                                 *)

LEMMA SameFiles ==
    ASSUME scan' = scan
    PROVE  Files' = Files /\ Index' = Index
BY DEF Files, Index

LEMMA SamePlan ==
    ASSUME PlanInv, UNCHANGED <<scan, plan>>
    PROVE  PlanInv'
BY SameFiles DEF PlanInv

LEMMA SameAudit ==
    ASSUME AuditInv, UNCHANGED <<scan, plan, cls, audit>>
    PROVE  AuditInv'
BY SameFiles DEF AuditInv, Audited

LEMMA SameWait ==
    ASSUME UNCHANGED <<queue, tasks, wave>>
    PROVE  Queued' = Queued /\ Tasked' = Tasked /\ Flying' = Flying /\ Waiting' = Waiting
BY DEF Queued, Tasked, Flying, Waiting

LEMMA SameResult ==
    ASSUME ResultInv, UNCHANGED <<scan, pc, queue, tasks, wave, adm, cls, result, runtime, taint>>
    PROVE  ResultInv'
BY SameFiles, SameWait DEF ResultInv, NoText

LEMMA SameSettled ==
    ASSUME SettledInv, UNCHANGED <<scan, pc, plan, cls, adm, runtime, draft>>
    PROVE  SettledInv'
BY SameFiles DEF SettledInv, Settled

LEMMA SameClassify ==
    ASSUME ClassifyInv,
           UNCHANGED <<scan, pc, queue, tasks, wave, plan, cls, adm, result, runtime, draft>>
    PROVE  ClassifyInv'
BY SameFiles, SameWait DEF ClassifyInv

LEMMA SameParse ==
    ASSUME ParseInv, UNCHANGED <<scan, pc, queue, tasks, wave, cls, adm, result, runtime, taint>>
    PROVE  ParseInv'
BY SameFiles, SameWait DEF ParseInv, NoText

LEMMA SameDraft ==
    ASSUME DraftInv, UNCHANGED <<scan, pc, round, draft, adm>>
    PROVE  DraftInv'
BY SameFiles DEF DraftInv

LEMMA SameWaitInv ==
    ASSUME WaitInv, UNCHANGED <<pc, queue, tasks, wave>>
    PROVE  WaitInv'
BY SameWait DEF WaitInv

(* While the scan runs its outcome is empty.                                 *)
LEMMA SameOutcome ==
    ASSUME OutcomeInv, pc # "done", UNCHANGED outcome, pc' # "done"
    PROVE  OutcomeInv'
BY DEF OutcomeInv

LEMMA ChangeSourceKeeps ==
    ASSUME ScanInv, ChangeSource
    PROVE  ScanInv'
<1>1. /\ UNCHANGED <<scan, late, pc, queue, tasks, wave, plan, cls, audit, adm, result, runtime,
                     taint, stopped, warned, cache, base, round, draft, before, ledger, outcome>>
      /\ \E i \in Index \ changed : changed' = changed \cup {i}
      /\ pc # "done"
  BY DEF ChangeSource, roundState
<1>2. Files' = Files /\ Index' = Index
  BY <1>1, SameFiles
<1>3. changed \subseteq changed' /\ changed' \subseteq Index
  BY <1>1 DEF ScanInv, Types
<1>4. Types'
  BY <1>1, <1>2, <1>3 DEF ScanInv, Types
<1>5. FreshInv'
  BY <1>1, <1>2, <1>3 DEF ScanInv, FreshInv
<1>6. TaintInv' /\ StopInv'
  BY <1>1 DEF ScanInv, TaintInv, StopInv
<1>7. QED
  BY <1>1, <1>4, <1>5, <1>6, SamePlan, SameAudit, SameResult, SameSettled, SameClassify, SameParse,
     SameDraft, SameWaitInv, SameOutcome DEF ScanInv

LEMMA PassDeadlineKeeps ==
    ASSUME ScanInv, PassDeadline
    PROVE  ScanInv'
<1>1. /\ UNCHANGED <<scan, changed, pc, queue, tasks, wave, plan, cls, audit, adm, result, runtime,
                     taint, stopped, warned, cache, base, round, draft, before, ledger, outcome>>
      /\ pc # "done"
  BY DEF PassDeadline, roundState
<1>2. Files' = Files /\ Index' = Index
  BY <1>1, SameFiles
<1>3. Types'
  BY <1>1, <1>2 DEF ScanInv, Types
<1>4. FreshInv'
  BY <1>1, <1>2 DEF ScanInv, FreshInv
<1>5. TaintInv' /\ StopInv'
  BY <1>1 DEF ScanInv, TaintInv, StopInv
<1>6. QED
  BY <1>1, <1>3, <1>4, <1>5, SamePlan, SameAudit, SameResult, SameSettled, SameClassify, SameParse,
     SameDraft, SameWaitInv, SameOutcome DEF ScanInv

(* A scan that fails.                                                        *)
LEMMA OutcomeFields ==
    ASSUME NEW k, NEW w, NEW x, NEW y, NEW rows, NEW es, NEW n
    PROVE  /\ OutcomeOf(k, w, x, y, rows, es, n).kind = k /\ OutcomeOf(k, w, x, y, rows, es, n).why = w
           /\ OutcomeOf(k, w, x, y, rows, es, n).error = x /\ OutcomeOf(k, w, x, y, rows, es, n).warning = y
           /\ OutcomeOf(k, w, x, y, rows, es, n).rows = rows /\ OutcomeOf(k, w, x, y, rows, es, n).evidence = es
BY DEF OutcomeOf

LEMMA FailedFields ==
    ASSUME NEW k, NEW w
    PROVE  /\ FailedScan(k, w).kind = k /\ FailedScan(k, w).error = TRUE
           /\ FailedScan(k, w).rows = <<>> /\ FailedScan(k, w).evidence = <<>>
BY DEF FailedScan, OutcomeOf

LEMMA FailKeeps ==
    ASSUME ScanInv, NEW why, Fail(why),
           UNCHANGED <<scan, changed, queue, tasks, wave, plan, cls, audit, adm, result, runtime,
                       taint, stopped, cache, round, draft>>
    PROVE  ScanInv'
<1>1. pc' = "done" /\ Files' = Files /\ Index' = Index
  BY SameFiles DEF Fail
<1>2. /\ outcome'.kind = "failed" /\ outcome'.error = TRUE /\ outcome'.rows = <<>>
      /\ outcome'.evidence = <<>>
  BY FailedFields DEF Fail
<1>3. Types'
  BY <1>1 DEF ScanInv, Types
<1>4. WaitInv'
  <2>1. Queued' = Queued /\ Tasked' = Tasked /\ Flying' = Flying
    BY SameWait
  <2>2. QED
    BY <1>1, <2>1 DEF ScanInv, WaitInv
<1>5. ClassifyInv' /\ ParseInv' /\ SettledInv' /\ DraftInv'
  BY <1>1 DEF ScanInv, ClassifyInv, ParseInv, SettledInv, DraftInv
<1>6. FreshInv'
  BY <1>1 DEF ScanInv, FreshInv
<1>7. TaintInv' /\ StopInv'
  BY <1>1 DEF ScanInv, TaintInv, StopInv
<1>8. DOMAIN outcome'.evidence = {} /\ DOMAIN outcome'.rows = {}
  BY <1>2
<1>9. SourcesAreUnchanged'
  BY <1>1, <1>6, <1>8 DEF SourcesAreUnchanged, FreshInv
<1>10. RowsAreValid'
  BY <1>8 DEF RowsAreValid
<1>11. OutcomeIsExplained'
  BY <1>2 DEF OutcomeIsExplained
<1>12. OutcomeInv'
  BY <1>1, <1>9, <1>10, <1>11 DEF OutcomeInv, OutcomeIsSound
<1>13. QED
  BY <1>1, <1>3, <1>4, <1>5, <1>6, <1>7, <1>12, SamePlan, SameAudit DEF ScanInv

LEMMA LookupFailsKeeps ==
    ASSUME ScanInv, LookupFails
    PROVE  ScanInv'
<1>1. /\ Fail("store")
      /\ UNCHANGED <<scan, changed, queue, tasks, wave, plan, cls, audit, adm, result, runtime,
                     taint, stopped, cache, round, draft>>
  BY DEF LookupFails, roundState
<1>2. QED
  BY <1>1, FailKeeps

-----------------------------------------------------------------------------
(* The classifications.                                                      *)

(* The first of the queue, when the queue is taken on.                       *)
LEMMA QueueMoves ==
    ASSUME Types, WaitInv, queue # <<>>, queue' = Tail(queue), NEW i, i = Head(queue)
    PROVE  /\ i \in Index /\ i \in Queued /\ i \in Waiting /\ i \notin Tasked /\ i \notin Flying
           /\ queue' \in Seq(Index) /\ Distinct(queue') /\ Queued' = Queued \ {i}
<1>1. queue \in Seq(Index) /\ Distinct(queue)
  BY DEF Types, WaitInv
<1>2. /\ i \in Elems(queue) /\ Tail(queue) \in Seq(Index) /\ Distinct(Tail(queue))
      /\ Elems(Tail(queue)) = Elems(queue) \ {i}
  BY <1>1, TailOf
<1>3. Elems(queue) \subseteq Index
  BY <1>1 DEF Elems
<1>4. QED
  BY <1>2, <1>3 DEF Queued, Waiting, WaitInv

LEMMA QueueDrops ==
    ASSUME Types, WaitInv, queue # <<>>, queue' = Tail(queue), NEW i, i = Head(queue),
           UNCHANGED <<pc, tasks, wave>>
    PROVE  /\ WaitInv' /\ Waiting' = Waiting \ {i} /\ Tasked' = Tasked /\ Flying' = Flying
           /\ queue' \in Seq(Index) /\ tasks' \in Seq(Index)
<1>1. /\ i \notin Tasked /\ i \notin Flying /\ queue' \in Seq(Index) /\ Distinct(queue')
      /\ Queued' = Queued \ {i}
  BY QueueMoves
<1>2. Tasked' = Tasked /\ Flying' = Flying
  BY DEF Tasked, Flying
<1>3. pc \notin {"refill", "finish"}
  BY DEF WaitInv
<1>4. QED
  BY <1>1, <1>2, <1>3 DEF WaitInv, Waiting, Types

LEMMA QueueHands ==
    ASSUME Types, WaitInv, queue # <<>>, queue' = Tail(queue), NEW i, i = Head(queue),
           tasks' = Append(tasks, i), UNCHANGED <<pc, wave>>
    PROVE  /\ WaitInv' /\ Waiting' = Waiting /\ Tasked' = Tasked \cup {i} /\ Flying' = Flying
           /\ queue' \in Seq(Index) /\ tasks' \in Seq(Index)
<1>1. /\ i \in Index /\ i \in Queued
      /\ i \notin Tasked /\ i \notin Flying /\ queue' \in Seq(Index) /\ Distinct(queue')
      /\ Queued' = Queued \ {i}
  BY QueueMoves
<1>2. tasks \in Seq(Index) /\ Distinct(tasks) /\ i \notin Elems(tasks)
  BY <1>1 DEF Types, WaitInv, Tasked
<1>3. tasks' \in Seq(Index) /\ Distinct(tasks') /\ Elems(tasks') = Elems(tasks) \cup {i}
  BY <1>1, <1>2, AppendOf
<1>4. Tasked' = Tasked \cup {i} /\ Flying' = Flying
  BY <1>3 DEF Tasked, Flying
<1>5. pc \notin {"refill", "finish"}
  BY DEF WaitInv
<1>6. QED
  BY <1>1, <1>3, <1>4, <1>5 DEF WaitInv, Waiting

(* A step of the classifications: the files that no longer wait have their   *)
(* verdict, were changed, or were stopped; for the others nothing changes.   *)
LEMMA ClassifyStep ==
    ASSUME ScanInv, pc = "classify",
           UNCHANGED <<scan, changed, pc, plan, adm, result, cache, round, draft, outcome>>,
           WaitInv', queue' \in Seq(Index), tasks' \in Seq(Index), wave' \in Seq(WaveItems(Len(Files))),
           Waiting' \subseteq Waiting,
           \A j \in Tasked' \cup Flying' : plan[j].classify = "classify",
           \A k \in 1 .. Len(wave') : wave'[k].out # Pending =>
               Verdicted(Files[wave'[k].i], plan[wave'[k].i], wave'[k].out),
           cls' \in [Index -> Classes], audit' \in [Index -> Audits],
           runtime' \subseteq Index, taint' \subseteq Index,
           stopped => stopped', runtime' # runtime => stopped',
           \A j \in Index : j \in Waiting' \/ j \notin Waiting =>
               /\ cls'[j] = cls[j] /\ audit'[j] = audit[j]
               /\ j \in runtime' <=> j \in runtime
               /\ j \in taint' <=> j \in taint,
           \A j \in Waiting \ Waiting' :
               /\ Audited(j)'
               /\ plan[j].classify = "classify" => j \in runtime' \/ cls'[j].s \notin Verdictless
               /\ j \in taint' => cls'[j].s = "error"
               /\ j \in runtime' => cls'[j].s \in Verdictless
    PROVE  ScanInv'
<1>1. Files' = Files /\ Index' = Index
  BY SameFiles
<1>2. Types'
  BY <1>1 DEF ScanInv, Types
<1>3. \A j \in Waiting : /\ j \in Index /\ j \in draft /\ cls[j].s \in Verdictless /\ j \notin runtime
                         /\ plan[j].classify # "not_pdf"
  BY DEF ScanInv, ClassifyInv, Types
<1>4. \A j \in draft : adm[j].act # "admit" /\ result[j].status = "none"
  BY DEF ScanInv, ClassifyInv
<1>5. ClassifyInv'
  <2>1. \A j \in Waiting' : /\ plan'[j].classify # "not_pdf" /\ j \in draft'
                            /\ cls'[j].s \in Verdictless /\ j \notin runtime'
    BY <1>3
  <2>2. ASSUME NEW j \in draft', plan'[j].classify = "classify"
        PROVE  j \in Waiting' \/ j \in runtime' \/ cls'[j].s \notin Verdictless
    <3>1. j \in Index /\ (j \in Waiting \/ j \in runtime \/ cls[j].s \notin Verdictless)
      BY <2>2 DEF ScanInv, ClassifyInv, Types
    <3>2. QED
      BY <2>2, <3>1
  <2>3. \A j \in draft' : adm'[j].act # "admit" /\ result'[j].status = "none"
    BY <1>4
  <2>4. \A k \in 1 .. Len(wave') : wave'[k].out # Pending =>
               Verdicted(Files'[wave'[k].i], plan'[wave'[k].i], wave'[k].out)
    BY <1>1
  <2>5. QED
    BY <2>1, <2>2, <2>3, <2>4 DEF ClassifyInv
<1>6. SettledInv'
  <2>1. ASSUME NEW j \in Index, j \notin draft PROVE Settled(j)'
    <3>1. Settled(j) /\ j \notin Waiting
      BY <1>3, <2>1 DEF ScanInv, SettledInv
    <3>2. QED
      BY <3>1 DEF Settled
  <2>2. QED
    BY <1>1, <2>1 DEF SettledInv
<1>7. AuditInv'
  <2>1. ASSUME NEW j \in Index PROVE Audited(j)'
    <3>1. CASE j \in Waiting \ Waiting'
      BY <3>1
    <3>2. CASE j \in Waiting' \/ j \notin Waiting
      <4>1. Audited(j) /\ cls'[j] = cls[j] /\ audit'[j] = audit[j]
        BY <3>2 DEF ScanInv, AuditInv
      <4>2. QED
        BY <1>1, <4>1 DEF Audited
    <3>3. QED
      BY <3>1, <3>2
  <2>2. QED
    BY <1>1, <2>1 DEF AuditInv
<1>8. ResultInv'
  <2>1. ASSUME NEW j \in Index
        PROVE  /\ ResultOf(result'[j])
               /\ result'[j].status # "none" => adm'[j].act = "admit" /\ j \notin runtime' /\ ~NoText(j)'
               /\ j \in taint' => result'[j].status = "none" \/ result'[j].code = "SOURCE_VERSION_CHANGED"
               /\ adm'[j].act = "admit" => result'[j].status # "none" \/ j \in runtime' \/ NoText(j)'
    <3>1. /\ ResultOf(result[j])
          /\ result[j].status # "none" => adm[j].act = "admit" /\ j \notin runtime /\ ~NoText(j)
          /\ j \in taint => result[j].status = "none" \/ result[j].code = "SOURCE_VERSION_CHANGED"
          /\ adm[j].act = "admit" => result[j].status # "none" \/ j \in runtime \/ NoText(j)
      BY DEF ScanInv, ResultInv
    <3>2. CASE j \in Waiting
      BY <1>3, <1>4, <3>1, <3>2
    <3>3. CASE j \notin Waiting
      BY <3>1, <3>3 DEF NoText
    <3>4. QED
      BY <3>2, <3>3
  <2>2. QED
    BY <1>1, <2>1 DEF ResultInv
<1>9. TaintInv'
  <2>1. ASSUME NEW j \in taint', result'[j].status = "none" PROVE cls'[j].s = "error"
    BY <2>1 DEF ScanInv, TaintInv
  <2>2. QED
    BY <2>1 DEF TaintInv
<1>10. StopInv'
  <2>1. runtime' # {} => stopped'
    BY DEF ScanInv, StopInv
  <2>2. ASSUME NEW j \in runtime' PROVE cls'[j].s \in Verdictless \/ adm'[j].act = "admit"
    BY <2>2 DEF ScanInv, StopInv
  <2>3. QED
    BY <2>1, <2>2 DEF StopInv
<1>11. FreshInv'
  BY <1>1 DEF ScanInv, FreshInv
<1>12. ParseInv'
  BY DEF ParseInv
<1>13. QED
  BY <1>2, <1>5, <1>6, <1>7, <1>8, <1>9, <1>10, <1>11, <1>12, SamePlan, SameDraft, SameOutcome DEF ScanInv

LEMMA BudgetAuditValid ==
    ASSUME NEW f
    PROVE  BudgetAudit \in Audits /\ BudgetAudit.s = "by_budget" /\ AuditValid(BudgetAudit, f)
<1>1. BudgetAudit \in Audits /\ BudgetAudit.s = "by_budget"
  BY DEF BudgetAudit, Audits, Verdictless
<1>2. 0 <= 0 * 0
  OBVIOUS
<1>3. AuditValid(BudgetAudit, f)
  BY <1>2 DEF AuditValid, BudgetAudit
<1>4. QED
  BY <1>1, <1>3

LEMMA CachedAuditValid ==
    ASSUME NEW f \in Source, NEW n \in Nat \ {0}, NEW k \in KnownVerdicts(f, n), k.s # "none", NEW a,
           a = [s |-> k.s, cache |-> "fresh", examined |-> k.examined, run |-> 0,
                charged |-> n, attempts |-> 0]
    PROVE  a \in Audits /\ a.s = k.s /\ k.s \in Answered /\ AuditValid(a, f)
<1>1. f.pages \in Nat /\ f.found \in Nat
  BY Types7
<1>2. PICK window : window = Least(f.pages, n) /\ window \in Nat
  BY <1>1 DEF Least
<1>3. \/ k.s = "text" /\ k.examined \in 1 .. window
      \/ k.s = "no_text" /\ k.examined = window
  BY <1>2 DEF KnownVerdicts
<1>4. k.examined \in Int
  BY <1>2, <1>3
<1>5. /\ a.s = k.s /\ a.cache = "fresh" /\ a.examined = k.examined /\ a.run = 0 /\ a.charged = n
      /\ a.attempts = 0
  OBVIOUS
<1>6. k.s \in Answered
  BY <1>3 DEF Answered
<1>7. a \in Audits
  BY <1>1, <1>4, <1>6 DEF Audits
<1>8. 0 <= 0 * n
  BY <1>1
<1>9. AuditValid(a, f)
  BY <1>1, <1>2, <1>3, <1>5, <1>8 DEF AuditValid
<1>10. QED
  BY <1>5, <1>6, <1>7, <1>9

LEMMA ChangedClassTyped ==
    /\ ChangedClass \in Classes /\ ChangedClass.s = "error" /\ ChangedClass.code = "SOURCE_VERSION_CHANGED"
    /\ ByBudget \in Classes /\ ByBudget.s = "by_budget" /\ ByBudget.code = "none"
BY DEF ChangedClass, ByBudget, Classes, Verdictless, Refused, ClassCodes

LEMMA LookupClassificationKeeps ==
    ASSUME ScanInv, LookupClassification
    PROVE  ScanInv'
<1>1. PICK i : i = Head(queue)
  OBVIOUS
<1>2. /\ pc = "classify" /\ queue # <<>> /\ queue' = Tail(queue)
      /\ UNCHANGED <<scan, changed, late, pc, wave, plan, adm, result, warned, cache, round, draft, outcome>>
  BY DEF LookupClassification, roundState
<1>3. /\ i \in Index /\ i \in Waiting /\ i \notin Flying
  BY <1>1, <1>2, QueueMoves DEF ScanInv
<1>4. /\ plan[i].classify # "not_pdf" /\ i \in draft /\ cls[i].s \in Verdictless /\ i \notin runtime
      /\ result[i].status = "none" /\ i \notin taint
  BY <1>2, <1>3 DEF ScanInv, ClassifyInv, TaintInv, Verdictless
<1>5. /\ wave' \in Seq(WaveItems(Len(Files)))
      /\ \A k \in 1 .. Len(wave') : wave'[k].out # Pending =>
            Verdicted(Files[wave'[k].i], plan[wave'[k].i], wave'[k].out)
      /\ cls \in [Index -> Classes] /\ audit \in [Index -> Audits] /\ runtime \subseteq Index /\ taint \subseteq Index
  BY <1>2 DEF ScanInv, Types, ClassifyInv
<1>6. \A j \in Tasked \cup Flying : plan[j].classify = "classify"
  BY <1>2 DEF ScanInv, ClassifyInv
<1>7. /\ PlanOf(Files[i], plan[i]) /\ Audited(i) /\ scan \in Scans /\ Files' = Files /\ Index' = Index
      /\ Files[i] \in Source
  BY <1>2, <1>3, SameFiles, FilesTyped DEF ScanInv, PlanInv, AuditInv, Types
<1>8. Verdict(Files[i]) = "pdf" /\ Files[i].guard
  BY <1>4, <1>7 DEF PlanOf
<1>9. audit[i].s \in Verdictless
  BY <1>4, <1>7 DEF Audited
<1>10. ASSUME UNCHANGED tasks
       PROVE  /\ WaitInv' /\ Waiting' = Waiting \ {i} /\ Tasked' = Tasked /\ Flying' = Flying
              /\ queue' \in Seq(Index) /\ tasks' \in Seq(Index)
  BY <1>1, <1>2, <1>10, QueueDrops DEF ScanInv
<1>11. CASE /\ plan[i].classify = "by_budget"
            /\ cls' = [cls EXCEPT ![i] = ByBudget]
            /\ audit' = [audit EXCEPT ![i] = BudgetAudit]
            /\ UNCHANGED <<tasks, runtime, taint, stopped>>
  <2>1. cls' \in [Index -> Classes] /\ audit' \in [Index -> Audits]
    BY <1>3, <1>5, <1>11, BudgetAuditValid, ChangedClassTyped
  <2>2. \A j \in Index \ {i} : cls'[j] = cls[j] /\ audit'[j] = audit[j]
    BY <1>5, <1>11
  <2>3. cls'[i] = ByBudget /\ audit'[i] = BudgetAudit
    BY <1>3, <1>5, <1>11
  <2>4. Audited(i)'
    BY <1>2, <1>7, <1>8, <2>3, BudgetAuditValid, ChangedClassTyped DEF Audited, Verdictless, Answered
  <2>5. QED
    BY <1>2, <1>3, <1>4, <1>5, <1>6, <1>10, <1>11, <2>1, <2>2, <2>3, <2>4, ClassifyStep
<1>12. CASE /\ plan[i].classify = "classify" /\ late
            /\ runtime' = runtime \cup {i}
            /\ stopped' = TRUE
            /\ UNCHANGED <<tasks, cls, audit, taint>>
  <2>1. Audited(i)'
    BY <1>2, <1>7, <1>12 DEF Audited
  <2>2. runtime' \subseteq Index
    BY <1>3, <1>5, <1>12
  <2>3. QED
    BY <1>2, <1>3, <1>4, <1>5, <1>6, <1>10, <1>12, <2>1, <2>2, ClassifyStep
<1>13. CASE /\ plan[i].classify = "classify" /\ ~late /\ ~Verified(i)
            /\ taint' = taint \cup {i}
            /\ cls' = [cls EXCEPT ![i] = ChangedClass]
            /\ UNCHANGED <<tasks, audit, runtime, stopped>>
  <2>1. cls' \in [Index -> Classes] /\ taint' \subseteq Index
    BY <1>3, <1>5, <1>13, ChangedClassTyped
  <2>2. \A j \in Index \ {i} : cls'[j] = cls[j]
    BY <1>5, <1>13
  <2>3. cls'[i] = ChangedClass
    BY <1>3, <1>5, <1>13
  <2>4. Audited(i)'
    BY <1>2, <1>7, <1>8, <1>9, <1>13, <2>3, ChangedClassTyped DEF Audited, Verdictless, Answered, Refused
  <2>5. ChangedClass.s \notin Verdictless
    BY ChangedClassTyped DEF Verdictless
  <2>6. QED
    BY <1>2, <1>3, <1>4, <1>5, <1>6, <1>10, <1>13, <2>1, <2>2, <2>3, <2>4, <2>5, ChangedClassTyped, ClassifyStep
<1>14. plan[i].pages \in Nat /\ (plan[i].classify = "classify" => plan[i].pages \in Nat \ {0})
  BY <1>7 DEF PlanOf, Plans
<1>15. \A known \in CachedClasses(i) : known \in KnownVerdicts(Files[i], plan[i].pages)
  BY <1>3, <1>7, FilesTyped DEF CachedClasses
<1>16. ASSUME NEW known \in CachedClasses(i), NEW c, NEW a,
              c = [s |-> known.s, code |-> "none"],
              a = [s |-> known.s, cache |-> "fresh", examined |-> known.examined, run |-> 0,
                   charged |-> plan[i].pages, attempts |-> 0],
              plan[i].classify = "classify" /\ known.s # "none",
              cls' = [cls EXCEPT ![i] = c],
              audit' = [audit EXCEPT ![i] = a],
              UNCHANGED <<tasks, runtime, taint, stopped>>
       PROVE  ScanInv'
  <2>1. plan[i].pages \in Nat \ {0}
    BY <1>14, <1>16
  <2>2. known \in KnownVerdicts(Files[i], plan[i].pages)
    BY <1>15
  <2>3. a \in Audits /\ a.s = known.s /\ known.s \in Answered /\ AuditValid(a, Files[i])
    BY <1>7, <1>16, <2>1, <2>2, CachedAuditValid
  <2>4. c \in Classes /\ c.s = known.s /\ c.code = "none"
    BY <1>16, <2>3 DEF Classes, ClassCodes
  <2>5. cls' \in [Index -> Classes] /\ audit' \in [Index -> Audits]
    BY <1>3, <1>5, <1>16, <2>3, <2>4
  <2>6. \A j \in Index \ {i} : cls'[j] = cls[j] /\ audit'[j] = audit[j]
    BY <1>5, <1>16
  <2>7. cls'[i] = c /\ audit'[i] = a
    BY <1>3, <1>5, <1>16
  <2>8. c.s \notin Verdictless
    BY <2>3, <2>4 DEF Verdictless, Answered
  <2>9. Audited(i)'
    BY <1>2, <1>7, <1>8, <1>16, <2>3, <2>4, <2>7, <2>8 DEF Audited
  <2>10. QED
    BY <1>2, <1>3, <1>4, <1>5, <1>6, <1>10, <1>16, <2>5, <2>6, <2>7, <2>8, <2>9, ClassifyStep
<1>17. CASE /\ plan[i].classify = "classify"
            /\ tasks' = Append(tasks, i)
            /\ UNCHANGED <<cls, audit, runtime, taint, stopped>>
  <2>1. /\ WaitInv' /\ Waiting' = Waiting /\ Tasked' = Tasked \cup {i} /\ Flying' = Flying
        /\ queue' \in Seq(Index) /\ tasks' \in Seq(Index)
    BY <1>1, <1>2, <1>17, QueueHands DEF ScanInv
  <2>2. QED
    BY <1>2, <1>3, <1>4, <1>5, <1>6, <1>17, <2>1, ClassifyStep
<1>18. ASSUME NEW known \in CachedClasses(i), plan[i].classify = "classify", known.s # "none",
              cls' = [cls EXCEPT ![i] = [s |-> known.s, code |-> "none"]],
              audit' = [audit EXCEPT ![i] =
                  [s |-> known.s, cache |-> "fresh", examined |-> known.examined, run |-> 0,
                   charged |-> plan[i].pages, attempts |-> 0]],
              UNCHANGED <<tasks, runtime, taint, stopped>>
       PROVE  ScanInv'
  BY <1>16, <1>18
<1>19. QED
  BY <1>1, <1>11, <1>12, <1>13, <1>17, <1>18 DEF LookupClassification

(* The files handed to the workers.                                          *)
Handed(s) == [k \in 1 .. Len(s) |-> [i |-> s[k], out |-> Pending]]
Unanswered(w, n, S) ==
    /\ w \in Seq(WaveItems(n)) /\ {w[k].i : k \in 1 .. Len(w)} = S
    /\ \A k, l \in 1 .. Len(w) : w[k].i = w[l].i => k = l
    /\ \A k \in 1 .. Len(w) : w[k].out = Pending

LEMMA HandedOut ==
    ASSUME NEW n \in Nat, NEW s \in Seq(1 .. n), Distinct(s)
    PROVE  Unanswered(Handed(s), n, Elems(s))
<1>. DEFINE w == Handed(s)
<1>10. w = [k \in 1 .. Len(s) |-> [i |-> s[k], out |-> Pending]]
  BY DEF Handed
<1>. HIDE DEF w
<1>0. SUFFICES
           /\ w \in Seq(WaveItems(n)) /\ {w[k].i : k \in 1 .. Len(w)} = Elems(s)
           /\ \A k, l \in 1 .. Len(w) : w[k].i = w[l].i => k = l
           /\ \A k \in 1 .. Len(w) : w[k].out = Pending
  BY DEF Unanswered, w
<1>1. PICK m : m = Len(s) /\ m \in Nat
  OBVIOUS
<1>2. \A k \in 1 .. m : s[k] \in 1 .. n
  BY <1>1
<1>3. \A k \in 1 .. m : w[k] = [i |-> s[k], out |-> Pending]
  BY <1>1, <1>10
<1>4. ASSUME NEW k \in 1 .. m
      PROVE  w[k].i = s[k] /\ w[k].out = Pending /\ w[k] \in WaveItems(n)
  <2>1. PICK O : O = {Pending} \cup Verdictions \cup Results
    OBVIOUS
  <2>2. PICK x, p : x = s[k] /\ p = Pending
    OBVIOUS
  <2>3. p \in O /\ x \in 1 .. n /\ w[k] = [i |-> x, out |-> p]
    BY <1>2, <1>3, <2>1, <2>2
  <2>4. w[k] \in [i : 1 .. n, out : O] /\ w[k].i = x /\ w[k].out = p
    BY <2>3
  <2>5. QED
    BY <2>1, <2>2, <2>4 DEF WaveItems
<1>5. w \in Seq(WaveItems(n)) /\ Len(w) = m
  <2>1. w \in [1 .. m -> WaveItems(n)]
    BY <1>1, <1>4, <1>10
  <2>2. QED
    BY <1>1, <2>1
<1>6. {w[k].i : k \in 1 .. Len(w)} = Elems(s)
  BY <1>1, <1>4, <1>5 DEF Elems
<1>7. \A k, l \in 1 .. Len(w) : w[k].i = w[l].i => k = l
  BY <1>1, <1>4, <1>5 DEF Distinct
<1>8. QED
  BY <1>4, <1>5, <1>6, <1>7

LEMMA NextWaveOf ==
    ASSUME Types, WaitInv
    PROVE  /\ NextWave \in Seq(Index) /\ AfterWave \in Seq(Index)
           /\ Distinct(NextWave) /\ Distinct(AfterWave)
           /\ Tasked = Elems(NextWave) \cup Elems(AfterWave)
           /\ Elems(NextWave) \cap Elems(AfterWave) = {}
<1>1. tasks \in Seq(Index) /\ Distinct(tasks) /\ Len(tasks) \in Nat
  BY DEF Types, WaitInv
<1>2. PICK m : m = Least(Workers, Len(tasks)) /\ m \in 0 .. Len(tasks)
  BY <1>1, SchedulerAssumption DEF Least
<1>3. NextWave = SubSeq(tasks, 1, m)
  BY <1>2 DEF NextWave
<1>4. /\ SubSeq(tasks, 1, m) \in Seq(Index) /\ SubSeq(tasks, m + 1, Len(tasks)) \in Seq(Index)
      /\ Len(SubSeq(tasks, 1, m)) = m
      /\ Distinct(SubSeq(tasks, 1, m)) /\ Distinct(SubSeq(tasks, m + 1, Len(tasks)))
      /\ Elems(tasks) = Elems(SubSeq(tasks, 1, m)) \cup Elems(SubSeq(tasks, m + 1, Len(tasks)))
      /\ Elems(SubSeq(tasks, 1, m)) \cap Elems(SubSeq(tasks, m + 1, Len(tasks))) = {}
  BY <1>1, <1>2, SplitOf
<1>5. AfterWave = SubSeq(tasks, m + 1, Len(tasks))
  BY <1>3, <1>4 DEF AfterWave
<1>6. QED
  BY <1>3, <1>4, <1>5 DEF Tasked

LEMMA ToSetIsElems ==
    ASSUME NEW T, NEW s \in Seq(T)
    PROVE  ToSet(s) = Elems(s)
BY DEF ToSet, Elems

LEMMA DispatchClassificationsKeeps ==
    ASSUME ScanInv, DispatchClassifications
    PROVE  ScanInv'
<1>1. /\ pc = "classify" /\ queue = <<>> /\ wave = <<>>
      /\ UNCHANGED <<scan, changed, late, pc, queue, plan, cls, audit, adm, result, taint, warned, cache,
                     round, draft, outcome>>
  BY DEF DispatchClassifications, roundState
<1>2. Types /\ WaitInv /\ ClassifyInv /\ AuditInv /\ scan \in Scans /\ Files' = Files /\ Index' = Index
  BY <1>1, SameFiles DEF ScanInv, Types
<1>3. /\ cls' \in [Index -> Classes] /\ audit' \in [Index -> Audits] /\ taint' \subseteq Index
      /\ queue' \in Seq(Index) /\ tasks \in Seq(Index) /\ runtime \subseteq Index
      /\ wave \in Seq(WaveItems(Len(Files)))
  BY <1>1, <1>2 DEF Types
<1>4. Queued = {} /\ Queued' = {} /\ Flying = {} /\ Waiting = Tasked
  BY <1>1 DEF Queued, Flying, Waiting, Elems
<1>5. \A j \in Tasked : /\ plan[j].classify = "classify" /\ cls[j].s \in Verdictless /\ j \notin runtime
                        /\ j \in draft /\ result[j].status = "none" /\ j \in Index
  BY <1>1, <1>2, <1>4 DEF ClassifyInv, Types
<1>6. CASE /\ runtime' = runtime \cup ToSet(tasks)
           /\ stopped' = TRUE
           /\ tasks' = <<>>
           /\ UNCHANGED wave
  <2>1. ToSet(tasks) = Tasked
    BY <1>3, ToSetIsElems DEF Tasked
  <2>2. Waiting' = {} /\ Tasked' = {} /\ Flying' = {} /\ Queued' = {} /\ Len(wave') = 0 /\ tasks' \in Seq(Index)
    BY <1>1, <1>6 DEF Waiting, Tasked, Flying, Queued, Elems
  <2>3. WaitInv'
    <3>1. Distinct(queue') /\ Distinct(tasks')
      BY <1>1, <1>6 DEF Distinct
    <3>2. QED
      BY <1>1, <2>2, <3>1 DEF WaitInv
  <2>4. \A j \in Tasked : Audited(j)'
    <3>1. ASSUME NEW j \in Tasked PROVE Audited(j)'
      <4>1. Audited(j)
        BY <1>2, <1>5 DEF AuditInv
      <4>2. QED
        BY <1>1, <1>2, <4>1 DEF Audited
    <3>2. QED
      BY <3>1
  <2>5. \A j \in Tasked : j \notin taint
    BY <1>1, <1>5 DEF ScanInv, TaintInv, Verdictless
  <2>6. runtime' \subseteq Index /\ wave' \in Seq(WaveItems(Len(Files)))
    BY <1>3, <1>5, <1>6, <2>1
  <2>7. \A j \in Index : j \in Waiting' \/ j \notin Waiting =>
               /\ cls'[j] = cls[j] /\ audit'[j] = audit[j]
               /\ j \in runtime' <=> j \in runtime
               /\ j \in taint' <=> j \in taint
    BY <1>1, <1>4, <1>6, <2>1, <2>2
  <2>8. QED
    BY <1>1, <1>2, <1>3, <1>4, <1>5, <1>6, <2>1, <2>2, <2>3, <2>4, <2>5, <2>6, <2>7, ClassifyStep
<1>7. CASE /\ wave' = [k \in 1..Len(NextWave) |-> [i |-> NextWave[k], out |-> Pending]]
           /\ tasks' = AfterWave
           /\ UNCHANGED <<runtime, stopped>>
  <2>1. /\ NextWave \in Seq(Index) /\ AfterWave \in Seq(Index)
        /\ Distinct(NextWave) /\ Distinct(AfterWave)
        /\ Tasked = Elems(NextWave) \cup Elems(AfterWave)
        /\ Elems(NextWave) \cap Elems(AfterWave) = {}
    BY <1>2, NextWaveOf
  <2>2. Len(Files) \in Nat /\ Index = 1 .. Len(Files)
    BY <1>2, FilesTyped
  <2>3. /\ wave' \in Seq(WaveItems(Len(Files))) /\ {wave'[k].i : k \in 1 .. Len(wave')} = Elems(NextWave)
        /\ \A k, l \in 1 .. Len(wave') : wave'[k].i = wave'[l].i => k = l
        /\ \A k \in 1 .. Len(wave') : wave'[k].out = Pending
    <3>1. wave' = Handed(NextWave)
      BY <1>7 DEF Handed
    <3>2. Unanswered(Handed(NextWave), Len(Files), Elems(NextWave))
      BY <2>1, <2>2, HandedOut
    <3>3. QED
      BY <3>1, <3>2 DEF Unanswered
  <2>4. Flying' = Elems(NextWave) /\ Tasked' = Elems(AfterWave) /\ tasks' \in Seq(Index)
    BY <1>7, <2>1, <2>3 DEF Flying, Tasked
  <2>5. Waiting' = Waiting
    BY <1>4, <2>1, <2>4 DEF Waiting
  <2>6. WaitInv'
    <3>1. Distinct(queue') /\ Distinct(tasks')
      BY <1>1, <1>7, <2>1 DEF Distinct
    <3>2. QED
      BY <1>1, <1>4, <2>1, <2>3, <2>4, <3>1 DEF WaitInv
  <2>7. \A j \in Tasked' \cup Flying' : plan[j].classify = "classify"
    BY <1>5, <2>1, <2>4
  <2>8. QED
    BY <1>1, <1>2, <1>3, <1>7, <2>3, <2>4, <2>5, <2>6, <2>7, ClassifyStep
<1>8. QED
  BY <1>6, <1>7 DEF DispatchClassifications

(* An answer arrives.                                                        *)
Heard(w, k, o) == [w EXCEPT ![k].out = o]
Hears(v, n, w, k, o) ==
    /\ v \in Seq(WaveItems(n)) /\ Len(v) = Len(w)
    /\ \A j \in 1 .. Len(w) : v[j].i = w[j].i
    /\ v[k].out = o /\ \A j \in 1 .. Len(w) : j # k => v[j] = w[j]

LEMMA AnswerOf ==
    ASSUME NEW n, NEW w \in Seq(WaveItems(n)), NEW k \in 1 .. Len(w),
           NEW o \in {Pending} \cup Verdictions \cup Results
    PROVE  Hears(Heard(w, k, o), n, w, k, o)
<1>0. PICK v : v = Heard(w, k, o)
  OBVIOUS
<1>1. PICK x, y : x = w[k] /\ y = [x EXCEPT !.out = o]
  OBVIOUS
<1>2. x \in WaveItems(n) /\ DOMAIN w = 1 .. Len(w)
  BY <1>1
<1>3. y \in WaveItems(n) /\ y.i = x.i /\ y.out = o
  BY <1>1, <1>2 DEF WaveItems
<1>4. v = [w EXCEPT ![k] = y]
  BY <1>0, <1>1 DEF Heard
<1>5. v \in Seq(WaveItems(n)) /\ Len(v) = Len(w)
  BY <1>3, <1>4
<1>6. v[k] = y /\ \A j \in 1 .. Len(w) : j # k => v[j] = w[j]
  BY <1>2, <1>4
<1>7. QED
  BY <1>0, <1>1, <1>3, <1>5, <1>6 DEF Hears

LEMMA SameFlight ==
    ASSUME WaitInv, Len(wave') = Len(wave), \A j \in 1 .. Len(wave) : wave'[j].i = wave[j].i,
           wave # <<>>, UNCHANGED <<pc, queue, tasks>>
    PROVE  Queued' = Queued /\ Tasked' = Tasked /\ Flying' = Flying /\ Waiting' = Waiting /\ WaitInv'
<1>1. Flying' = Flying
  BY DEF Flying
<1>2. Queued' = Queued /\ Tasked' = Tasked
  BY DEF Queued, Tasked
<1>3. \A k, l \in 1 .. Len(wave') : wave'[k].i = wave'[l].i => k = l
  BY DEF WaitInv
<1>4. pc \notin {"refill", "finish"}
  BY DEF WaitInv
<1>5. QED
  BY <1>1, <1>2, <1>3, <1>4 DEF WaitInv, Waiting

LEMMA VerdictsTyped ==
    ASSUME scan \in Scans, NEW i \in Index, plan[i] \in Plans, NEW o \in Verdicts(i)
    PROVE  Verdicted(Files[i], plan[i], o)
<1>1. PICK f, p : f = Files[i] /\ p = plan[i]
  OBVIOUS
<1>2. f.pages \in Nat /\ f.found \in Nat /\ p.pages \in Nat
  <2>1. f \in Source /\ p \in Plans
    BY <1>1, FilesTyped
  <2>2. p.pages \in Nat
    BY <2>1 DEF Plans
  <2>3. QED
    BY <2>1, <2>2, Types7
<1>3. PICK window : window = Least(f.pages, p.pages) /\ window \in Nat
  BY <1>2 DEF Least
<1>4. \/ \E n \in {1, 2} : o = [s |-> IF f.found \in 1 .. window THEN "text" ELSE "no_text", code |-> "none",
                                examined |-> IF f.found \in 1 .. window THEN f.found ELSE window, attempts |-> n]
      \/ \E s \in {"unknown", "error"} : \E n \in {0, 1} :
         \E c \in {"PARSER_TIMEOUT", "PARSER_FAILED", "PDF_PROTECTED", "SOURCE_VERSION_CHANGED"} :
            o = [s |-> s, code |-> c, examined |-> -1, attempts |-> n]
  BY <1>1, <1>3 DEF Verdicts
<1>5. ASSUME NEW n \in {1, 2},
             o = [s |-> IF f.found \in 1 .. window THEN "text" ELSE "no_text", code |-> "none",
                  examined |-> IF f.found \in 1 .. window THEN f.found ELSE window, attempts |-> n]
      PROVE  Verdicted(f, p, o)
  <2>1. PICK s, e : /\ s = IF f.found \in 1 .. window THEN "text" ELSE "no_text"
                    /\ e = IF f.found \in 1 .. window THEN f.found ELSE window
    OBVIOUS
  <2>2. /\ s \in Answered /\ e \in Int
        /\ IF s = "text" THEN e \in 1 .. window ELSE e = window
    BY <1>2, <1>3, <2>1 DEF Answered
  <2>3. o = [s |-> s, code |-> "none", examined |-> e, attempts |-> n]
    BY <1>5, <2>1
  <2>4. o.s = s /\ o.code = "none" /\ o.examined = e /\ o.attempts = n /\ n \in Nat
    BY <2>3
  <2>5. o \in Verdictions
    BY <2>2, <2>3, <2>4 DEF Verdictions, ClassCodes
  <2>6. QED
    BY <1>3, <2>2, <2>4, <2>5 DEF Verdicted
<1>6. ASSUME NEW s \in {"unknown", "error"}, NEW n \in {0, 1},
             NEW c \in {"PARSER_TIMEOUT", "PARSER_FAILED", "PDF_PROTECTED", "SOURCE_VERSION_CHANGED"},
             o = [s |-> s, code |-> c, examined |-> -1, attempts |-> n]
      PROVE  Verdicted(f, p, o)
  <2>1. o.s = s /\ o.code = c /\ o.examined = -1 /\ o.attempts = n /\ n \in Nat /\ s \in Refused
    BY <1>6 DEF Refused
  <2>2. o \in Verdictions
    BY <1>6, <2>1 DEF Verdictions, ClassCodes
  <2>3. QED
    BY <2>1, <2>2 DEF Verdicted
<1>7. QED
  BY <1>1, <1>4, <1>5, <1>6

LEMMA ReturnVerdictKeeps ==
    ASSUME ScanInv, ReturnVerdict
    PROVE  ScanInv'
<1>1. /\ pc = "classify"
      /\ UNCHANGED <<scan, changed, late, pc, queue, tasks, plan, cls, audit, adm, result, runtime, taint,
                     stopped, warned, cache, round, draft, outcome>>
  BY DEF ReturnVerdict, roundState
<1>2. Types /\ WaitInv /\ ClassifyInv /\ scan \in Scans
  BY DEF ScanInv, Types
<1>3. wave \in Seq(WaveItems(Len(Files))) /\ DOMAIN wave = 1 .. Len(wave)
  BY <1>2 DEF Types
<1>4. PICK k \in 1 .. Len(wave) : \E o \in Verdicts(wave[k].i) : wave' = [wave EXCEPT ![k].out = o]
  BY <1>3 DEF ReturnVerdict
<1>5. PICK o \in Verdicts(wave[k].i) : wave' = [wave EXCEPT ![k].out = o]
  BY <1>4
<1>6. PICK i : i = wave[k].i
  OBVIOUS
<1>7. i \in Index /\ plan[i] \in Plans
  <2>1. wave[k] \in WaveItems(Len(Files))
    BY <1>3
  <2>2. i \in 1 .. Len(Files)
    BY <1>6, <2>1 DEF WaveItems
  <2>3. QED
    BY <1>2, <2>2 DEF Types, Index
<1>8. Verdicted(Files[i], plan[i], o)
  BY <1>2, <1>5, <1>6, <1>7, VerdictsTyped
<1>9. o \in Verdictions
  BY <1>8 DEF Verdicted
<1>10. /\ wave' \in Seq(WaveItems(Len(Files))) /\ Len(wave') = Len(wave)
       /\ \A j \in 1 .. Len(wave) : wave'[j].i = wave[j].i
       /\ wave'[k].out = o /\ \A j \in 1 .. Len(wave) : j # k => wave'[j] = wave[j]
  <2>1. Hears(Heard(wave, k, o), Len(Files), wave, k, o)
    BY <1>3, <1>9, AnswerOf
  <2>2. wave' = Heard(wave, k, o)
    BY <1>5 DEF Heard
  <2>3. QED
    BY <2>1, <2>2 DEF Hears
<1>11. wave # <<>>
  BY <1>4
<1>12. Queued' = Queued /\ Tasked' = Tasked /\ Flying' = Flying /\ Waiting' = Waiting /\ WaitInv'
  BY <1>1, <1>2, <1>10, <1>11, SameFlight
<1>13. \A j \in 1 .. Len(wave') : wave'[j].out # Pending =>
               Verdicted(Files[wave'[j].i], plan[wave'[j].i], wave'[j].out)
  BY <1>1, <1>2, <1>6, <1>8, <1>10 DEF ClassifyInv
<1>14. /\ \A j \in Tasked' \cup Flying' : plan[j].classify = "classify"
       /\ cls' \in [Index -> Classes] /\ audit' \in [Index -> Audits]
       /\ runtime' \subseteq Index /\ taint' \subseteq Index /\ queue' \in Seq(Index) /\ tasks' \in Seq(Index)
  BY <1>1, <1>2, <1>12 DEF ClassifyInv, Types
<1>15. QED
  BY <1>1, <1>10, <1>12, <1>13, <1>14, ClassifyStep

(* The first of the wave is settled.                                         *)
LEMMA WaveMoves ==
    ASSUME Types, WaitInv, wave # <<>>, wave' = Tail(wave), NEW i, i = Head(wave).i,
           UNCHANGED <<scan, pc, queue, tasks>>
    PROVE  /\ i \in Index /\ i \in Flying /\ i \in Waiting /\ Flying' = Flying \ {i} /\ Tasked' = Tasked
           /\ Queued' = Queued /\ Waiting' = Waiting \ {i} /\ WaitInv'
           /\ wave' \in Seq(WaveItems(Len(Files))) /\ queue' \in Seq(Index) /\ tasks' \in Seq(Index)
           /\ Len(wave) \in Nat /\ Len(wave) >= 1 /\ Len(wave') = Len(wave) - 1 /\ Head(wave) = wave[1]
           /\ \A k \in 1 .. Len(wave') : k + 1 \in 1 .. Len(wave) /\ wave'[k] = wave[k + 1]
<1>1. wave \in Seq(WaveItems(Len(Files))) /\ queue \in Seq(Index) /\ tasks \in Seq(Index)
  BY DEF Types
<1>2. /\ wave' \in Seq(WaveItems(Len(Files))) /\ Len(wave') = Len(wave) - 1 /\ Len(wave) \in Nat /\ Len(wave) >= 1
      /\ \A k \in 1 .. Len(wave) - 1 : wave'[k] = wave[k + 1]
      /\ Head(wave) = wave[1] /\ wave[1] \in WaveItems(Len(Files))
  BY <1>1
<1>3. \A k \in 1 .. Len(wave') : k + 1 \in 1 .. Len(wave) /\ wave'[k] = wave[k + 1]
  BY <1>2
<1>4. i = wave[1].i /\ 1 \in 1 .. Len(wave)
  BY <1>2
<1>5. i \in Index
  BY <1>2, <1>4 DEF WaveItems, Index
<1>6. \A k, l \in 1 .. Len(wave) : wave[k].i = wave[l].i => k = l
  BY DEF WaitInv
<1>7. i \in Flying
  BY <1>4 DEF Flying
<1>8. Flying' \subseteq Flying \ {i}
  <2>1. ASSUME NEW k \in 1 .. Len(wave') PROVE wave'[k].i \in Flying \ {i}
    <3>1. k + 1 \in 1 .. Len(wave) /\ wave'[k].i = wave[k + 1].i /\ k + 1 # 1
      BY <1>2, <1>3
    <3>2. wave[k + 1].i # wave[1].i
      BY <1>4, <1>6, <3>1
    <3>3. QED
      BY <1>4, <3>1, <3>2 DEF Flying
  <2>2. QED
    BY <2>1 DEF Flying
<1>9. ASSUME NEW j \in Flying \ {i} PROVE j \in Flying'
  <2>1. PICK k \in 1 .. Len(wave) : j = wave[k].i
    BY DEF Flying
  <2>2. k # 1
    BY <1>4, <2>1
  <2>3. k - 1 \in 1 .. Len(wave') /\ k - 1 \in 1 .. Len(wave) - 1 /\ (k - 1) + 1 = k
    BY <1>2, <2>2
  <2>4. wave'[k - 1].i = j
    BY <1>2, <2>1, <2>3
  <2>5. QED
    BY <2>3, <2>4 DEF Flying
<1>10. Flying' = Flying \ {i}
  BY <1>8, <1>9
<1>11. Tasked' = Tasked /\ Queued' = Queued
  BY DEF Tasked, Queued
<1>12. \A k, l \in 1 .. Len(wave') : wave'[k].i = wave'[l].i => k = l
  <2>1. ASSUME NEW k \in 1 .. Len(wave'), NEW l \in 1 .. Len(wave'), wave'[k].i = wave'[l].i PROVE k = l
    <3>1. k + 1 = l + 1
      BY <1>3, <1>6, <2>1
    <3>2. QED
      BY <1>2, <3>1
  <2>2. QED
    BY <2>1
<1>13. pc \notin {"refill", "finish"}
  BY DEF WaitInv
<1>14. WaitInv'
  BY <1>10, <1>11, <1>12, <1>13 DEF WaitInv
<1>15. Waiting' = Waiting \ {i} /\ i \in Waiting
  BY <1>7, <1>10, <1>11 DEF Waiting, WaitInv
<1>16. QED
  BY <1>1, <1>2, <1>3, <1>5, <1>7, <1>10, <1>11, <1>14, <1>15

AnswerAudit(o, p) ==
    [s |-> o.s, cache |-> "miss", examined |-> o.examined, run |-> IF o.attempts = 1 THEN o.examined ELSE -1,
     charged |-> p.pages, attempts |-> o.attempts]

LEMMA AnswerAuditValid ==
    ASSUME NEW f \in Source, NEW p \in Plans, p.pages > 0, NEW o, Verdicted(f, p, o), o.attempts > 0
    PROVE  AnswerAudit(o, p) \in Audits /\ AnswerAudit(o, p).s = o.s /\ AuditValid(AnswerAudit(o, p), f)
<1>1. PICK a, m : a = AnswerAudit(o, p) /\ m = p.pages
  OBVIOUS
<1>2. f.pages \in Nat /\ m \in Nat /\ m > 0
  <2>1. m \in Nat
    BY <1>1 DEF Plans
  <2>2. QED
    BY <1>1, <2>1, Types7
<1>3. PICK window : window = Least(f.pages, m) /\ window \in Nat /\ window <= m
  BY <1>2 DEF Least
<1>4. /\ o \in Verdictions
      /\ \/ /\ o.s \in Answered /\ o.attempts \in {1, 2}
            /\ IF o.s = "text" THEN o.examined \in 1 .. window ELSE o.examined = window
         \/ o.s \in Refused /\ o.attempts \in {0, 1} /\ o.examined = -1
  BY <1>1, <1>3 DEF Verdicted
<1>5. PICK r : r = IF o.attempts = 1 THEN o.examined ELSE -1
  OBVIOUS
<1>6. o.examined \in Int /\ r \in Int /\ o.attempts \in Nat /\ o.s \in Answered \cup Refused
  BY <1>4, <1>5 DEF Verdictions
<1>7. /\ a.s = o.s /\ a.cache = "miss" /\ a.examined = o.examined /\ a.run = r /\ a.charged = m
      /\ a.attempts = o.attempts
      /\ a = [s |-> o.s, cache |-> "miss", examined |-> o.examined, run |-> r, charged |-> m, attempts |-> o.attempts]
  BY <1>1, <1>5 DEF AnswerAudit
<1>8. a \in Audits
  <2>1. o.s \in Verdictless \cup Answered \cup Refused /\ m \in Int /\ o.attempts \in Int
    BY <1>2, <1>6
  <2>2. QED
    BY <1>6, <1>7, <2>1 DEF Audits
<1>9. o.examined <= m
  BY <1>2, <1>3, <1>4
<1>10. r # -1 => r <= o.attempts * m /\ r >= o.examined
  <2>1. SUFFICES ASSUME r # -1 PROVE r <= o.attempts * m /\ r >= o.examined
    OBVIOUS
  <2>2. o.attempts = 1 /\ r = o.examined
    BY <1>5, <2>1
  <2>3. 1 * m = m
    BY <1>2
  <2>4. QED
    BY <1>2, <1>6, <1>9, <2>2, <2>3
<1>11. AuditValid(a, f)
  <2>1. CASE o.s \in Answered
    <3>1. /\ o.attempts > 0 /\ o.s \notin Refused
          /\ IF o.s = "text" THEN o.examined \in 1 .. window ELSE o.examined = window
      BY <1>4, <2>1 DEF Answered, Refused
    <3>2. QED
      BY <1>2, <1>3, <1>7, <1>10, <2>1, <3>1 DEF AuditValid, Answered
  <2>2. CASE o.s \in Refused
    BY <1>2, <1>7, <1>9, <1>10, <2>2 DEF AuditValid, Refused
  <2>3. QED
    BY <1>6, <2>1, <2>2
<1>12. QED
  BY <1>1, <1>7, <1>8, <1>11

LEMMA SettleVerdictKeeps ==
    ASSUME ScanInv, SettleVerdict
    PROVE  ScanInv'
<1>1. PICK i, o : i = Head(wave).i /\ o = Head(wave).out
  OBVIOUS
<1>2. PICK kept : kept = [s |-> o.s, code |-> o.code]
  OBVIOUS
<1>3. /\ pc = "classify" /\ wave # <<>> /\ wave' = Tail(wave) /\ (\A k \in DOMAIN wave : wave[k].out # Pending)
      /\ UNCHANGED <<scan, changed, pc, queue, tasks, plan, adm, result, runtime, cache, round, draft, outcome>>
  BY DEF SettleVerdict, roundState
<1>4. Types /\ WaitInv /\ ClassifyInv /\ scan \in Scans /\ Files' = Files /\ Index' = Index
  BY <1>3, SameFiles DEF ScanInv, Types
<1>5. /\ i \in Index /\ i \in Flying /\ i \in Waiting /\ Flying' = Flying \ {i} /\ Tasked' = Tasked
      /\ Queued' = Queued /\ Waiting' = Waiting \ {i} /\ WaitInv'
      /\ wave' \in Seq(WaveItems(Len(Files))) /\ queue' \in Seq(Index) /\ tasks' \in Seq(Index)
      /\ Len(wave) \in Nat /\ Len(wave) >= 1 /\ Len(wave') = Len(wave) - 1 /\ Head(wave) = wave[1]
      /\ \A k \in 1 .. Len(wave') : k + 1 \in 1 .. Len(wave) /\ wave'[k] = wave[k + 1]
  BY <1>1, <1>3, <1>4, WaveMoves
<1>6. /\ plan[i].classify = "classify" /\ i \in draft /\ cls[i].s \in Verdictless /\ i \notin runtime
      /\ result[i].status = "none"
  BY <1>3, <1>4, <1>5 DEF ClassifyInv
<1>7. i \notin taint
  BY <1>6 DEF ScanInv, TaintInv, Verdictless
<1>8. \A k \in 1 .. Len(wave) : wave[k].out # Pending => Verdicted(Files[wave[k].i], plan[wave[k].i], wave[k].out)
  BY <1>3, <1>4 DEF ClassifyInv
<1>9. Verdicted(Files[i], plan[i], o)
  <2>1. 1 \in 1 .. Len(wave) /\ 1 \in DOMAIN wave /\ i = wave[1].i /\ o = wave[1].out
    BY <1>1, <1>4, <1>5 DEF Types
  <2>2. QED
    BY <1>3, <1>8, <2>1
<1>10. \A k \in 1 .. Len(wave') : wave'[k].out # Pending =>
               Verdicted(Files[wave'[k].i], plan[wave'[k].i], wave'[k].out)
  BY <1>5, <1>8
<1>11. \A j \in Tasked' \cup Flying' : plan[j].classify = "classify"
  BY <1>3, <1>4, <1>5 DEF ClassifyInv
<1>12. /\ cls \in [Index -> Classes] /\ audit \in [Index -> Audits] /\ runtime' \subseteq Index /\ taint \subseteq Index
       /\ Files[i] \in Source /\ plan[i] \in Plans
  BY <1>3, <1>4, <1>5, FilesTyped DEF Types
<1>13. Audited(i) /\ audit[i].s \in Verdictless /\ PlanOf(Files[i], plan[i])
  BY <1>5, <1>6 DEF ScanInv, AuditInv, Audited, PlanInv
<1>14. Verdict(Files[i]) = "pdf" /\ Files[i].guard /\ plan[i].pages > 0
  BY <1>6, <1>13 DEF PlanOf
<1>15. o \in Verdictions /\ (o.s \in Answered => o.code = "none" /\ o.attempts > 0) /\ (o.s \in Refused => o.code # "none")
       /\ o.s \in Answered \cup Refused
  BY <1>9 DEF Verdicted, Answered, Refused
<1>16. kept \in Classes /\ kept.s = o.s /\ kept.code = o.code /\ o.s \notin Verdictless
  BY <1>2, <1>15 DEF Classes, Verdictions, Verdictless, Answered, Refused
<1>17. ASSUME cls' = [cls EXCEPT ![i] = ChangedClass], UNCHANGED <<audit, late, stopped, warned>>,
              taint' = taint \/ taint' = taint \cup {i}
       PROVE  ScanInv'
  <2>1. cls' \in [Index -> Classes] /\ audit' \in [Index -> Audits] /\ taint' \subseteq Index
    BY <1>5, <1>12, <1>17, ChangedClassTyped
  <2>2. \A j \in Index \ {i} : cls'[j] = cls[j]
    BY <1>12, <1>17
  <2>3. cls'[i] = ChangedClass
    BY <1>5, <1>12, <1>17
  <2>4. Audited(i)'
    BY <1>3, <1>4, <1>6, <1>13, <1>14, <1>17, <2>3, ChangedClassTyped DEF Audited, Verdictless, Answered, Refused
  <2>5. ChangedClass.s \notin Verdictless
    BY ChangedClassTyped DEF Verdictless
  <2>6. QED
    BY <1>3, <1>4, <1>5, <1>6, <1>7, <1>10, <1>11, <1>12, <1>17, <2>1, <2>2, <2>3, <2>4, <2>5, ChangedClassTyped,
       ClassifyStep
<1>18. ASSUME cls' = [cls EXCEPT ![i] = kept], UNCHANGED <<audit, taint, late, stopped, warned>>,
              o.code # "SOURCE_VERSION_CHANGED", o.attempts = 0
       PROVE  ScanInv'
  <2>1. cls' \in [Index -> Classes] /\ audit' \in [Index -> Audits] /\ taint' \subseteq Index
    BY <1>5, <1>12, <1>16, <1>18
  <2>2. \A j \in Index \ {i} : cls'[j] = cls[j]
    BY <1>12, <1>18
  <2>3. cls'[i] = kept
    BY <1>5, <1>12, <1>18
  <2>4. o.s \in Refused
    BY <1>15, <1>18
  <2>5. Audited(i)'
    BY <1>3, <1>4, <1>6, <1>13, <1>14, <1>15, <1>16, <1>18, <2>3, <2>4 DEF Audited, Verdictless, Answered, Refused
  <2>6. QED
    BY <1>3, <1>4, <1>5, <1>6, <1>7, <1>10, <1>11, <1>12, <1>16, <1>18, <2>1, <2>2, <2>3, <2>5, ClassifyStep
<1>19. ASSUME cls' = [cls EXCEPT ![i] = kept], UNCHANGED taint, o.attempts > 0,
              audit' = [audit EXCEPT ![i] = AnswerAudit(o, plan[i])], stopped => stopped'
       PROVE  ScanInv'
  <2>1. PICK a : a = AnswerAudit(o, plan[i])
    OBVIOUS
  <2>2. a \in Audits /\ a.s = o.s /\ AuditValid(a, Files[i])
    BY <1>9, <1>12, <1>14, <1>19, <2>1, AnswerAuditValid
  <2>3. cls' \in [Index -> Classes] /\ audit' \in [Index -> Audits] /\ taint' \subseteq Index
    BY <1>5, <1>12, <1>16, <1>19, <2>1, <2>2
  <2>4. \A j \in Index \ {i} : cls'[j] = cls[j] /\ audit'[j] = audit[j]
    BY <1>12, <1>19
  <2>5. cls'[i] = kept /\ audit'[i] = a
    BY <1>5, <1>12, <1>19, <2>1
  <2>6. Audited(i)'
    BY <1>3, <1>4, <1>6, <1>14, <1>15, <1>16, <2>2, <2>5 DEF Audited
  <2>7. QED
    BY <1>3, <1>4, <1>5, <1>6, <1>7, <1>10, <1>11, <1>12, <1>16, <1>19, <2>3, <2>4, <2>5, <2>6, ClassifyStep
<1>20. \/ cls' = [cls EXCEPT ![i] = ChangedClass] /\ UNCHANGED <<audit, taint, late, stopped, warned>>
       \/ /\ o.code # "SOURCE_VERSION_CHANGED" /\ o.attempts = 0
          /\ cls' = [cls EXCEPT ![i] = kept] /\ UNCHANGED <<audit, taint, late, stopped, warned>>
       \/ cls' = [cls EXCEPT ![i] = ChangedClass] /\ taint' = taint \cup {i} /\ UNCHANGED <<audit, late, stopped, warned>>
       \/ /\ o.attempts > 0
          /\ cls' = [cls EXCEPT ![i] = kept]
          /\ audit' = [audit EXCEPT ![i] = AnswerAudit(o, plan[i])]
          /\ UNCHANGED taint
          /\ stopped => stopped'
  BY <1>1, <1>2 DEF SettleVerdict, Write, AnswerAudit
<1>21. QED
  BY <1>17, <1>18, <1>19, <1>20

-----------------------------------------------------------------------------
(* The admission.                                                            *)

LEMMA DecidedOnce ==
    ASSUME NEW p \in Plans, NEW c, NEW d, Decided(p, c, d)
    PROVE  d \in Decisions /\ d.act # "none"
<1>1. p.act # "none"
  BY DEF Plans, PlanActs
<1>2. QED
  BY <1>1 DEF Decided

LEMMA AmendedOf ==
    ASSUME NEW old, NEW new, NEW i \in Index
    PROVE  /\ i \in DOMAIN new => Amended(old, new)[i] = new[i]
           /\ i \notin DOMAIN new => Amended(old, new)[i] = old[i]
BY DEF Amended

LEMMA AmendedTyped ==
    ASSUME NEW T, NEW old, NEW new, \A i \in Index : Amended(old, new)[i] \in T
    PROVE  Amended(old, new) \in [Index -> T]
<1>1. PICK f : f = Amended(old, new)
  OBVIOUS
<1>2. f = [i \in Index |-> IF i \in DOMAIN new THEN new[i] ELSE old[i]]
  BY <1>1 DEF Amended
<1>3. f = [i \in Index |-> f[i]]
  BY <1>2
<1>4. QED
  BY <1>1, <1>3

LEMMA PriceKeeps ==
    ASSUME ScanInv, Price
    PROVE  ScanInv'
<1>1. /\ pc = "classify" /\ queue = <<>> /\ tasks = <<>> /\ wave = <<>>
      /\ UNCHANGED <<scan, changed, late, tasks, wave, plan, cls, audit, result, runtime, taint,
                     stopped, warned, cache, round, draft>>
  BY DEF Price
<1>2. CASE Fail("fixed_over_budget") /\ UNCHANGED <<adm, queue>>
  BY <1>1, <1>2, FailKeeps
<1>3. ASSUME NEW next, next = Admission(Considered, base', Reserved(adm)), adm' = Amended(adm, next),
             queue' = InOrder({i \in DOMAIN next : next[i].act = "admit"}), pc' = "parse", UNCHANGED outcome
      PROVE  ScanInv'
  <2>1. Types /\ WaitInv /\ ClassifyInv /\ SettledInv /\ DraftInv /\ PlanInv /\ scan \in Scans /\ Files' = Files
        /\ Index' = Index /\ ResultInv
    BY <1>1, SameFiles DEF ScanInv, Types
  <2>2. Waiting = {} /\ Tasked = {} /\ Flying = {} /\ Tasked' = {} /\ Flying' = {} /\ Len(wave') = 0
    BY <1>1 DEF Waiting, Tasked, Flying, Queued, Elems
  <2>3. \A i \in draft : /\ i \in Index /\ adm[i].act # "admit" /\ result[i].status = "none"
                         /\ plan[i].classify = "classify" => i \in runtime \/ cls[i].s \notin Verdictless
    BY <1>1, <2>1, <2>2 DEF ClassifyInv, Types
  <2>4. Considered \subseteq draft /\ Considered \subseteq Index
    BY <2>1, <2>3 DEF Considered, DraftInv
  <2>5. \A i \in Index : i \notin Considered =>
            \/ i \notin draft
            \/ adm[i].act = "none" /\ (i \in runtime \/ plan[i].classify = "by_budget")
    BY <1>1, <2>1 DEF Considered, DraftInv
  <2>6. DOMAIN next = Considered /\ \A i \in Considered : Decided(plan[i], cls[i].s, next[i])
    BY <1>3, <2>1, <2>4, AdmissionOf
  <2>7. \A i \in Considered : adm'[i] = next[i] /\ adm'[i] \in Decisions /\ adm'[i].act # "none"
    <3>1. ASSUME NEW i \in Considered PROVE adm'[i] = next[i] /\ adm'[i] \in Decisions /\ adm'[i].act # "none"
      <4>1. i \in Index /\ plan[i] \in Plans
        BY <2>1, <2>4 DEF Types
      <4>2. adm'[i] = next[i]
        BY <1>3, <2>6, <4>1, AmendedOf
      <4>3. QED
        BY <2>6, <4>1, <4>2, DecidedOnce
    <3>2. QED
      BY <3>1
  <2>8. \A i \in Index : i \notin Considered => adm'[i] = adm[i]
    BY <1>3, <2>6, AmendedOf
  <2>9. adm' \in [Index -> Decisions]
    <3>1. \A i \in Index : adm[i] \in Decisions
      BY <2>1 DEF Types
    <3>2. \A i \in Index : adm'[i] \in Decisions
      BY <2>7, <2>8, <3>1
    <3>3. QED
      BY <1>3, <3>2, AmendedTyped
  <2>10. PICK S : S = {i \in DOMAIN next : next[i].act = "admit"}
    OBVIOUS
  <2>11. S \subseteq Index /\ \A i : i \in S <=> i \in Considered /\ adm'[i].act = "admit"
    BY <2>4, <2>6, <2>7, <2>10
  <2>12. queue' \in Seq(Index) /\ Distinct(queue') /\ Queued' = S
    BY <1>3, <2>1, <2>10, <2>11, InOrderOf DEF Queued
  <2>13. Waiting' = S
    BY <2>2, <2>12 DEF Waiting
  <2>14. Types'
    BY <1>1, <1>3, <2>1, <2>9, <2>12 DEF Types
  <2>15. WaitInv'
    <3>1. Distinct(tasks') /\ \A k, l \in 1 .. Len(wave') : wave'[k].i = wave'[l].i => k = l
      BY <1>1, <2>2 DEF Distinct
    <3>2. QED
      BY <1>3, <2>2, <2>12, <3>1 DEF WaitInv
  <2>16. SettledInv'
    <3>1. ASSUME NEW i \in Index PROVE Settled(i)'
      <4>1. CASE i \in Considered
        BY <1>1, <2>3, <2>4, <2>6, <2>7, <4>1 DEF Settled
      <4>2. CASE i \notin Considered /\ i \notin draft
        <5>1. Settled(i) /\ adm'[i] = adm[i]
          BY <1>1, <2>1, <2>8, <4>2 DEF SettledInv
        <5>2. QED
          BY <1>1, <5>1 DEF Settled
      <4>3. CASE i \notin Considered /\ i \in draft
        <5>1. adm'[i].act = "none" /\ (i \in runtime \/ plan[i].classify = "by_budget")
          BY <2>5, <2>8, <4>3
        <5>2. QED
          BY <1>1, <2>3, <4>3, <5>1 DEF Settled
      <4>4. QED
        BY <4>1, <4>2, <4>3
    <3>2. QED
      BY <2>1, <3>1 DEF SettledInv
  <2>17. ParseInv'
    <3>1. \A i \in Waiting' : adm'[i].act = "admit" /\ result'[i].status = "none"
      BY <1>1, <2>3, <2>4, <2>11, <2>13
    <3>2. QED
      BY <2>2, <3>1 DEF ParseInv
  <2>18. ResultInv'
    <3>1. ASSUME NEW i \in Index
          PROVE  /\ ResultOf(result'[i])
                 /\ result'[i].status # "none" => adm'[i].act = "admit" /\ i \notin runtime' /\ ~NoText(i)'
                 /\ i \in taint' => result'[i].status = "none" \/ result'[i].code = "SOURCE_VERSION_CHANGED"
                 /\ adm'[i].act = "admit" => \/ result'[i].status # "none" \/ i \in runtime' \/ NoText(i)'
                                             \/ i \in Waiting'
      <4>1. /\ ResultOf(result[i])
            /\ result[i].status # "none" => adm[i].act = "admit" /\ i \notin runtime /\ ~NoText(i)
            /\ i \in taint => result[i].status = "none" \/ result[i].code = "SOURCE_VERSION_CHANGED"
            /\ adm[i].act = "admit" => result[i].status # "none" \/ i \in runtime \/ NoText(i)
        BY <1>1, <2>1 DEF ResultInv
      <4>2. CASE i \in Considered
        BY <1>1, <2>3, <2>4, <2>11, <2>13, <4>1, <4>2
      <4>3. CASE i \notin Considered
        BY <1>1, <2>8, <4>1, <4>3 DEF NoText
      <4>4. QED
        BY <4>2, <4>3
    <3>2. QED
      BY <1>3, <2>1, <3>1 DEF ResultInv
  <2>19. StopInv'
    <3>1. ASSUME NEW i \in runtime PROVE cls[i].s \in Verdictless \/ adm'[i].act = "admit"
      <4>1. i \in Index /\ (cls[i].s \in Verdictless \/ adm[i].act = "admit")
        BY <2>1 DEF ScanInv, StopInv, Types
      <4>2. QED
        BY <2>3, <2>4, <2>8, <4>1
    <3>2. QED
      BY <1>1, <3>1 DEF ScanInv, StopInv
  <2>20. TaintInv'
    BY <1>1 DEF ScanInv, TaintInv
  <2>21. FreshInv'
    BY <1>1, <2>1, <2>2 DEF ScanInv, FreshInv
  <2>22. DraftInv' /\ ClassifyInv'
    BY <1>1, <1>3, <2>1 DEF DraftInv, ClassifyInv
  <2>23. QED
    BY <1>1, <1>3, <2>14, <2>15, <2>16, <2>17, <2>18, <2>19, <2>20, <2>21, <2>22, SamePlan, SameAudit,
       SameOutcome DEF ScanInv
<1>4. QED
  BY <1>2, <1>3 DEF Price

-----------------------------------------------------------------------------
(* The parses.                                                               *)

LEMMA WaitingTyped ==
    ASSUME Types
    PROVE  Waiting \subseteq Index
<1>1. queue \in Seq(Index) /\ tasks \in Seq(Index) /\ wave \in Seq(WaveItems(Len(Files)))
  BY DEF Types
<1>2. Queued \subseteq Index /\ Tasked \subseteq Index
  BY <1>1 DEF Queued, Tasked, Elems
<1>3. \A k \in 1 .. Len(wave) : wave[k].i \in Index
  <2>1. ASSUME NEW k \in 1 .. Len(wave) PROVE wave[k].i \in Index
    <3>1. wave[k] \in WaveItems(Len(Files))
      BY <1>1
    <3>2. QED
      BY <3>1 DEF WaveItems, Index
  <2>2. QED
    BY <2>1
<1>4. QED
  BY <1>2, <1>3 DEF Waiting, Flying

(* A step of the parses: a file that no longer waits has its result, was     *)
(* stopped, or has no text to parse; for the others nothing changes.         *)
LEMMA ParseStep ==
    ASSUME ScanInv, pc = "parse",
           UNCHANGED <<scan, changed, pc, plan, cls, audit, adm, round, draft, outcome>>,
           WaitInv', queue' \in Seq(Index), tasks' \in Seq(Index), wave' \in Seq(WaveItems(Len(Files))),
           Waiting' \subseteq Waiting,
           \A j \in Tasked' \cup Flying' : j \notin runtime' /\ ~NoText(j),
           \A j \in Flying' : j \notin taint',
           \A k \in 1 .. Len(wave') : wave'[k].out # Pending =>
               /\ ResultOf(wave'[k].out) /\ wave'[k].out.status # "none" /\ ~wave'[k].out.hit,
           result' \in [Index -> Results], cache' \in [Index -> {"none", "good", "bad"}],
           runtime' \subseteq Index, taint' \subseteq Index,
           stopped => stopped', runtime' # runtime => stopped',
           \A j \in Index : j \in Waiting' \/ j \notin Waiting =>
               /\ result'[j] = result[j]
               /\ j \in runtime' <=> j \in runtime
               /\ j \in taint' <=> j \in taint,
           \A j \in Waiting \ Waiting' :
               /\ ResultOf(result'[j])
               /\ result'[j].status # "none" => j \notin runtime' /\ ~NoText(j)
               /\ result'[j].status # "none" \/ j \in runtime' \/ NoText(j)
               /\ j \in taint' => \/ result'[j].code = "SOURCE_VERSION_CHANGED"
                                  \/ j \in taint /\ result'[j].status = "none",
           FreshInv'
    PROVE  ScanInv'
<1>1. Files' = Files /\ Index' = Index
  BY SameFiles
<1>2. Types'
  BY <1>1 DEF ScanInv, Types
<1>3. \A j \in Waiting : /\ j \in Index /\ adm[j].act = "admit" /\ result[j].status = "none"
  <2>1. \A j \in Waiting : j \in Index
    BY WaitingTyped DEF ScanInv
  <2>2. QED
    BY <2>1 DEF ScanInv, ParseInv
<1>4. SettledInv'
  <2>1. ASSUME NEW j \in Index PROVE Settled(j)'
    <3>1. Settled(j)
      BY DEF ScanInv, SettledInv
    <3>2. j \in runtime => j \in runtime' \/ (j \in Waiting \ Waiting' /\ adm[j].act = "admit")
      BY <1>3
    <3>3. cls[j].s \in Verdictless /\ adm[j].act = "admit" => plan[j].classify # "classify"
      BY <3>1 DEF Settled, Decided, Verdictless, Answered
    <3>4. QED
      BY <3>1, <3>2, <3>3 DEF Settled
  <2>2. QED
    BY <1>1, <2>1 DEF SettledInv
<1>5. ParseInv'
  <2>1. \A j \in Waiting' : adm'[j].act = "admit" /\ result'[j].status = "none"
    BY <1>3
  <2>2. \A j \in Tasked' \cup Flying' : j \notin runtime' /\ ~NoText(j)'
    BY DEF NoText
  <2>3. QED
    BY <2>1, <2>2 DEF ParseInv
<1>6. ResultInv'
  <2>1. ASSUME NEW j \in Index
        PROVE  /\ ResultOf(result'[j])
               /\ result'[j].status # "none" => adm[j].act = "admit" /\ j \notin runtime' /\ ~NoText(j)
               /\ j \in taint' => result'[j].status = "none" \/ result'[j].code = "SOURCE_VERSION_CHANGED"
               /\ adm[j].act = "admit" => \/ result'[j].status # "none" \/ j \in runtime' \/ NoText(j)
                                          \/ j \in Waiting'
    <3>1. /\ ResultOf(result[j])
          /\ result[j].status # "none" => adm[j].act = "admit" /\ j \notin runtime /\ ~NoText(j)
          /\ j \in taint => result[j].status = "none" \/ result[j].code = "SOURCE_VERSION_CHANGED"
          /\ adm[j].act = "admit" => \/ result[j].status # "none" \/ j \in runtime \/ NoText(j)
                                     \/ j \in Waiting
      BY DEF ScanInv, ResultInv
    <3>2. CASE j \in Waiting \ Waiting'
      BY <1>3, <3>1, <3>2
    <3>3. CASE j \in Waiting' \/ j \notin Waiting
      BY <3>1, <3>3
    <3>4. QED
      BY <3>2, <3>3
  <2>2. \A j \in Index : NoText(j)' <=> NoText(j)
    BY DEF NoText
  <2>3. QED
    BY <1>1, <2>1, <2>2 DEF ResultInv
<1>7. TaintInv'
  <2>1. ASSUME NEW j \in taint', result'[j].status = "none" PROVE cls'[j].s = "error"
    <3>1. j \in taint /\ result[j].status = "none"
      <4>1. CASE j \in Waiting \ Waiting'
        <5>1. result'[j].code # "SOURCE_VERSION_CHANGED"
          BY <2>1, <4>1 DEF ResultOf, NoResult
        <5>2. QED
          BY <1>3, <4>1, <5>1
      <4>2. CASE j \in Waiting' \/ j \notin Waiting
        BY <2>1, <4>2
      <4>3. QED
        BY <4>1, <4>2
    <3>2. QED
      BY <3>1 DEF ScanInv, TaintInv
  <2>2. QED
    BY <2>1 DEF TaintInv
<1>8. StopInv'
  <2>1. runtime' # {} => stopped'
    BY DEF ScanInv, StopInv
  <2>2. ASSUME NEW j \in runtime' PROVE cls'[j].s \in Verdictless \/ adm'[j].act = "admit"
    BY <1>3 DEF ScanInv, StopInv
  <2>3. QED
    BY <2>1, <2>2 DEF StopInv
<1>9. ClassifyInv'
  BY DEF ClassifyInv
<1>10. QED
  BY <1>1, <1>2, <1>4, <1>5, <1>6, <1>7, <1>8, <1>9, SamePlan, SameAudit, SameDraft, SameOutcome DEF ScanInv

LEMMA ChangedResultTyped ==
    ASSUME NEW n \in Nat
    PROVE  /\ ChangedResult(n) \in Results /\ ResultOf(ChangedResult(n)) /\ ChangedResult(n).status = "error"
           /\ ChangedResult(n).code = "SOURCE_VERSION_CHANGED"
<1>1. /\ ChangedResult(n) \in Results /\ ChangedResult(n).status = "error"
      /\ ChangedResult(n).code = "SOURCE_VERSION_CHANGED" /\ ChangedResult(n).hit = FALSE
  BY DEF ChangedResult, Results, ResultCodes
<1>2. QED
  BY <1>1 DEF ResultOf

HitResult(c) ==
    [status |-> "success", code |-> "none", attempts |-> 0, hit |-> TRUE, fresh |-> c = "good"]

LEMMA HitResultTyped ==
    ASSUME NEW c
    PROVE  /\ HitResult(c) \in Results /\ ResultOf(HitResult(c)) /\ HitResult(c).status = "success"
           /\ HitResult(c).code = "none" /\ (c = "good" => HitResult(c).fresh)
<1>1. PICK b : b = (c = "good") /\ b \in BOOLEAN
  OBVIOUS
<1>2. HitResult(c) = [status |-> "success", code |-> "none", attempts |-> 0, hit |-> TRUE, fresh |-> b]
  BY <1>1 DEF HitResult
<1>3. /\ HitResult(c) \in Results /\ HitResult(c).status = "success" /\ HitResult(c).code = "none"
      /\ HitResult(c).hit = TRUE /\ HitResult(c).attempts = 0 /\ HitResult(c).fresh = b
  BY <1>1, <1>2 DEF Results, ResultCodes
<1>4. ResultOf(HitResult(c))
  BY <1>3 DEF ResultOf
<1>5. QED
  BY <1>1, <1>3, <1>4

LEMMA LookupParseKeeps ==
    ASSUME ScanInv, LookupParse
    PROVE  ScanInv'
<1>1. PICK i : i = Head(queue)
  OBVIOUS
<1>2. /\ pc = "parse" /\ queue # <<>> /\ queue' = Tail(queue)
      /\ UNCHANGED <<scan, changed, late, pc, wave, plan, cls, audit, adm, warned, cache, round, draft, outcome>>
  BY DEF LookupParse, roundState, pdfState
<1>3. /\ i \in Index /\ i \in Waiting /\ i \notin Flying
  BY <1>1, <1>2, QueueMoves DEF ScanInv
<1>4. /\ adm[i].act = "admit" /\ result[i].status = "none" /\ ResultOf(result[i])
  BY <1>2, <1>3 DEF ScanInv, ParseInv, ResultInv
<1>5. /\ wave' \in Seq(WaveItems(Len(Files)))
      /\ \A k \in 1 .. Len(wave') : wave'[k].out # Pending =>
            /\ ResultOf(wave'[k].out) /\ wave'[k].out.status # "none" /\ ~wave'[k].out.hit
      /\ result \in [Index -> Results] /\ cache' \in [Index -> {"none", "good", "bad"}]
      /\ runtime \subseteq Index /\ taint \subseteq Index
  BY <1>2 DEF ScanInv, Types, ParseInv
<1>6. /\ \A j \in Tasked \cup Flying : j \notin runtime /\ ~NoText(j)
      /\ \A j \in Flying : j \notin taint
  BY <1>2 DEF ScanInv, ParseInv
<1>7. Files' = Files /\ Index' = Index /\ FreshInv
  BY <1>2, SameFiles DEF ScanInv
<1>8. ASSUME UNCHANGED tasks
      PROVE  /\ WaitInv' /\ Waiting' = Waiting \ {i} /\ Tasked' = Tasked /\ Flying' = Flying
             /\ queue' \in Seq(Index) /\ tasks' \in Seq(Index) /\ i \notin Tasked
  BY <1>1, <1>2, <1>8, QueueDrops, QueueMoves DEF ScanInv
<1>9. ASSUME NEW r, result' = [result EXCEPT ![i] = r], r.status = "success" => r.fresh \/ ~scan.strict
      PROVE  FreshInv'
  <2>1. \A j \in Index : result'[j] = IF j = i THEN r ELSE result[j]
    BY <1>5, <1>9
  <2>2. QED
    BY <1>2, <1>7, <1>9, <2>1 DEF FreshInv
<1>10. ASSUME UNCHANGED result PROVE FreshInv'
  BY <1>2, <1>7, <1>10 DEF FreshInv
<1>11. CASE i \in runtime \/ NoText(i)
  <2>1. UNCHANGED <<tasks, result, runtime, taint, stopped>>
    BY <1>1, <1>11 DEF LookupParse, NoText
  <2>2. QED
    BY <1>2, <1>3, <1>4, <1>5, <1>6, <1>8, <1>10, <1>11, <2>1, ParseStep
<1>12. CASE /\ ~(i \in runtime \/ NoText(i))
            /\ runtime' = runtime \cup {i}
            /\ stopped' = TRUE
            /\ UNCHANGED <<tasks, result, taint>>
  <2>1. runtime' \subseteq Index /\ result' \in [Index -> Results] /\ taint' \subseteq Index
    BY <1>3, <1>5, <1>12
  <2>2. QED
    BY <1>2, <1>3, <1>4, <1>5, <1>6, <1>8, <1>10, <1>12, <2>1, ParseStep
<1>13. CASE /\ ~(i \in runtime \/ NoText(i))
            /\ taint' = taint \cup {i}
            /\ result' = [result EXCEPT ![i] = ChangedResult(0)]
            /\ UNCHANGED <<tasks, runtime, stopped>>
  <2>1. PICK r : r = ChangedResult(0)
    OBVIOUS
  <2>2. r \in Results /\ ResultOf(r) /\ r.status = "error" /\ r.code = "SOURCE_VERSION_CHANGED"
    BY <2>1, ChangedResultTyped
  <2>3. result' \in [Index -> Results] /\ result'[i] = r /\ \A j \in Index \ {i} : result'[j] = result[j]
    BY <1>3, <1>5, <1>13, <2>1, <2>2
  <2>4. FreshInv'
    BY <1>9, <1>13, <2>1, <2>2
  <2>5. taint' \subseteq Index
    BY <1>3, <1>5, <1>13
  <2>6. QED
    BY <1>2, <1>3, <1>4, <1>5, <1>6, <1>8, <1>13, <2>2, <2>3, <2>4, <2>5, ParseStep
<1>14. CASE /\ ~(i \in runtime \/ NoText(i)) /\ cache[i] # "none" /\ Verified(i)
            /\ result' = [result EXCEPT ![i] = HitResult(cache[i])]
            /\ UNCHANGED <<tasks, runtime, taint, stopped>>
  <2>1. PICK r : r = HitResult(cache[i])
    OBVIOUS
  <2>2. /\ r \in Results /\ ResultOf(r) /\ r.status = "success" /\ r.code = "none"
        /\ (cache[i] = "good" => r.fresh)
    BY <2>1, HitResultTyped
  <2>3. result' \in [Index -> Results] /\ result'[i] = r /\ \A j \in Index \ {i} : result'[j] = result[j]
    BY <1>3, <1>5, <1>14, <2>1, <2>2
  <2>4. FreshInv'
    <3>1. scan.strict => cache[i] = "good"
      BY <1>2, <1>3, <1>5, <1>7, <1>14 DEF FreshInv
    <3>2. QED
      BY <1>9, <1>14, <2>1, <2>2, <3>1
  <2>5. i \notin taint
    BY <1>14 DEF Verified
  <2>6. QED
    BY <1>2, <1>3, <1>4, <1>5, <1>6, <1>8, <1>14, <2>2, <2>3, <2>4, <2>5, ParseStep
<1>15. CASE /\ ~(i \in runtime \/ NoText(i))
            /\ tasks' = Append(tasks, i)
            /\ UNCHANGED <<result, runtime, taint, stopped>>
  <2>1. /\ WaitInv' /\ Waiting' = Waiting /\ Tasked' = Tasked \cup {i} /\ Flying' = Flying
        /\ queue' \in Seq(Index) /\ tasks' \in Seq(Index)
    BY <1>1, <1>2, <1>15, QueueHands DEF ScanInv
  <2>2. QED
    BY <1>2, <1>3, <1>4, <1>5, <1>6, <1>10, <1>15, <2>1, ParseStep
<1>16. QED
  BY <1>1, <1>11, <1>12, <1>13, <1>14, <1>15 DEF LookupParse, NoText, HitResult

LEMMA DispatchParsesKeeps ==
    ASSUME ScanInv, DispatchParses
    PROVE  ScanInv'
<1>1. /\ pc = "parse" /\ queue = <<>> /\ wave = <<>>
      /\ UNCHANGED <<scan, changed, late, pc, queue, plan, cls, audit, adm, warned, cache, round, draft, outcome>>
  BY DEF DispatchParses, roundState, pdfState
<1>2. Types /\ WaitInv /\ ParseInv /\ FreshInv /\ ResultInv /\ scan \in Scans /\ Files' = Files /\ Index' = Index
  BY <1>1, SameFiles DEF ScanInv, Types
<1>3. /\ cache' \in [Index -> {"none", "good", "bad"}] /\ result \in [Index -> Results] /\ taint \subseteq Index
      /\ queue' \in Seq(Index) /\ tasks \in Seq(Index) /\ runtime \subseteq Index
      /\ wave \in Seq(WaveItems(Len(Files)))
  BY <1>1, <1>2 DEF Types
<1>4. Queued = {} /\ Queued' = {} /\ Flying = {} /\ Waiting = Tasked
  BY <1>1 DEF Queued, Flying, Waiting, Elems
<1>5. \A j \in Tasked : /\ j \in Index /\ adm[j].act = "admit" /\ result[j].status = "none" /\ j \notin runtime
                        /\ ~NoText(j) /\ ResultOf(result[j])
  BY <1>1, <1>2, <1>4, WaitingTyped DEF ParseInv, ResultInv
<1>6. CASE /\ runtime' = runtime \cup ToSet(tasks)
           /\ stopped' = TRUE
           /\ tasks' = <<>>
           /\ UNCHANGED <<wave, result, taint>>
  <2>1. ToSet(tasks) = Tasked
    BY <1>3, ToSetIsElems DEF Tasked
  <2>2. Waiting' = {} /\ Tasked' = {} /\ Flying' = {} /\ Queued' = {} /\ Len(wave') = 0 /\ tasks' \in Seq(Index)
    BY <1>1, <1>6 DEF Waiting, Tasked, Flying, Queued, Elems
  <2>3. WaitInv'
    <3>1. Distinct(queue') /\ Distinct(tasks')
      BY <1>1, <1>6 DEF Distinct
    <3>2. QED
      BY <1>1, <2>2, <3>1 DEF WaitInv
  <2>4. runtime' \subseteq Index /\ wave' \in Seq(WaveItems(Len(Files)))
    BY <1>3, <1>5, <1>6, <2>1
  <2>5. \A j \in Index : j \in Waiting' \/ j \notin Waiting =>
               /\ result'[j] = result[j]
               /\ j \in runtime' <=> j \in runtime
               /\ j \in taint' <=> j \in taint
    BY <1>1, <1>4, <1>6, <2>1, <2>2
  <2>6. FreshInv'
    BY <1>1, <1>2, <1>6 DEF FreshInv
  <2>7. QED
    BY <1>1, <1>2, <1>3, <1>4, <1>5, <1>6, <2>1, <2>2, <2>3, <2>4, <2>5, <2>6, ParseStep
<1>7. ASSUME NEW good, NEW bad, good = InOrder({i \in ToSet(NextWave) : Verified(i)}),
             bad = {i \in ToSet(NextWave) : ~Verified(i)},
             wave' = [k \in 1..Len(good) |-> [i |-> good[k], out |-> Pending]],
             taint' = taint \cup bad,
             result' = [i \in Index |-> IF i \in bad THEN ChangedResult(0) ELSE result[i]],
             tasks' = AfterWave, UNCHANGED <<runtime, stopped>>
      PROVE  ScanInv'
  <2>1. /\ NextWave \in Seq(Index) /\ AfterWave \in Seq(Index)
        /\ Distinct(NextWave) /\ Distinct(AfterWave)
        /\ Tasked = Elems(NextWave) \cup Elems(AfterWave)
        /\ Elems(NextWave) \cap Elems(AfterWave) = {}
    BY <1>2, NextWaveOf
  <2>2. Len(Files) \in Nat /\ Index = 1 .. Len(Files)
    BY <1>2, FilesTyped
  <2>3. ToSet(NextWave) = Elems(NextWave) /\ Elems(NextWave) \subseteq Index
    BY <1>5, <2>1, ToSetIsElems
  <2>4. PICK G : G = {i \in Elems(NextWave) : Verified(i)}
    OBVIOUS
  <2>5. /\ G \subseteq Index /\ bad \subseteq Index /\ G \cup bad = Elems(NextWave) /\ G \cap bad = {}
        /\ \A j \in G : j \notin taint
    BY <1>7, <2>3, <2>4 DEF Verified
  <2>6. good \in Seq(Index) /\ Distinct(good) /\ Elems(good) = G
    BY <1>2, <1>7, <2>3, <2>4, <2>5, InOrderOf
  <2>7. /\ wave' \in Seq(WaveItems(Len(Files))) /\ {wave'[k].i : k \in 1 .. Len(wave')} = G
        /\ \A k, l \in 1 .. Len(wave') : wave'[k].i = wave'[l].i => k = l
        /\ \A k \in 1 .. Len(wave') : wave'[k].out = Pending
    <3>1. wave' = Handed(good)
      BY <1>7 DEF Handed
    <3>2. Unanswered(Handed(good), Len(Files), Elems(good))
      BY <2>2, <2>6, HandedOut
    <3>3. QED
      BY <2>6, <3>1, <3>2 DEF Unanswered
  <2>8. Flying' = G /\ Tasked' = Elems(AfterWave) /\ tasks' \in Seq(Index)
    BY <1>7, <2>1, <2>7 DEF Flying, Tasked
  <2>9. Waiting' = Waiting \ bad
    BY <1>4, <2>1, <2>5, <2>8 DEF Waiting
  <2>10. WaitInv'
    <3>1. Distinct(queue') /\ Distinct(tasks')
      BY <1>1, <1>7, <2>1 DEF Distinct
    <3>2. QED
      BY <1>1, <1>4, <2>1, <2>5, <2>7, <2>8, <3>1 DEF WaitInv
  <2>11. PICK r : r = ChangedResult(0)
    OBVIOUS
  <2>12. r \in Results /\ ResultOf(r) /\ r.status = "error" /\ r.code = "SOURCE_VERSION_CHANGED"
    BY <2>11, ChangedResultTyped
  <2>13. result' \in [Index -> Results] /\ \A j \in Index : result'[j] = IF j \in bad THEN r ELSE result[j]
    BY <1>3, <1>7, <2>11, <2>12
  <2>14. FreshInv'
    BY <1>1, <1>2, <2>7, <2>12, <2>13 DEF FreshInv
  <2>15. /\ \A j \in Tasked' \cup Flying' : j \notin runtime' /\ ~NoText(j)
         /\ \A j \in Flying' : j \notin taint'
         /\ taint' \subseteq Index /\ runtime' \subseteq Index
    BY <1>3, <1>5, <1>7, <2>1, <2>5, <2>8
  <2>16. bad \subseteq Tasked
    BY <2>1, <2>5
  <2>17. QED
    BY <1>1, <1>2, <1>3, <1>4, <1>5, <1>7, <2>5, <2>7, <2>8, <2>9, <2>10, <2>12, <2>13, <2>14, <2>15, <2>16, ParseStep, ZenonT(60)
<1>8. QED
  BY <1>6, <1>7 DEF DispatchParses

LEMMA TextsTyped ==
    ASSUME NEW i, NEW o \in Texts(i)
    PROVE  /\ o \in Results /\ ResultOf(o) /\ o.status # "none" /\ o.hit = FALSE
           /\ o # Pending
           /\ o.status = "success" /\ i \notin changed => o.fresh
<1>1. \E s \in {"success", "timeout", "error"} : \E c \in ResultCodes : \E n \in Nat :
         /\ o = [status |-> s, code |-> c, attempts |-> n, hit |-> FALSE,
                 fresh |-> s = "success" /\ i \notin changed]
         /\ \/ s = "success" /\ c = "none" /\ n > 0
            \/ s = "timeout" /\ c = "PARSER_TIMEOUT"
            \/ s = "error" /\ c \in {"PARSER_FAILED", "SOURCE_VERSION_CHANGED"}
  BY DEF Texts, ResultCodes
<1>2. PICK s \in {"success", "timeout", "error"}, c \in ResultCodes, n \in Nat :
         /\ o = [status |-> s, code |-> c, attempts |-> n, hit |-> FALSE,
                 fresh |-> s = "success" /\ i \notin changed]
         /\ \/ s = "success" /\ c = "none" /\ n > 0
            \/ s = "timeout" /\ c = "PARSER_TIMEOUT"
            \/ s = "error" /\ c \in {"PARSER_FAILED", "SOURCE_VERSION_CHANGED"}
  BY <1>1
<1>3. PICK b : b = (s = "success" /\ i \notin changed) /\ b \in BOOLEAN
  OBVIOUS
<1>4. o = [status |-> s, code |-> c, attempts |-> n, hit |-> FALSE, fresh |-> b]
  BY <1>2, <1>3
<1>5. /\ o \in Results /\ o.status = s /\ o.code = c /\ o.attempts = n /\ o.hit = FALSE /\ o.fresh = b
  BY <1>3, <1>4 DEF Results
<1>6. ResultOf(o) /\ o.status # "none"
  BY <1>2, <1>5 DEF ResultOf
<1>7. o # Pending
  BY <1>4 DEF Pending
<1>8. o.status = "success" /\ i \notin changed => o.fresh
  BY <1>3, <1>5
<1>9. QED
  BY <1>5, <1>6, <1>7, <1>8

LEMMA ReturnTextKeeps ==
    ASSUME ScanInv, ReturnText
    PROVE  ScanInv'
<1>1. /\ pc = "parse"
      /\ UNCHANGED <<scan, changed, late, pc, queue, tasks, plan, cls, audit, adm, result, runtime, taint,
                     stopped, warned, cache, round, draft, outcome>>
  BY DEF ReturnText, roundState, pdfState
<1>2. Types /\ WaitInv /\ ParseInv /\ FreshInv /\ scan \in Scans /\ Files' = Files /\ Index' = Index
  BY <1>1, SameFiles DEF ScanInv, Types
<1>3. wave \in Seq(WaveItems(Len(Files))) /\ DOMAIN wave = 1 .. Len(wave)
  BY <1>2 DEF Types
<1>4. PICK k \in 1 .. Len(wave) : \E o \in Texts(wave[k].i) : wave' = [wave EXCEPT ![k].out = o]
  BY <1>3 DEF ReturnText
<1>5. PICK o \in Texts(wave[k].i) : wave' = [wave EXCEPT ![k].out = o]
  BY <1>4
<1>6. PICK i : i = wave[k].i
  OBVIOUS
<1>7. /\ o \in Results /\ ResultOf(o) /\ o.status # "none" /\ o.hit = FALSE
      /\ o.status = "success" /\ i \notin changed => o.fresh
  BY <1>5, <1>6, TextsTyped
<1>8. /\ wave' \in Seq(WaveItems(Len(Files))) /\ Len(wave') = Len(wave)
      /\ \A j \in 1 .. Len(wave) : wave'[j].i = wave[j].i
      /\ wave'[k].out = o /\ \A j \in 1 .. Len(wave) : j # k => wave'[j] = wave[j]
  <2>1. Hears(Heard(wave, k, o), Len(Files), wave, k, o)
    BY <1>3, <1>7, AnswerOf
  <2>2. wave' = Heard(wave, k, o)
    BY <1>5 DEF Heard
  <2>3. QED
    BY <2>1, <2>2 DEF Hears
<1>9. wave # <<>>
  BY <1>4
<1>10. Queued' = Queued /\ Tasked' = Tasked /\ Flying' = Flying /\ Waiting' = Waiting /\ WaitInv'
  BY <1>1, <1>2, <1>8, <1>9, SameFlight
<1>11. \A j \in 1 .. Len(wave') : wave'[j].out # Pending =>
               /\ ResultOf(wave'[j].out) /\ wave'[j].out.status # "none" /\ ~wave'[j].out.hit
  BY <1>1, <1>2, <1>7, <1>8 DEF ParseInv
<1>12. /\ \A j \in Tasked' \cup Flying' : j \notin runtime' /\ ~NoText(j)
       /\ \A j \in Flying' : j \notin taint'
       /\ result' \in [Index -> Results] /\ cache' \in [Index -> {"none", "good", "bad"}]
       /\ runtime' \subseteq Index /\ taint' \subseteq Index /\ queue' \in Seq(Index) /\ tasks' \in Seq(Index)
  BY <1>1, <1>2, <1>10 DEF ParseInv, Types
<1>13. FreshInv'
  <2>1. scan.strict => \A j \in 1 .. Len(wave') :
           wave'[j].out # Pending /\ wave'[j].out.status = "success" /\ wave'[j].i \notin changed
             => wave'[j].out.fresh
    BY <1>1, <1>2, <1>6, <1>7, <1>8 DEF FreshInv
  <2>2. QED
    BY <1>1, <1>2, <2>1 DEF FreshInv
<1>14. QED
  BY <1>1, <1>8, <1>10, <1>11, <1>12, <1>13, ParseStep

LEMMA SettleTextKeeps ==
    ASSUME ScanInv, SettleText
    PROVE  ScanInv'
<1>1. PICK i, o : i = Head(wave).i /\ o = Head(wave).out
  OBVIOUS
<1>2. /\ pc = "parse" /\ wave # <<>> /\ wave' = Tail(wave) /\ (\A k \in DOMAIN wave : wave[k].out # Pending)
      /\ UNCHANGED <<scan, changed, pc, queue, tasks, plan, cls, audit, adm, runtime, round, draft, outcome>>
  BY DEF SettleText, roundState, pdfState
<1>3. Types /\ WaitInv /\ ParseInv /\ FreshInv /\ scan \in Scans /\ Files' = Files /\ Index' = Index
  BY <1>2, SameFiles DEF ScanInv, Types
<1>4. /\ i \in Index /\ i \in Flying /\ i \in Waiting /\ Flying' = Flying \ {i} /\ Tasked' = Tasked
      /\ Queued' = Queued /\ Waiting' = Waiting \ {i} /\ WaitInv'
      /\ wave' \in Seq(WaveItems(Len(Files))) /\ queue' \in Seq(Index) /\ tasks' \in Seq(Index)
      /\ Len(wave) \in Nat /\ Len(wave) >= 1 /\ Len(wave') = Len(wave) - 1 /\ Head(wave) = wave[1]
      /\ \A k \in 1 .. Len(wave') : k + 1 \in 1 .. Len(wave) /\ wave'[k] = wave[k + 1]
  BY <1>1, <1>2, <1>3, WaveMoves
<1>5. i \notin runtime /\ ~NoText(i) /\ i \notin taint /\ i \notin Tasked
  BY <1>2, <1>3, <1>4 DEF ParseInv, WaitInv
<1>6. \A k \in 1 .. Len(wave) : wave[k].out # Pending =>
               /\ ResultOf(wave[k].out) /\ wave[k].out.status # "none" /\ ~wave[k].out.hit
  BY <1>2, <1>3 DEF ParseInv
<1>7. 1 \in 1 .. Len(wave) /\ 1 \in DOMAIN wave /\ i = wave[1].i /\ o = wave[1].out /\ o # Pending
  <2>1. wave \in Seq(WaveItems(Len(Files)))
    BY <1>3 DEF Types
  <2>2. DOMAIN wave = 1 .. Len(wave)
    BY <2>1
  <2>3. 1 \in 1 .. Len(wave) /\ 1 \in DOMAIN wave
    BY <1>4, <2>2
  <2>4. i = wave[1].i /\ o = wave[1].out
    BY <1>1, <1>4
  <2>5. wave[1].out # Pending
    BY <1>2, <2>3
  <2>. QED
    BY <2>3, <2>4, <2>5
<1>8. /\ ResultOf(o) /\ o.status # "none" /\ ~o.hit /\ o \in Results
      /\ (scan.strict /\ o.status = "success" /\ i \notin changed => o.fresh)
  <2>1. ResultOf(o) /\ o.status # "none" /\ ~o.hit
    BY <1>6, <1>7
  <2>2. o \in Results
    BY <2>1 DEF ResultOf
  <2>3. scan.strict /\ o.status = "success" /\ i \notin changed => o.fresh
    BY <1>2, <1>3, <1>7 DEF FreshInv
  <2>4. QED
    BY <2>1, <2>2, <2>3
<1>9. \A k \in 1 .. Len(wave') : wave'[k].out # Pending =>
               /\ ResultOf(wave'[k].out) /\ wave'[k].out.status # "none" /\ ~wave'[k].out.hit
  BY <1>4, <1>6
<1>10. /\ \A j \in Tasked' \cup Flying' : j \notin runtime' /\ ~NoText(j)
       /\ \A j \in Flying' : j \notin taint /\ j # i
       /\ result \in [Index -> Results] /\ cache \in [Index -> {"none", "good", "bad"}]
       /\ runtime' \subseteq Index /\ taint \subseteq Index
  BY <1>2, <1>3, <1>4 DEF ParseInv, Types
<1>11. ASSUME NEW r \in Results, ResultOf(r), r.status # "none", result' = [result EXCEPT ![i] = r],
              taint' = taint \/ (taint' = taint \cup {i} /\ r.code = "SOURCE_VERSION_CHANGED"),
              scan.strict /\ r.status = "success" => r.fresh,
              cache' \in [Index -> {"none", "good", "bad"}],
              \A j \in Index : cache'[j] = "bad" => cache[j] = "bad" \/ ~scan.strict,
              stopped => stopped'
       PROVE  ScanInv'
  <2>1. result' \in [Index -> Results] /\ \A j \in Index : result'[j] = IF j = i THEN r ELSE result[j]
    BY <1>10, <1>11
  <2>2. taint' \subseteq Index /\ \A j \in Flying' : j \notin taint'
    BY <1>4, <1>10, <1>11
  <2>3. FreshInv'
    <3>1. ASSUME scan.strict
          PROVE  \A j \in Index : cache'[j] # "bad" /\ (result'[j].status = "success" => result'[j].fresh)
      BY <1>3, <1>11, <2>1, <3>1 DEF FreshInv
    <3>2. ASSUME scan.strict
          PROVE  \A k \in 1 .. Len(wave') :
              wave'[k].out # Pending /\ wave'[k].out.status = "success" /\ wave'[k].i \notin changed
                => wave'[k].out.fresh
      BY <1>2, <1>3, <1>4, <3>2 DEF FreshInv
    <3>3. QED
      BY <1>2, <1>3, <3>1, <3>2 DEF FreshInv
  <2>4. QED
    BY <1>2, <1>4, <1>5, <1>9, <1>10, <1>11, <2>1, <2>2, <2>3, ParseStep, ZenonT(60)
<1>12. CASE o.status # "success" /\ result' = [result EXCEPT ![i] = o] /\ UNCHANGED <<taint, cache, late, stopped, warned>>
  BY <1>8, <1>10, <1>11, <1>12
<1>13. CASE /\ taint' = taint \cup {i} /\ result' = [result EXCEPT ![i] = ChangedResult(o.attempts)]
            /\ UNCHANGED <<cache, late, stopped, warned>>
  <2>1. o.attempts \in Nat
    BY <1>8 DEF Results
  <2>2. PICK r : r = ChangedResult(o.attempts)
    OBVIOUS
  <2>3. r \in Results /\ ResultOf(r) /\ r.status = "error" /\ r.code = "SOURCE_VERSION_CHANGED"
    BY <2>1, <2>2, ChangedResultTyped
  <2>4. QED
    BY <1>10, <1>11, <1>13, <2>2, <2>3
<1>14. CASE /\ o.status = "success" /\ Verified(i) /\ result' = [result EXCEPT ![i] = o] /\ UNCHANGED taint
            /\ stopped => stopped'
            /\ cache' = cache \/ cache' = [cache EXCEPT ![i] = IF o.fresh THEN "good" ELSE "bad"]
  <2>1. scan.strict => o.fresh
    BY <1>8, <1>14 DEF Verified
  <2>2. PICK c : c = (IF o.fresh THEN "good" ELSE "bad")
    OBVIOUS
  <2>3. c \in {"none", "good", "bad"} /\ (scan.strict => c = "good")
    BY <2>1, <2>2
  <2>4. cache' = cache \/ cache' = [cache EXCEPT ![i] = c]
    BY <1>14, <2>2
  <2>5. /\ cache' \in [Index -> {"none", "good", "bad"}]
        /\ \A j \in Index : cache'[j] = "bad" => cache[j] = "bad" \/ ~scan.strict
    BY <1>4, <1>10, <2>3, <2>4
  <2>6. QED
    BY <1>8, <1>11, <1>14, <2>1, <2>5
<1>15. \/ o.status # "success" /\ result' = [result EXCEPT ![i] = o] /\ UNCHANGED <<taint, cache, late, stopped, warned>>
       \/ /\ taint' = taint \cup {i} /\ result' = [result EXCEPT ![i] = ChangedResult(o.attempts)]
          /\ UNCHANGED <<cache, late, stopped, warned>>
       \/ /\ o.status = "success" /\ Verified(i) /\ result' = [result EXCEPT ![i] = o] /\ UNCHANGED taint
          /\ stopped => stopped'
          /\ cache' = cache \/ cache' = [cache EXCEPT ![i] = IF o.fresh THEN "good" ELSE "bad"]
  BY <1>1 DEF SettleText, Write
<1>16. QED
  BY <1>12, <1>13, <1>14, <1>15

-----------------------------------------------------------------------------
(* What the renderer writes of a file is a number of characters.             *)

LEMMA RenderedIs ==
    ASSUME NEW fs, NEW es, NEW g, NEW i \in 1 .. Len(fs)
    PROVE  BuildContext(fs, es, g).rendered[i] = RenderedChars(fs[i], es[i])
BY DEF BuildContext

Kinds == {"bin", "doc", "docx", "log", "md", "pdf", "txt"}
Verbs == {"keep", "compress"}
ShownWhys == {"small_file_keep", "large_log_tail", "large_document_summary", "medium_text_compress",
              "pdf_no_text_in_parse_window", "file_size_policy"}

LEMMA CharsOf ==
    /\ \A s \in Kinds : Chars[s] \in Nat /\ Chars[s] <= 5
    /\ \A s \in Verbs : Chars[s] \in Nat /\ Chars[s] <= 8
    /\ \A s \in ShownWhys : Chars[s] \in Nat /\ Chars[s] <= 27
<1>1. \A s \in Kinds : Chars[s] \in Nat /\ Chars[s] <= 5
  BY DEF Chars, Kinds
<1>2. \A s \in Verbs : Chars[s] \in Nat /\ Chars[s] <= 8
  BY DEF Chars, Verbs
<1>3. \A s \in ShownWhys : Chars[s] \in Nat /\ Chars[s] <= 27
  BY DEF Chars, ShownWhys
<1>4. QED
  BY <1>1, <1>2, <1>3

LEMMA DigitsNat ==
    ASSUME NEW n
    PROVE  Digits(n) \in Nat /\ 1 <= Digits(n) /\ Digits(n) <= 10
<1>1. PICK S : S = {d \in 1 .. 9 : n >= Powers[d]}
  OBVIOUS
<1>2. \A b \in Int : IsFiniteSet(1 .. b) /\ Cardinality(1 .. b) = IF 1 > b THEN 0 ELSE b - 1 + 1
  BY FS_Interval
<1>3. IsFiniteSet(S) /\ Cardinality(S) <= 9
  <2>1. PICK b \in Int : b = 9
    OBVIOUS
  <2>2. S \subseteq 1 .. b
    BY <1>1, <2>1
  <2>3. PICK T : T = 1 .. b
    OBVIOUS
  <2>4. IsFiniteSet(T) /\ Cardinality(T) = IF 1 > b THEN 0 ELSE b - 1 + 1
    BY <1>2, <2>3
  <2>5. Cardinality(T) = 9 /\ S \in SUBSET T
    BY <2>1, <2>2, <2>3, <2>4
  <2>6. IsFiniteSet(S) /\ Cardinality(S) <= Cardinality(T)
    BY <2>4, <2>5, FS_Subset
  <2>7. QED
    BY <2>5, <2>6
<1>4. Cardinality(S) \in Nat
  BY <1>3, FS_CardinalityType
<1>5. Digits(n) = 1 + Cardinality(S)
  BY <1>1 DEF Digits
<1>6. QED
  BY <1>3, <1>4, <1>5

LEMMA DigitsOfNone ==
    Digits(0) = 1
<1>1. {d \in 1 .. 9 : 0 >= Powers[d]} = {}
  BY DEF Powers
<1>2. QED
  BY <1>1, FS_EmptySet DEF Digits

LEMMA MaxOfTwo ==
    ASSUME NEW a \in Int, NEW b \in Int
    PROVE  /\ Max({a, b}) \in Int /\ Max({a, b}) \in {a, b}
           /\ Max({a, b}) >= a /\ Max({a, b}) >= b
<1>1. \E x \in {a, b} : \A y \in {a, b} : x >= y
  <2>1. CASE a >= b
    BY <2>1
  <2>2. CASE b >= a
    BY <2>2
  <2>3. QED
    BY <2>1, <2>2
<1>2. Max({a, b}) \in {a, b} /\ \A y \in {a, b} : Max({a, b}) >= y
  BY <1>1 DEF Max
<1>3. QED
  BY <1>2

LEMMA HeadEndInt ==
    ASSUME NEW lines, lines \subseteq Nat, NEW at \in Int
    PROVE  HeadEnd(lines, at) \in Int /\ HeadEnd(lines, at) <= at
<1>1. PICK S : S = {l \in lines : l <= at}
  OBVIOUS
<1>2. HeadEnd(lines, at) = IF S = {} THEN at ELSE Max(S)
  BY <1>1 DEF HeadEnd
<1>3. ASSUME S # {} PROVE Max(S) \in Int /\ Max(S) <= at
  <2>1. PICK T : T = {at - l : l \in S}
    OBVIOUS
  <2>2. \A l \in S : l \in Nat /\ l <= at
    BY <1>1
  <2>3. T \subseteq Nat /\ T # {}
    BY <1>3, <2>1, <2>2
  <2>4. PICK t \in T : \A u \in T : t <= u
    BY <2>3, LeastNat
  <2>5. PICK x \in S : t = at - x
    BY <2>1, <2>4
  <2>6. \A y \in S : x >= y
    BY <2>1, <2>2, <2>4, <2>5
  <2>7. Max(S) \in S
    BY <2>6 DEF Max
  <2>8. QED
    BY <2>2, <2>7
<1>4. QED
  BY <1>2, <1>3

LEMMA TailStartInt ==
    ASSUME NEW lines, lines \subseteq Nat, NEW at \in Int
    PROVE  TailStart(lines, at) \in Int /\ TailStart(lines, at) >= at
<1>1. PICK S : S = {l \in lines : l > at}
  OBVIOUS
<1>2. TailStart(lines, at) = IF S = {} THEN at ELSE Min(S)
  BY <1>1 DEF TailStart
<1>3. ASSUME S # {} PROVE Min(S) \in Int /\ Min(S) >= at
  <2>1. S \subseteq Nat
    BY <1>1
  <2>2. PICK x \in S : \A y \in S : x <= y
    BY <1>3, <2>1, LeastNat
  <2>3. PICK z \in S : z = Min(S)
    BY <2>2 DEF Min
  <2>4. z \in Nat /\ z > at
    BY <1>1, <2>1
  <2>5. QED
    BY <2>3, <2>4
<1>4. QED
  BY <1>2, <1>3

(* A body is never wider than the excerpt it is cut from, nor than a file    *)
(* may take.                                                                 *)
LEMMA BodyCharsInt ==
    ASSUME NEW f \in Source, NEW n \in Nat
    PROVE  BodyChars(f, n) \in Int /\ BodyChars(f, n) <= n /\ BodyChars(f, n) <= PerFile
<1>1. PerFile \in Nat
  BY BudgetAssumption
<1>2. PICK m \in Int : m = Max({PerFile - 64, 1}) /\ m \in {PerFile - 64, 1} /\ m >= PerFile - 64 /\ m >= 1
  <2>1. PICK a \in Int, b \in Int : a = PerFile - 64 /\ b = 1
    BY <1>1
  <2>2. Max({a, b}) \in Int /\ Max({a, b}) \in {a, b} /\ Max({a, b}) >= a /\ Max({a, b}) >= b
    BY MaxOfTwo
  <2>3. QED
    BY <2>1, <2>2
<1>3. PICK head \in Int : head = (m * 400) \div 1000
  OBVIOUS
<1>4. f.lines \subseteq Nat
  BY DEF Source
<1>5. PICK start \in Int : start = HeadEnd(f.lines, head) /\ start <= head
  BY <1>4, HeadEndInt
<1>6. n - (m - head) \in Int
  OBVIOUS
<1>7. PICK rest \in Int : rest = TailStart(f.lines, n - (m - head)) /\ rest >= n - (m - head)
  BY <1>4, <1>6, TailStartInt
<1>8. PICK a \in Int, b \in Int : a = Marker(n - m) /\ b = Marker(rest - start) /\ a <= 24 /\ b <= 24
  BY DigitsNat DEF Marker
<1>9. BodyChars(f, n) = CASE n <= PerFile -> n
                          [] n > PerFile /\ PerFile < 64 -> PerFile
                          [] n > PerFile /\ PerFile >= 64 /\ f.type = "log" -> m + a
                          [] OTHER -> start + (n - rest) + b
  BY <1>2, <1>3, <1>5, <1>7, <1>8 DEF BodyChars
<1>11. CASE n <= PerFile
  BY <1>1, <1>9, <1>11
<1>12. CASE n > PerFile /\ PerFile < 64
  BY <1>1, <1>9, <1>12
<1>13. CASE n > PerFile /\ PerFile >= 64
  <2>1. m <= PerFile - 63
    BY <1>1, <1>2, <1>13
  <2>2. BodyChars(f, n) = m + a \/ BodyChars(f, n) = start + (n - rest) + b
    BY <1>1, <1>9, <1>13
  <2>3. start + (n - rest) <= m
    BY <1>5, <1>7
  <2>4. QED
    BY <1>1, <1>8, <1>13, <2>1, <2>2, <2>3
<1>10. QED
  BY <1>1, <1>11, <1>12, <1>13

(* What is written of a file is at most as wide as its widest section.       *)
LEMMA SectionCharsInt ==
    ASSUME NEW f \in Source, NEW e, e.status = "success", e.why \in {"none", "pdf_no_text_in_parse_window"},
           e.chars \in Nat
    PROVE  /\ RenderedChars(f, e) \in Int
           /\ \/ RenderedChars(f, e) <= f.rel + 254
              \/ RenderedChars(f, e) <= f.rel + 223 + BodyChars(f, e.chars)
<1>1. PICK a : a = Action(f, e)
  OBVIOUS
<1>2. f.size \in Nat /\ f.rel \in Nat /\ f.type \in Kinds
  BY Types7 DEF Kinds
<1>12. LargeFile \in Nat
  BY BudgetAssumption
<1>3. a[1] \in {"metadata_only"} \cup Verbs /\ a[2] \in ShownWhys
  <2>1. CompressionReason(f) \in {"large_log_tail", "large_document_summary", "medium_text_compress"}
    BY DEF CompressionReason
  <2>2. \/ a = <<"metadata_only", "pdf_no_text_in_parse_window">> \/ a = <<"metadata_only", "file_size_policy">>
        \/ a = <<"keep", "small_file_keep">> \/ a = <<"compress", CompressionReason(f)>>
    BY <1>1, <1>2, <1>12 DEF Action
  <2>3. QED
    BY <2>1, <2>2 DEF Verbs, ShownWhys
<1>8. PICK verb : verb = IF e.chars > PerFile THEN "compress" ELSE a[1]
  OBVIOUS
<1>13. PICK why, kind, n, m, size, body, lane, back :
          /\ why = Chars[a[2]] /\ kind = Chars[f.type] /\ n = Digits(e.chars)
          /\ m = Digits(BodyChars(f, e.chars)) /\ size = Digits(f.size) /\ body = BodyChars(f, e.chars)
          /\ lane = Lane(f) /\ back = Backend(f)
  OBVIOUS
<1>4. why \in Nat /\ why <= 27 /\ kind \in Nat /\ kind <= 5
  BY <1>2, <1>3, <1>13, CharsOf
<1>5. back \in Nat /\ back <= 20 /\ lane \in Nat /\ lane <= 22
  BY <1>13 DEF Backend, Lane
<1>6. n \in Nat /\ n <= 10 /\ m \in Nat /\ m <= 10 /\ size \in Nat /\ size <= 10
  BY <1>13, DigitsNat
<1>7. body \in Int
  BY <1>13, BodyCharsInt
<1>10. SectionChars(f, e) =
         IF a[1] = "metadata_only"
         THEN 160 + f.rel + why + (IF e.why = "pdf_no_text_in_parse_window" THEN 15 ELSE back)
              + lane + kind + size + size
         ELSE 107 + f.rel + Chars[verb] + why + back + lane + n + m + body
              + (IF e.cut \/ e.chars > PerFile THEN 19 ELSE 0)
  BY <1>1, <1>8, <1>13 DEF SectionChars
<1>11. RenderedChars(f, e) = SectionChars(f, e)
  BY DEF RenderedChars
<1>14. CASE a[1] = "metadata_only"
  <2>1. PICK b \in Nat : b <= 20 /\ b = IF e.why = "pdf_no_text_in_parse_window" THEN 15 ELSE back
    BY <1>5
  <2>2. SectionChars(f, e) = 160 + f.rel + why + b + lane + kind + size + size
    BY <1>10, <1>14, <2>1
  <2>3. QED
    BY <1>2, <1>4, <1>5, <1>6, <1>11, <2>1, <2>2
<1>15. CASE a[1] # "metadata_only"
  <2>1. verb \in Verbs
    BY <1>3, <1>8, <1>15 DEF Verbs
  <2>2. PICK v \in Nat : v <= 8 /\ v = Chars[verb]
    BY <2>1, CharsOf
  <2>3. PICK c \in Nat : c <= 19 /\ c = IF e.cut \/ e.chars > PerFile THEN 19 ELSE 0
    OBVIOUS
  <2>4. SectionChars(f, e) = 107 + f.rel + v + why + back + lane + n + m + body + c
    BY <1>10, <1>15, <2>2, <2>3
  <2>5. QED
    BY <1>2, <1>4, <1>5, <1>6, <1>7, <1>11, <1>13, <2>2, <2>3, <2>4
<1>16. QED
  BY <1>14, <1>15

-----------------------------------------------------------------------------
(* The end of a round, and the next one.                                     *)

(* What is reclaimed only lowers reservations.                               *)
Shrinks(new) ==
    /\ new \in [Index -> Decisions]
    /\ \A i \in Index : new[i].act = adm[i].act /\ new[i].why = adm[i].why /\ new[i].reserved <= adm[i].reserved

LEMMA SameShrinks ==
    ASSUME Types
    PROVE  Shrinks(adm)
<1>1. adm \in [Index -> Decisions]
  BY DEF Types
<1>2. \A d \in Decisions : d.reserved \in Int
  BY DEF Decisions
<1>3. \A i \in Index : adm[i].reserved <= adm[i].reserved
  BY <1>1, <1>2
<1>4. QED
  BY <1>1, <1>3 DEF Shrinks

LEMMA UsedEvidence ==
    ASSUME ScanInv, pc \in {"parse", "refill"}, NEW i \in Index, adm[i].act = "admit", i \notin runtime,
           result[i].status = "success" \/ cls[i].s = "no_text"
    PROVE  /\ Evidence(i, result).status = "success" /\ Evidence(i, result).chars \in Nat
           /\ Evidence(i, result).why \in {"none", "pdf_no_text_in_parse_window"}
<1>1. /\ Settled(i) /\ Audited(i) /\ ResultOf(result[i]) /\ PlanOf(Files[i], plan[i]) /\ Files[i] \in Source
      /\ result[i].status # "none" => ~NoText(i)
      /\ i \in taint => result[i].status = "none" \/ result[i].code = "SOURCE_VERSION_CHANGED"
  BY FilesTyped DEF ScanInv, Types, SettledInv, AuditInv, ResultInv, PlanInv
<1>2. ActionOf(i) = adm[i]
  BY DEF ActionOf
<1>3. Files[i].chars \in Nat
  BY <1>1, Types7
<1>4. CASE result[i].status = "success"
  <2>1. result[i].code = "none"
    BY <1>1, <1>4 DEF ResultOf
  <2>2. Evidence(i, result) = [status |-> "success", why |-> "none", code |-> "none",
                               chars |-> Files[i].chars, cut |-> Files[i].cut]
    BY <1>2, <1>4, <2>1 DEF Evidence
  <2>3. QED
    BY <1>3, <2>2
<1>5. CASE result[i].status # "success"
  <2>1. cls[i].s = "no_text"
    BY <1>5
  <2>2. plan[i].classify = "classify" /\ Verdict(Files[i]) = "pdf"
    BY <1>1, <2>1 DEF Audited, Verdictless
  <2>3. adm[i].why = "pdf"
    BY <1>1, <2>1, <2>2 DEF Settled, Decided, PlanOf, Answered
  <2>4. result[i].status = "none"
    BY <1>1, <2>1, <2>3 DEF NoText
  <2>5. result[i].code = "none"
    BY <1>1, <2>4 DEF ResultOf, NoResult
  <2>6. Evidence(i, result) = [Omitted("pdf_no_text_in_parse_window") EXCEPT !.status = "success"]
    BY <1>2, <2>1, <2>4, <2>5 DEF Evidence
  <2>7. QED
    BY <2>6 DEF Omitted
<1>6. QED
  BY <1>4, <1>5

LEMMA ReclaimedOf ==
    ASSUME ScanInv, pc \in {"parse", "refill"}
    PROVE  Shrinks(Reclaimed(Context(result)))
<1>1. PICK built, new : built = Context(result) /\ new = Reclaimed(built)
  OBVIOUS
<1>2. scan \in Scans /\ adm \in [Index -> Decisions] /\ Index = 1 .. Len(Files)
  BY FilesTyped DEF ScanInv, Types
<1>3. new = [i \in Index |-> IF /\ adm[i].act = "admit" /\ i \notin runtime
                                /\ result[i].status = "success" \/ cls[i].s = "no_text"
                                /\ built.rendered[i] > 0
                             THEN [adm[i] EXCEPT !.reserved = Least(@, built.rendered[i] + 2)]
                             ELSE adm[i]]
  BY <1>1 DEF Reclaimed
<1>4. ASSUME NEW i \in Index
      PROVE  /\ new[i] \in Decisions /\ new[i].act = adm[i].act /\ new[i].why = adm[i].why
             /\ new[i].reserved <= adm[i].reserved
  <2>1. PICK d : d = adm[i] /\ d \in Decisions
    BY <1>2
  <2>2. d.reserved \in Int
    BY <2>1 DEF Decisions
  <2>3. CASE new[i] = d
    BY <2>1, <2>2, <2>3
  <2>4. CASE new[i] # d
    <3>1. /\ adm[i].act = "admit" /\ i \notin runtime /\ (result[i].status = "success" \/ cls[i].s = "no_text")
          /\ new[i] = [d EXCEPT !.reserved = Least(@, built.rendered[i] + 2)]
      BY <1>3, <2>1, <2>4
    <3>2. built.rendered[i] \in Int
      <4>1. PICK es : es = EvidenceOf(result) /\ built = BuildContext(Files, es, scan.global)
        BY <1>1 DEF Context
      <4>2. built.rendered[i] = RenderedChars(Files[i], es[i])
        BY <1>2, <4>1, RenderedIs
      <4>3. es[i] = Evidence(i, result)
        BY <4>1 DEF EvidenceOf
      <4>4. Files[i] \in Source
        BY <1>2, FilesTyped
      <4>5. QED
        BY <3>1, <4>2, <4>3, <4>4, UsedEvidence, SectionCharsInt
    <3>3. PICK n \in Int : n = Least(d.reserved, built.rendered[i] + 2) /\ n <= d.reserved
      BY <2>2, <3>2 DEF Least
    <3>4. new[i] = [d EXCEPT !.reserved = n]
      BY <3>1, <3>3
    <3>5. new[i] \in Decisions /\ new[i].act = d.act /\ new[i].why = d.why /\ new[i].reserved = n
      BY <2>1, <3>4 DEF Decisions
    <3>6. QED
      BY <2>1, <3>3, <3>5
  <2>5. QED
    BY <2>3, <2>4
<1>5. new = [i \in Index |-> new[i]]
  BY <1>3
<1>6. new \in [Index -> Decisions]
  BY <1>4, <1>5
<1>7. QED
  BY <1>1, <1>4, <1>6 DEF Shrinks

(* A decision with a smaller reservation is the same decision.               *)
LEMMA ShrunkDecided ==
    ASSUME NEW p, NEW c, NEW d, NEW e \in Decisions, Decided(p, c, d), e.act = d.act, e.why = d.why
    PROVE  Decided(p, c, e)
BY DEF Decided

(* A round ends.                                                             *)
LEMMA RoundStep ==
    ASSUME ScanInv, pc \in {"parse", "refill"}, pc' \in {"refill", "finish"}, Shrinks(adm'),
           queue = <<>>, tasks = <<>>, wave = <<>>,
           UNCHANGED <<scan, changed, queue, tasks, wave, plan, cls, audit, result, runtime, taint,
                       stopped, cache, round, draft, outcome>>
    PROVE  ScanInv'
<1>1. Files' = Files /\ Index' = Index
  BY SameFiles
<1>2. adm' \in [Index -> Decisions] /\ \A i \in Index : adm'[i].act = adm[i].act /\ adm'[i].why = adm[i].why
  BY DEF Shrinks
<1>3. Types'
  BY <1>1, <1>2 DEF ScanInv, Types
<1>4. Waiting = {} /\ Tasked = {} /\ Flying = {} /\ Queued = {} /\ Waiting' = {} /\ Tasked' = {} /\ Flying' = {}
      /\ Queued' = {} /\ Len(wave') = 0 /\ Len(tasks') = 0 /\ Len(queue') = 0
  BY DEF Waiting, Tasked, Flying, Queued, Elems
<1>5. WaitInv'
  BY <1>4 DEF WaitInv, Distinct
<1>6. SettledInv'
  <2>1. ASSUME NEW i \in Index PROVE Settled(i)'
    <3>1. Settled(i)
      BY DEF ScanInv, SettledInv
    <3>2. adm[i].act # "none" => Decided(plan[i], cls[i].s, adm'[i])
      BY <1>2, <3>1, ShrunkDecided DEF Settled
    <3>3. QED
      BY <1>2, <3>1, <3>2 DEF Settled
  <2>2. QED
    BY <1>1, <2>1 DEF SettledInv
<1>7. ResultInv'
  <2>1. \A i \in Index : NoText(i)' <=> NoText(i)
    BY <1>2 DEF NoText
  <2>2. QED
    BY <1>1, <1>2, <1>4, <2>1 DEF ScanInv, ResultInv
<1>8. ClassifyInv' /\ ParseInv'
  BY DEF ClassifyInv, ParseInv
<1>9. TaintInv' /\ DraftInv'
  BY <1>1 DEF ScanInv, TaintInv, DraftInv
<1>10. StopInv'
  BY <1>2 DEF ScanInv, StopInv, Types
<1>11. FreshInv'
  BY <1>1 DEF ScanInv, FreshInv
<1>12. QED
  BY <1>3, <1>5, <1>6, <1>7, <1>8, <1>9, <1>10, <1>11, SamePlan, SameAudit, SameOutcome DEF ScanInv

LEMMA EndRoundKeeps ==
    ASSUME ScanInv, EndRound
    PROVE  ScanInv'
<1>1. /\ pc = "parse" /\ queue = <<>> /\ tasks = <<>> /\ wave = <<>>
      /\ UNCHANGED <<scan, changed, late, queue, tasks, wave, plan, cls, audit, result, runtime,
                     taint, stopped, warned, cache, base, round, draft, before>>
  BY DEF EndRound, pdfState
<1>2. PICK built \in {Context(result)} :
          \/ /\ round = 0
             /\ pc' = IF scan.refill THEN "refill" ELSE "finish"
             /\ UNCHANGED <<adm, ledger, outcome>>
          \/ /\ Fail(Mismatch(built))
             /\ UNCHANGED <<adm, ledger>>
          \/ /\ adm' = Reclaimed(built)
             /\ pc' = IF Progress = before \/ round = 2 THEN "finish" ELSE "refill"
             /\ UNCHANGED outcome
  BY DEF EndRound
<1>3. CASE /\ pc' = IF scan.refill THEN "refill" ELSE "finish"
           /\ UNCHANGED <<adm, ledger, outcome>>
  <2>1. Shrinks(adm')
    BY <1>3, SameShrinks DEF ScanInv
  <2>2. QED
    BY <1>1, <1>3, <2>1, RoundStep
<1>4. CASE Fail(Mismatch(built)) /\ UNCHANGED <<adm, ledger>>
  BY <1>1, <1>4, FailKeeps
<1>5. CASE /\ adm' = Reclaimed(built)
           /\ pc' = IF Progress = before \/ round = 2 THEN "finish" ELSE "refill"
           /\ UNCHANGED outcome
  <2>1. Shrinks(adm')
    BY <1>1, <1>2, <1>5, ReclaimedOf
  <2>2. pc' \in {"refill", "finish"}
    BY <1>5
  <2>3. QED
    BY <1>1, <1>5, <2>1, <2>2, RoundStep
<1>6. QED
  BY <1>2, <1>3, <1>4, <1>5

(* A refill round begins.                                                    *)
Refills(retained, frozen, reused) ==
    /\ adm' = retained
    /\ plan' = Amended(plan, frozen)
    /\ draft' = Unstarted \cup reused
    /\ queue' = InOrder({i \in Unstarted : frozen[i].classify = "classify"})
    /\ round' = round + 1
    /\ pc' = "classify"
    /\ UNCHANGED <<scan, changed, late, tasks, wave, cls, audit, result, runtime, taint, stopped, warned, cache,
                   outcome>>

LEMMA UnservedOf ==
    ASSUME NEW i \in Unserved
    PROVE  i \in Index /\ i \notin runtime /\ result[i].status = "none" /\ adm[i].act # "admit"
BY DEF Unserved, ActionOf

LEMMA RefillStep ==
    ASSUME ScanInv, pc = "refill", NEW retained, Shrinks(retained), NEW reused, reused \subseteq Classified,
           Refills(retained, RefillPlan(Unstarted), reused)
    PROVE  ScanInv'
<1>1. PICK frozen : frozen = RefillPlan(Unstarted)
  OBVIOUS
<1>2. /\ adm' = retained /\ plan' = Amended(plan, frozen) /\ draft' = Unstarted \cup reused
      /\ queue' = InOrder({i \in Unstarted : frozen[i].classify = "classify"}) /\ round' = round + 1 /\ pc' = "classify"
      /\ UNCHANGED <<scan, changed, late, tasks, wave, cls, audit, result, runtime, taint, stopped, warned, cache,
                     outcome>>
  BY <1>1 DEF Refills
<1>3. Types /\ WaitInv /\ ResultInv /\ SettledInv /\ PlanInv /\ scan \in Scans /\ Files' = Files /\ Index' = Index
  BY <1>2, SameFiles DEF ScanInv, Types
<1>4. queue = <<>> /\ tasks = <<>> /\ wave = <<>>
  BY <1>3 DEF WaitInv
<1>5. adm' \in [Index -> Decisions] /\ \A i \in Index : adm'[i].act = adm[i].act /\ adm'[i].why = adm[i].why
  BY <1>2 DEF Shrinks
<1>6. /\ Unstarted \subseteq Index /\ \A i \in Unstarted : /\ i \notin runtime /\ result[i].status = "none"
                                                           /\ adm[i].act # "admit" /\ cls[i].s \in Verdictless
  BY UnservedOf DEF Unstarted, Verdictless
<1>7. /\ reused \subseteq Index /\ \A i \in reused : /\ i \notin runtime /\ result[i].status = "none"
                                                     /\ adm[i].act # "admit" /\ cls[i].s \notin Verdictless
                                                     /\ i \notin Unstarted
  BY UnservedOf DEF Classified, Unstarted, Verdictless
<1>8. DOMAIN frozen = Unstarted /\ \A i \in Unstarted : PlanOf(Files[i], frozen[i])
  BY <1>1, <1>3, <1>6, RefillPlanOf
<1>9. \A i \in Index : plan'[i] = IF i \in Unstarted THEN frozen[i] ELSE plan[i]
  BY <1>2, <1>8, AmendedOf
<1>10. PlanInv'
  BY <1>3, <1>8, <1>9 DEF PlanInv
<1>11. plan' \in [Index -> Plans]
  <2>1. \A i \in Index : plan'[i] \in Plans
    BY <1>3, <1>10 DEF PlanInv, PlanOf
  <2>2. QED
    BY <1>2, <2>1, AmendedTyped
<1>12. PICK S : S = {i \in Unstarted : frozen[i].classify = "classify"}
  OBVIOUS
<1>13. S \subseteq Index /\ S \subseteq Unstarted /\ \A i \in Unstarted : i \in S <=> plan'[i].classify = "classify"
  BY <1>6, <1>9, <1>12
<1>14. queue' \in Seq(Index) /\ Distinct(queue') /\ Queued' = S
  BY <1>2, <1>3, <1>12, <1>13, InOrderOf DEF Queued
<1>15. Tasked' = {} /\ Flying' = {} /\ Waiting' = S /\ Len(wave') = 0 /\ Len(tasks') = 0
  BY <1>2, <1>4, <1>14 DEF Waiting, Tasked, Flying, Elems
<1>16. Types'
  <2>1. round' \in Nat /\ draft' \subseteq Index
    BY <1>2, <1>3, <1>6, <1>7 DEF Types
  <2>2. QED
    BY <1>2, <1>3, <1>5, <1>11, <1>14, <2>1 DEF Types
<1>17. WaitInv'
  BY <1>2, <1>14, <1>15 DEF WaitInv, Distinct
<1>18. ClassifyInv'
  <2>1. \A i \in Waiting' : /\ plan'[i].classify # "not_pdf" /\ i \in draft'
                            /\ cls'[i].s \in Verdictless /\ i \notin runtime'
    BY <1>2, <1>6, <1>13, <1>15
  <2>2. \A i \in draft' : /\ adm'[i].act # "admit" /\ result'[i].status = "none"
                          /\ plan'[i].classify = "classify" =>
                               i \in Waiting' \/ i \in runtime' \/ cls'[i].s \notin Verdictless
    BY <1>2, <1>5, <1>6, <1>7, <1>13, <1>15
  <2>3. QED
    BY <1>15, <2>1, <2>2 DEF ClassifyInv
<1>19. SettledInv'
  <2>1. ASSUME NEW i \in Index, i \notin draft' PROVE Settled(i)'
    <3>1. Settled(i) /\ i \notin Unstarted /\ plan'[i] = plan[i]
      BY <1>2, <1>3, <1>9, <2>1 DEF SettledInv
    <3>2. adm[i].act # "none" => Decided(plan[i], cls[i].s, adm'[i])
      BY <1>5, <3>1, ShrunkDecided DEF Settled
    <3>3. QED
      BY <1>2, <1>5, <3>1, <3>2 DEF Settled
  <2>2. QED
    BY <1>2, <1>3, <2>1 DEF SettledInv
<1>20. AuditInv'
  <2>1. ASSUME NEW i \in Index PROVE Audited(i)'
    <3>1. Audited(i) /\ (cls[i].s \notin Verdictless => plan'[i] = plan[i])
      BY <1>6, <1>9 DEF ScanInv, AuditInv
    <3>2. QED
      BY <1>2, <1>3, <3>1 DEF Audited
  <2>2. QED
    BY <1>3, <2>1 DEF AuditInv
<1>21. ResultInv'
  <2>1. \A i \in Index : NoText(i)' <=> NoText(i)
    BY <1>2, <1>5 DEF NoText
  <2>2. QED
    BY <1>2, <1>3, <1>5, <2>1 DEF ResultInv
<1>22. TaintInv' /\ ParseInv'
  BY <1>2 DEF ScanInv, TaintInv, ParseInv
<1>23. StopInv'
  BY <1>2, <1>3, <1>5 DEF ScanInv, StopInv, Types
<1>24. FreshInv'
  BY <1>2, <1>3 DEF ScanInv, FreshInv
<1>25. DraftInv'
  BY <1>2, <1>3 DEF DraftInv, Types
<1>26. QED
  BY <1>2, <1>10, <1>16, <1>17, <1>18, <1>19, <1>20, <1>21, <1>22, <1>23, <1>24, <1>25, SameOutcome DEF ScanInv

RefillMoves(retained, frozen, again) ==
    \/ EndRefill(IF Unserved = {} THEN "complete" ELSE "quota_exhausted", retained)
    \/ /\ adm' = retained
       /\ plan' = Amended(plan, frozen)
       /\ draft' = Unstarted \cup {i \in Classified : again[i].act = "admit"}
       /\ queue' = InOrder({i \in Unstarted : frozen[i].classify = "classify"})
       /\ round' = round + 1
       /\ pc' = "classify"
       /\ UNCHANGED outcome

Ends == \E why : EndRefill(why, adm) \/ EndRefill(why, Reclaimed(Context(result)))

LEMMA BeginRefillOf ==
    ASSUME BeginRefill
    PROVE  \/ Ends
           \/ \E bad : Fail(bad) /\ UNCHANGED <<plan, adm, queue, round, draft, before, ledger>>
           \/ \E reused : reused \subseteq Classified /\ Refills(Reclaimed(Context(result)), RefillPlan(Unstarted), reused)
<1>0. UNCHANGED <<scan, changed, late, tasks, wave, cls, audit, result, runtime, taint, stopped, warned, cache>>
  BY DEF BeginRefill, pdfState
<1>1. CASE EndRefill("deadline", adm)
  BY <1>1 DEF Ends
<1>2. CASE /\ \E built \in {Context(result)} : \E bad \in {Mismatch(built)} : bad # "none" /\ Fail(bad)
           /\ UNCHANGED <<plan, adm, queue, round, draft, before, ledger>>
  BY <1>2
<1>3. ASSUME \E built \in {Context(result)} : \E retained \in {Reclaimed(built)} :
             \E frozen \in {RefillPlan(Unstarted)} :
             \E again \in {Admission(Classified, base, Reserved(retained))} :
               RefillMoves(retained, frozen, again)
      PROVE  \/ Ends
             \/ \E r : r \subseteq Classified /\ Refills(Reclaimed(Context(result)), RefillPlan(Unstarted), r)
  <2>1. PICK built, retained, frozen, again :
         /\ built \in {Context(result)} /\ retained \in {Reclaimed(built)} /\ frozen \in {RefillPlan(Unstarted)}
         /\ RefillMoves(retained, frozen, again)
    BY <1>3, Zenon
  <2>2. PICK reused : reused = {i \in Classified : again[i].act = "admit"}
    OBVIOUS
  <2>3. \/ \E why : EndRefill(why, retained)
        \/ /\ adm' = retained
           /\ plan' = Amended(plan, frozen)
           /\ draft' = Unstarted \cup reused
           /\ queue' = InOrder({i \in Unstarted : frozen[i].classify = "classify"})
           /\ round' = round + 1
           /\ pc' = "classify"
           /\ UNCHANGED outcome
    BY <2>1, <2>2, Zenon DEF RefillMoves
  <2>4. CASE \E why : EndRefill(why, retained)
    BY <2>1, <2>4 DEF Ends
  <2>5. CASE ~\E why : EndRefill(why, retained)
    <3>1. reused \subseteq Classified
      BY <2>2
    <3>2. retained = Reclaimed(Context(result)) /\ frozen = RefillPlan(Unstarted)
      BY <2>1
    <3>3. Refills(retained, frozen, reused)
      BY <1>0, <2>3, <2>5 DEF Refills
    <3>4. QED
      BY <3>1, <3>2, <3>3
  <2>6. QED
    BY <2>4, <2>5
<1>4. \/ EndRefill("deadline", adm)
      \/ /\ \E built \in {Context(result)} : \E bad \in {Mismatch(built)} : bad # "none" /\ Fail(bad)
         /\ UNCHANGED <<plan, adm, queue, round, draft, before, ledger>>
      \/ \E built \in {Context(result)} : \E retained \in {Reclaimed(built)} :
         \E frozen \in {RefillPlan(Unstarted)} :
         \E again \in {Admission(Classified, base, Reserved(retained))} :
           RefillMoves(retained, frozen, again)
  BY Zenon DEF BeginRefill, RefillMoves
<1>5. QED
  BY <1>1, <1>2, <1>3, <1>4

LEMMA BeginRefillKeeps ==
    ASSUME ScanInv, BeginRefill
    PROVE  ScanInv'
<1>1. /\ pc = "refill"
      /\ UNCHANGED <<scan, changed, late, tasks, wave, cls, audit, result, runtime, taint, stopped, warned, cache,
                     base>>
  BY DEF BeginRefill, pdfState
<1>2. queue = <<>> /\ tasks = <<>> /\ wave = <<>>
  BY <1>1 DEF ScanInv, WaitInv
<1>3. CASE Ends
  <2>0. Shrinks(adm) /\ Shrinks(Reclaimed(Context(result)))
    BY <1>1, SameShrinks, ReclaimedOf DEF ScanInv
  <2>1. Shrinks(adm') /\ pc' = "finish" /\ UNCHANGED <<plan, queue, round, draft, outcome>>
    BY <1>3, <2>0 DEF Ends, EndRefill
  <2>2. QED
    BY <1>1, <1>2, <2>1, RoundStep
<1>4. ASSUME NEW bad, Fail(bad), UNCHANGED <<plan, adm, queue, round, draft, before, ledger>> PROVE ScanInv'
  BY <1>1, <1>4, FailKeeps
<1>5. ASSUME NEW reused, reused \subseteq Classified,
             Refills(Reclaimed(Context(result)), RefillPlan(Unstarted), reused)
      PROVE  ScanInv'
  <2>1. Shrinks(Reclaimed(Context(result)))
    BY <1>1, ReclaimedOf
  <2>2. QED
    BY <1>1, <1>5, <2>1, RefillStep
<1>6. \/ Ends
      \/ \E bad : Fail(bad) /\ UNCHANGED <<plan, adm, queue, round, draft, before, ledger>>
      \/ \E reused : reused \subseteq Classified /\ Refills(Reclaimed(Context(result)), RefillPlan(Unstarted), reused)
  BY BeginRefillOf
<1>7. QED
  BY <1>3, <1>4, <1>5, <1>6

-----------------------------------------------------------------------------
(* The end of the scan.                                                      *)

(* What is known of a file when the scan finishes.                           *)
Closed(i) ==
    /\ PlanOf(Files[i], plan[i]) /\ Settled(i) /\ Audited(i) /\ ResultOf(result[i]) /\ adm[i] \in Decisions
    /\ result[i].status # "none" => adm[i].act = "admit" /\ i \notin runtime /\ ~NoText(i)
    /\ i \in taint => result[i].status = "none" \/ result[i].code = "SOURCE_VERSION_CHANGED"
    /\ adm[i].act = "admit" => result[i].status # "none" \/ i \in runtime \/ NoText(i)
    /\ i \in taint /\ result[i].status = "none" => cls[i].s = "error"
    /\ i \in runtime => cls[i].s \in Verdictless \/ adm[i].act = "admit"

LEMMA AllClosed ==
    ASSUME ScanInv, pc = "finish", NEW i \in Index
    PROVE  Closed(i)
BY DEF ScanInv, Types, PlanInv, SettledInv, AuditInv, ResultInv, TaintInv, StopInv, Closed

LEMMA AdmittedFile ==
    ASSUME NEW i, Closed(i), adm[i].act = "admit"
    PROVE  /\ ActionOf(i) = adm[i] /\ cls[i].s \notin Refused
           /\ cls[i].s = "no_text" => NoText(i)
           /\ cls[i].s = "by_budget" => i \in runtime
<1>1. ActionOf(i) = adm[i]
  BY DEF ActionOf
<1>2. PlanOf(Files[i], plan[i]) /\ Settled(i) /\ Audited(i) /\ Decided(plan[i], cls[i].s, adm[i])
  BY DEF Closed, Settled
<1>3. plan[i].act = "admit" /\ adm[i].why = plan[i].why
  BY <1>2 DEF Decided
<1>4. cls[i].s \notin Refused
  <2>1. SUFFICES ASSUME cls[i].s \in Refused PROVE FALSE
    OBVIOUS
  <2>2. plan[i].classify = "classify" /\ cls[i].s \notin Answered
    BY <1>2, <2>1 DEF Audited, Verdictless, Refused, Answered
  <2>3. QED
    BY <1>2, <1>3, <2>2 DEF Decided
<1>5. cls[i].s = "no_text" => NoText(i)
  BY <1>2, <1>3 DEF Audited, PlanOf, NoText
<1>6. cls[i].s = "by_budget" => i \in runtime
  BY <1>2, <1>3 DEF Audited, PlanOf, Settled, Verdictless
<1>7. QED
  BY <1>1, <1>4, <1>5, <1>6

LEMMA OtherFile ==
    ASSUME NEW i, Closed(i), adm[i].act # "admit"
    PROVE  /\ result[i].status = "none" /\ ActionOf(i).act \in {"admit", "not_parsed", "reject", "classifier_failed"}
           /\ ActionOf(i).act = "admit" => i \in runtime /\ cls[i].s \notin Refused
           /\ ActionOf(i).act = "not_parsed" => cls[i].s \notin Refused /\ ActionOf(i).why \in OmitWhys
           /\ ActionOf(i).act = "reject" => cls[i].s = "none"
           /\ ActionOf(i).act = "classifier_failed" =>
                 /\ cls[i].s \notin Answered /\ (cls[i].s = "by_budget" => i \in runtime)
                 /\ ActionOf(i).why = "unknown" => cls[i].s # "error"
<1>1. PlanOf(Files[i], plan[i]) /\ Settled(i) /\ Audited(i) /\ result[i].status = "none"
  BY DEF Closed
<1>2. plan[i].act \in {"admit", "not_parsed", "reject"}
  <2>1. plan[i] \in Plans
    BY <1>1 DEF PlanOf
  <2>2. QED
    BY <2>1 DEF Plans, PlanActs
<1>3. cls[i].s \in Refused => plan[i].classify = "classify" /\ plan[i].act = "admit" /\ cls[i].s \notin Answered
  BY <1>1 DEF Audited, PlanOf, Verdictless, Refused, Answered
<1>4. plan[i].act = "reject" => cls[i].s = "none"
  BY <1>1 DEF Audited, PlanOf
<1>5. CASE adm[i].act = "none"
  <2>1. ActionOf(i) = plan[i]
    BY <1>5 DEF ActionOf
  <2>2. plan[i].act = "admit" => i \in runtime
    BY <1>1, <1>5 DEF Settled, PlanOf
  <2>3. i \in runtime => cls[i].s \notin Refused
    BY DEF Closed, Verdictless, Refused
  <2>4. plan[i].act = "not_parsed" => plan[i].why \in OmitWhys
    BY <1>1 DEF PlanOf
  <2>5. QED
    BY <1>1, <1>2, <1>3, <1>4, <2>1, <2>2, <2>3, <2>4
<1>6. CASE adm[i].act # "none"
  <2>1. ActionOf(i) = adm[i] /\ Decided(plan[i], cls[i].s, adm[i])
    BY <1>1, <1>6 DEF ActionOf, Settled
  <2>2. CASE plan[i].act # "admit"
    <3>1. adm[i].act = plan[i].act /\ adm[i].why = plan[i].why
      BY <2>1, <2>2 DEF Decided
    <3>2. plan[i].act = "not_parsed" => plan[i].why \in OmitWhys
      BY <1>1 DEF PlanOf
    <3>3. QED
      BY <1>1, <1>2, <1>3, <1>4, <2>1, <2>2, <3>1, <3>2
  <2>3. CASE plan[i].act = "admit" /\ (plan[i].classify = "not_pdf" \/ cls[i].s \in Answered)
    <3>1. adm[i].act = "not_parsed" /\ adm[i].why \in BudgetReasons
      BY <2>1, <2>3 DEF Decided
    <3>2. adm[i].why \in OmitWhys
      BY <3>1 DEF OmitWhys
    <3>3. cls[i].s \notin Refused
      BY <1>3, <2>3
    <3>4. QED
      BY <1>1, <2>1, <3>1, <3>2, <3>3
  <2>4. CASE plan[i].act = "admit" /\ plan[i].classify # "not_pdf" /\ cls[i].s \notin Answered
    <3>1. adm[i].act = "classifier_failed" /\ adm[i].why = IF cls[i].s = "error" THEN "error" ELSE "unknown"
      BY <2>1, <2>4 DEF Decided
    <3>2. cls[i].s = "by_budget" => i \in runtime
      BY <1>1, <2>4 DEF PlanOf, Settled, Verdictless
    <3>3. QED
      BY <1>1, <2>1, <2>4, <3>1, <3>2
  <2>5. QED
    BY <2>2, <2>3, <2>4
<1>7. QED
  BY <1>5, <1>6

(* The result of a file that changed before it was parsed is an error.       *)
FinalResult(i) == IF i \in taint /\ result[i].status = "none" THEN ChangedResult(0) ELSE result[i]

LEMMA FinalOf ==
    ASSUME NEW i, Closed(i)
    PROVE  /\ ResultOf(FinalResult(i)) /\ FinalResult(i) \in Results
           /\ FinalResult(i).code # "SOURCE_VERSION_CHANGED" => FinalResult(i) = result[i] /\ i \notin taint
           /\ FinalResult(i).code = "SOURCE_VERSION_CHANGED" =>
                 /\ FinalResult(i).status = "error"
                 /\ \/ result[i].status # "none"
                    \/ cls[i].s = "error" /\ FinalResult(i).attempts = 0
<1>1. ResultOf(result[i]) /\ (i \in taint => result[i].status = "none" \/ result[i].code = "SOURCE_VERSION_CHANGED")
      /\ (i \in taint /\ result[i].status = "none" => cls[i].s = "error")
  BY DEF Closed
<1>2. CASE i \in taint /\ result[i].status = "none"
  <2>1. FinalResult(i) = ChangedResult(0)
    BY <1>2 DEF FinalResult
  <2>2. ChangedResult(0).attempts = 0
    BY DEF ChangedResult
  <2>3. QED
    BY <1>1, <1>2, <2>1, <2>2, ChangedResultTyped
<1>3. CASE ~(i \in taint /\ result[i].status = "none")
  <2>1. FinalResult(i) = result[i]
    BY <1>3 DEF FinalResult
  <2>2. result[i].code = "SOURCE_VERSION_CHANGED" => result[i].status = "error"
    BY <1>1 DEF ResultOf
  <2>3. result[i] \in Results
    BY <1>1 DEF ResultOf
  <2>4. QED
    BY <1>1, <1>3, <2>1, <2>2, <2>3
<1>4. QED
  BY <1>2, <1>3

(* The four forms of evidence.                                               *)
Omission(e, r) == e.status = "not_parsed" /\ e.code = "none" /\ r = NoResult
Failure(e, r) == e.status \in {"error", "timeout"} /\ e.code # "none" /\ r.hit = FALSE /\ r.attempts \in Nat
Text(e, r) ==
    /\ e.status = "success" /\ e.code = "none" /\ r.status = "success" /\ r.hit \in BOOLEAN
    /\ IF r.hit THEN r.attempts = 0 ELSE r.attempts > 0
Metadata(e, r) == e.status = "success" /\ e.code = "none" /\ r = NoResult

(* The form of a file's evidence, and what is then known of its verdict.     *)
EvidenceForm(i, e, r) ==
    \/ Omission(e, r) /\ cls[i].s \notin Refused /\ (i \notin runtime => e.why \in OmitWhys)
    \/ /\ Failure(e, r) /\ cls[i].s # "no_text" /\ (cls[i].s = "by_budget" => i \in runtime)
       /\ cls[i].s \in Refused => r.attempts = 0 /\ (e.status = "error" \/ cls[i].s = "unknown")
    \/ Text(e, r) /\ cls[i].s \notin Refused \cup {"no_text", "by_budget"}
    \/ Metadata(e, r) /\ cls[i].s = "no_text"

LEMMA EvidenceOfFile ==
    ASSUME NEW i, Closed(i), NEW res, res[i] = FinalResult(i)
    PROVE  EvidenceForm(i, Evidence(i, res), res[i])
<1>1. PICK a, r, e : a = ActionOf(i) /\ r = res[i] /\ e = Evidence(i, res)
  OBVIOUS
<1>2. /\ ResultOf(r) /\ r \in Results
      /\ r.code # "SOURCE_VERSION_CHANGED" => r = result[i] /\ i \notin taint
      /\ r.code = "SOURCE_VERSION_CHANGED" =>
            /\ r.status = "error"
            /\ result[i].status # "none" \/ (cls[i].s = "error" /\ r.attempts = 0)
  BY <1>1, FinalOf
<1>3. /\ r.status = "none" => r = NoResult
      /\ r.status = "success" => r.code = "none" /\ IF r.hit THEN r.attempts = 0 ELSE r.attempts > 0
      /\ r.status \in {"error", "timeout"} => r.code # "none" /\ ~r.hit
      /\ r.status \in {"none", "success", "error", "timeout"} /\ r.attempts \in Nat /\ r.hit \in BOOLEAN
  <2>1. r.status \in {"none", "success", "error", "timeout"} /\ r.attempts \in Nat /\ r.hit \in BOOLEAN
    BY <1>2 DEF Results
  <2>2. QED
    BY <1>2, <2>1 DEF ResultOf
<1>4. /\ result[i].status # "none" => adm[i].act = "admit" /\ i \notin runtime /\ ~NoText(i)
      /\ adm[i].act = "admit" => result[i].status # "none" \/ i \in runtime \/ NoText(i)
  BY DEF Closed
<1>5. result[i].status # "none" => cls[i].s \notin Refused \cup {"no_text", "by_budget"}
  BY <1>4, AdmittedFile
<1>6. CASE r.code = "SOURCE_VERSION_CHANGED"
  <2>1. e = Failed("error", "source_version_changed", r.code)
    BY <1>1, <1>6 DEF Evidence
  <2>2. e.status = "error" /\ e.code # "none"
    BY <1>6, <2>1 DEF Failed
  <2>3. Failure(e, r)
    BY <1>2, <1>3, <1>6, <2>2 DEF Failure
  <2>4. result[i].status # "none" \/ (cls[i].s = "error" /\ r.attempts = 0)
    BY <1>2, <1>6
  <2>5. QED
    BY <1>1, <1>5, <2>2, <2>3, <2>4 DEF EvidenceForm
<1>7. CASE r.code # "SOURCE_VERSION_CHANGED" /\ a.act \in {"not_parsed", "reject", "classifier_failed"}
  <2>1. adm[i].act # "admit"
    BY <1>1, <1>7 DEF ActionOf
  <2>2. result[i].status = "none" /\ r = NoResult
    BY <1>2, <1>3, <1>7, <2>1, OtherFile
  <2>3. r.hit = FALSE /\ r.attempts = 0
    BY <2>2, FirstTypes
  <2>4. CASE a.act = "not_parsed"
    <3>1. e = Omitted(a.why)
      BY <1>1, <1>7, <2>4 DEF Evidence
    <3>2. Omission(e, r) /\ e.why = a.why
      BY <2>2, <3>1 DEF Omission, Omitted
    <3>3. QED
      BY <1>1, <2>1, <2>4, <3>2, OtherFile DEF EvidenceForm
  <2>5. CASE a.act = "reject"
    <3>1. e.status = "error" /\ e.code # "none"
      BY <1>1, <1>7, <2>5 DEF Evidence, Failed
    <3>2. Failure(e, r)
      BY <2>3, <3>1 DEF Failure
    <3>3. cls[i].s = "none"
      BY <1>1, <2>1, <2>5, OtherFile
    <3>4. QED
      BY <1>1, <3>2, <3>3 DEF EvidenceForm, Refused
  <2>6. CASE a.act = "classifier_failed"
    <3>1. e = ClassifierFailure(i)
      BY <1>1, <1>7, <2>6 DEF Evidence
    <3>2. /\ e.status \in {"error", "timeout"} /\ e.code # "none"
          /\ e.status = "timeout" => a.why = "unknown"
      BY <1>1, <3>1 DEF ClassifierFailure, Failed
    <3>3. Failure(e, r)
      BY <2>3, <3>2 DEF Failure
    <3>4. /\ cls[i].s \notin Answered /\ (cls[i].s = "by_budget" => i \in runtime)
          /\ a.why = "unknown" => cls[i].s # "error"
      BY <1>1, <2>1, <2>6, OtherFile
    <3>5. QED
      BY <1>1, <2>3, <3>2, <3>3, <3>4 DEF EvidenceForm, Refused, Answered
  <2>7. QED
    BY <1>7, <2>4, <2>5, <2>6
<1>8. CASE r.code # "SOURCE_VERSION_CHANGED" /\ a.act \notin {"not_parsed", "reject", "classifier_failed"}
  <2>1. e = IF i \in runtime THEN Omitted("runtime_deadline_exhausted")
            ELSE IF r.status = "success"
            THEN [status |-> "success", why |-> "none", code |-> "none",
                  chars |-> Files[i].chars, cut |-> Files[i].cut]
            ELSE IF r.status # "none" THEN Failed(r.status, "parse_error", r.code)
            ELSE IF cls[i].s \in {"no_text", "none"}
            THEN [Omitted("pdf_no_text_in_parse_window") EXCEPT !.status = "success"]
            ELSE Failed("error", "parse_error", "INTERNAL_ERROR")
    BY <1>1, <1>8 DEF Evidence
  <2>2. r = result[i]
    BY <1>2, <1>8
  <2>3. CASE i \in runtime
    <3>1. e = Omitted("runtime_deadline_exhausted")
      BY <2>1, <2>3
    <3>2. r = NoResult
      BY <1>3, <1>4, <2>2, <2>3
    <3>3. Omission(e, r)
      BY <3>1, <3>2 DEF Omission, Omitted
    <3>4. cls[i].s \notin Refused
      BY <1>1, <1>8, AdmittedFile, OtherFile
    <3>5. QED
      BY <1>1, <2>3, <3>3, <3>4 DEF EvidenceForm
  <2>4. CASE i \notin runtime /\ r.status = "success"
    <3>1. e.status = "success" /\ e.code = "none"
      BY <2>1, <2>4
    <3>2. Text(e, r)
      BY <1>3, <2>4, <3>1 DEF Text
    <3>3. QED
      BY <1>1, <1>5, <2>2, <2>4, <3>2 DEF EvidenceForm
  <2>5. CASE i \notin runtime /\ r.status \in {"error", "timeout"}
    <3>1. e = Failed(r.status, "parse_error", r.code)
      BY <2>1, <2>5
    <3>2. e.status = r.status /\ e.code = r.code
      BY <3>1 DEF Failed
    <3>3. Failure(e, r)
      BY <1>3, <2>5, <3>2 DEF Failure
    <3>4. QED
      BY <1>1, <1>5, <2>2, <2>5, <3>3 DEF EvidenceForm
  <2>6. CASE i \notin runtime /\ r.status = "none"
    <3>1. adm[i].act = "admit"
      BY <1>1, <1>8, <2>6, OtherFile
    <3>2. NoText(i) /\ cls[i].s = "no_text"
      BY <1>4, <2>2, <2>6, <3>1 DEF NoText
    <3>3. e = [Omitted("pdf_no_text_in_parse_window") EXCEPT !.status = "success"]
      BY <2>1, <2>6, <3>2
    <3>4. Metadata(e, r)
      BY <1>3, <2>6, <3>3 DEF Metadata, Omitted
    <3>5. QED
      BY <1>1, <3>2, <3>4 DEF EvidenceForm
  <2>7. QED
    BY <1>3, <2>3, <2>4, <2>5, <2>6
<1>9. QED
  BY <1>6, <1>7, <1>8

(* The row of each form of evidence.                                         *)
RowIs(row, status, backend, hits, attempts, error, a) ==
    /\ row.status = status /\ row.backend = backend /\ row.cache = hits /\ row.attempts = attempts
    /\ row.error = error /\ row.audit = a

LEMMA RowOf ==
    ASSUME NEW i, NEW res
    PROVE  LET e == Evidence(i, res)
               r == res[i]
           IN /\ Omission(e, r) => RowIs(Row(i, res), "not_parsed", "not_parsed", "not_applicable", 0, FALSE, audit[i])
              /\ Failure(e, r) /\ r.attempts > 0 => RowIs(Row(i, res), e.status, "body", "miss", r.attempts, TRUE, audit[i])
              /\ Failure(e, r) /\ r.attempts = 0 =>
                    RowIs(Row(i, res), e.status, "not_parsed", "not_applicable", 0, TRUE, audit[i])
              /\ Text(e, r) /\ r.hit => RowIs(Row(i, res), "success", "body", "fresh", 0, FALSE, audit[i])
              /\ Text(e, r) /\ ~r.hit => RowIs(Row(i, res), "success", "body", "miss", r.attempts, FALSE, audit[i])
              /\ Metadata(e, r) => RowIs(Row(i, res), "success", "metadata", "not_applicable", 0, FALSE, audit[i])
<1>1. PICK e, r, a, row : e = Evidence(i, res) /\ r = res[i] /\ a = audit[i] /\ row = Row(i, res)
  OBVIOUS
<1>2. PICK err : err = (e.code # "none") /\ err \in BOOLEAN
  OBVIOUS
<1>3. PICK back, hits :
        /\ back = IF e.status = "success" /\ r.status = "none" THEN "metadata"
                  ELSE IF e.status # "not_parsed" /\ (r.hit \/ r.attempts > 0) THEN "body" ELSE "not_parsed"
        /\ hits = CASE e.status = "success" /\ r.hit -> "fresh"
                    [] e.status = "success" /\ ~r.hit /\ ~(e.status = "success" /\ r.status = "none") -> "miss"
                    [] e.status \in {"error", "timeout"} /\ e.status # "not_parsed" /\ (r.hit \/ r.attempts > 0) -> "miss"
                    [] OTHER -> "not_applicable"
  OBVIOUS
<1>4. row = [status |-> e.status, backend |-> back, cache |-> hits, attempts |-> r.attempts, error |-> err, audit |-> a]
  <2>1. row = [status |-> e.status,
               backend |-> IF e.status = "success" /\ r.status = "none" THEN "metadata"
                           ELSE IF ~(e.status = "success" /\ r.status = "none") /\ e.status # "not_parsed" /\ Opened(r)
                           THEN "body" ELSE "not_parsed",
               cache |-> CASE e.status = "success" /\ r.hit -> "fresh"
                           [] e.status = "success" /\ ~r.hit /\ ~(e.status = "success" /\ r.status = "none") -> "miss"
                           [] e.status \in {"error", "timeout"}
                              /\ (~(e.status = "success" /\ r.status = "none") /\ e.status # "not_parsed" /\ Opened(r)) -> "miss"
                           [] OTHER -> "not_applicable",
               attempts |-> r.attempts, error |-> e.code # "none", audit |-> a]
    BY <1>1 DEF Row
  <2>2. QED
    BY <1>2, <1>3, <2>1 DEF Opened
<1>5. RowIs(row, e.status, back, hits, r.attempts, err, a)
  BY <1>4 DEF RowIs
<1>6. Omission(e, r) => RowIs(row, "not_parsed", "not_parsed", "not_applicable", 0, FALSE, a)
  BY <1>2, <1>3, <1>5, FirstTypes DEF Omission
<1>7. Failure(e, r) /\ r.attempts > 0 => RowIs(row, e.status, "body", "miss", r.attempts, TRUE, a)
  BY <1>2, <1>3, <1>5 DEF Failure
<1>8. Failure(e, r) /\ r.attempts = 0 => RowIs(row, e.status, "not_parsed", "not_applicable", 0, TRUE, a)
  <2>1. ASSUME Failure(e, r), r.attempts = 0
        PROVE  RowIs(row, e.status, "not_parsed", "not_applicable", 0, TRUE, a)
    <3>4. r.hit = FALSE /\ e.status \in {"error", "timeout"} /\ e.code # "none"
      BY <2>1 DEF Failure
    <3>5. err = TRUE
      BY <1>2, <3>4
    <3>6. ~(r.attempts > 0)
      BY <2>1
    <3>1. ~(r.attempts > 0) /\ r.hit = FALSE /\ e.status \in {"error", "timeout"} /\ err = TRUE
      BY <3>4, <3>5, <3>6, Zenon
    <3>2. back = "not_parsed" /\ hits = "not_applicable"
      BY <1>3, <3>1
    <3>3. QED
      BY <1>5, <2>1, <3>1, <3>2
  <2>2. QED
    BY <2>1
<1>9. Text(e, r) /\ r.hit => RowIs(row, "success", "body", "fresh", 0, FALSE, a)
  BY <1>2, <1>3, <1>5 DEF Text
<1>10. Text(e, r) /\ ~r.hit => RowIs(row, "success", "body", "miss", r.attempts, FALSE, a)
  BY <1>2, <1>3, <1>5 DEF Text
<1>11. Metadata(e, r) => RowIs(row, "success", "metadata", "not_applicable", 0, FALSE, a)
  BY <1>2, <1>3, <1>5, FirstTypes DEF Metadata
<1>12. QED
  BY <1>1, <1>6, <1>7, <1>8, <1>9, <1>10, <1>11

LEMMA RowsPass ==
    ASSUME NEW i, Closed(i), OwnAudit(i), NEW res, res[i] = FinalResult(i)
    PROVE  RowValid(Row(i, res), Files[i])
<1>1. PICK e, r, a, row, f : e = Evidence(i, res) /\ r = res[i] /\ a = audit[i] /\ row = Row(i, res) /\ f = Files[i]
  OBVIOUS
<1>2. EvidenceForm(i, e, r)
  BY <1>1, EvidenceOfFile
<1>3. /\ a.s # "none" => AuditValid(a, f)
      /\ a.s \notin Verdictless => a.s = cls[i].s
      /\ cls[i].s \in Answered => a.s = cls[i].s
      /\ a.s = "by_budget" => cls[i].s = "by_budget" /\ i \notin runtime
  BY <1>1 DEF Closed, Audited, OwnAudit
<1>4. /\ Omission(e, r) => RowIs(row, "not_parsed", "not_parsed", "not_applicable", 0, FALSE, a)
      /\ Failure(e, r) /\ r.attempts > 0 => RowIs(row, e.status, "body", "miss", r.attempts, TRUE, a)
      /\ Failure(e, r) /\ r.attempts = 0 => RowIs(row, e.status, "not_parsed", "not_applicable", 0, TRUE, a)
      /\ Text(e, r) /\ r.hit => RowIs(row, "success", "body", "fresh", 0, FALSE, a)
      /\ Text(e, r) /\ ~r.hit => RowIs(row, "success", "body", "miss", r.attempts, FALSE, a)
      /\ Metadata(e, r) => RowIs(row, "success", "metadata", "not_applicable", 0, FALSE, a)
  BY <1>1, RowOf
<1>5. CASE Omission(e, r) /\ cls[i].s \notin Refused
  <2>1. RowIs(row, "not_parsed", "not_parsed", "not_applicable", 0, FALSE, a)
    BY <1>4, <1>5
  <2>2. a.s \notin {"unknown", "error"}
    BY <1>3, <1>5 DEF Verdictless, Refused
  <2>3. RowValid(row, f)
    <3>1. row.error = FALSE /\ row.status \notin {"error", "timeout"}
      BY <2>1 DEF RowIs
    <3>2. row.error = (row.status \in {"error", "timeout"})
      <4>1. (row.status \in {"error", "timeout"}) = FALSE
        BY <3>1
      <4>2. QED
        BY <3>1, <4>1, Zenon
    <3>3. QED
      BY <1>3, <2>1, <2>2, <3>2 DEF RowIs, RowValid
  <2>4. QED
    BY <1>1, <2>3
<1>6. CASE /\ Failure(e, r) /\ cls[i].s # "no_text" /\ (cls[i].s = "by_budget" => i \in runtime)
           /\ cls[i].s \in Refused => r.attempts = 0 /\ (e.status = "error" \/ cls[i].s = "unknown")
  <2>1. a.s \notin {"no_text", "by_budget"}
    BY <1>3, <1>6 DEF Verdictless
  <2>2. /\ a.s \in {"unknown", "error"} => a.s = cls[i].s /\ cls[i].s \in Refused
    BY <1>3 DEF Verdictless, Refused
  <2>3. e.status \in {"error", "timeout"} /\ r.attempts \in Nat
    BY <1>6 DEF Failure
  <2>4. CASE r.attempts > 0
    <3>1. RowIs(row, e.status, "body", "miss", r.attempts, TRUE, a)
      BY <1>4, <1>6, <2>4
    <3>2. a.s \notin {"unknown", "error"}
      BY <1>6, <2>2, <2>4
    <3>3. RowValid(row, f)
      BY <1>3, <2>1, <2>3, <2>4, <3>1, <3>2 DEF RowIs, RowValid
    <3>4. QED
      BY <1>1, <3>3
  <2>5. CASE r.attempts = 0
    <3>1. RowIs(row, e.status, "not_parsed", "not_applicable", 0, TRUE, a)
      BY <1>4, <1>6, <2>5
    <3>2. a.s \in {"unknown", "error"} => e.status = "error" \/ (e.status = "timeout" /\ a.s = "unknown")
      BY <1>6, <2>2, <2>3
    <3>3. RowValid(row, f)
      BY <1>3, <2>1, <2>3, <3>1, <3>2 DEF RowIs, RowValid
    <3>4. QED
      BY <1>1, <3>3
  <2>6. QED
    BY <2>3, <2>4, <2>5
<1>7. CASE Text(e, r) /\ cls[i].s \notin Refused \cup {"no_text", "by_budget"}
  <2>1. a.s \notin {"no_text", "by_budget", "unknown", "error"}
    BY <1>3, <1>7 DEF Verdictless, Refused
  <2>2. CASE r.hit
    <3>1. RowIs(row, "success", "body", "fresh", 0, FALSE, a)
      BY <1>4, <1>7, <2>2
    <3>2. RowValid(row, f)
      <4>1. row.error = FALSE /\ row.status \notin {"error", "timeout"}
        BY <3>1 DEF RowIs
      <4>2. row.error = (row.status \in {"error", "timeout"})
        <5>1. (row.status \in {"error", "timeout"}) = FALSE
          BY <4>1
        <5>2. QED
          BY <4>1, <5>1, Zenon
      <4>3. QED
        BY <1>3, <2>1, <3>1, <4>2 DEF RowIs, RowValid
    <3>3. QED
      BY <1>1, <3>2
  <2>3. CASE ~r.hit
    <3>1. RowIs(row, "success", "body", "miss", r.attempts, FALSE, a) /\ r.attempts > 0
      BY <1>4, <1>7, <2>3 DEF Text
    <3>2. RowValid(row, f)
      <4>1. row.error = FALSE /\ row.status \notin {"error", "timeout"}
        BY <3>1 DEF RowIs
      <4>2. row.error = (row.status \in {"error", "timeout"})
        <5>1. (row.status \in {"error", "timeout"}) = FALSE
          BY <4>1
        <5>2. QED
          BY <4>1, <5>1, Zenon
      <4>3. QED
        BY <1>3, <2>1, <3>1, <4>2 DEF RowIs, RowValid
    <3>3. QED
      BY <1>1, <3>2
  <2>4. QED
    BY <2>2, <2>3
<1>8. CASE Metadata(e, r) /\ cls[i].s = "no_text"
  <2>1. RowIs(row, "success", "metadata", "not_applicable", 0, FALSE, a)
    BY <1>4, <1>8
  <2>2. a.s = "no_text"
    BY <1>3, <1>8 DEF Answered
  <2>3. RowValid(row, f)
    <3>1. row.error = FALSE /\ row.status \notin {"error", "timeout"}
      BY <2>1 DEF RowIs
    <3>2. row.error = (row.status \in {"error", "timeout"})
      <4>1. (row.status \in {"error", "timeout"}) = FALSE
        BY <3>1
      <4>2. QED
        BY <3>1, <4>1, Zenon
    <3>3. QED
      BY <1>3, <2>1, <2>2, <3>2 DEF RowIs, RowValid
  <2>4. QED
    BY <1>1, <2>3
<1>9. QED
  BY <1>2, <1>5, <1>6, <1>7, <1>8 DEF EvidenceForm

(* What the terminal state says.                                             *)
LEMMA TerminalOf ==
    ASSUME NEW built, NEW es, NEW rows, NEW warning, NEW cut, runtime # {} => cut
    PROVE  LET z == Terminal(built, es, rows, warning, cut)
           IN /\ z.kind \in {"success", "partial", "error"} /\ z.rows = rows /\ z.evidence = es
              /\ z.kind = "error" => z.error
              /\ z.kind = "success" => /\ ~z.warning /\ runtime = {}
                                       /\ \A i \in Index : es[i].status \notin {"error", "timeout"}
<1>1. PICK failures \in BOOLEAN : failures = (\E i \in Index : es[i].status \in {"error", "timeout"})
  OBVIOUS
<1>2. PICK k : k = IF ~Failing(failures, cut) THEN IF warning THEN "partial" ELSE "success"
                   ELSE IF built.included = 0 THEN "error" ELSE "partial"
  OBVIOUS
<1>3. PICK x, y : x = (k = "error" /\ (failures \/ cut)) /\ y = (warning \/ cut \/ failures)
  OBVIOUS
<1>4. Terminal(built, es, rows, warning, cut) = OutcomeOf(k, "none", x, y, rows, es, built.chars)
  BY <1>1, <1>2, <1>3, Zenon DEF Terminal
<1>5. k \in {"success", "partial", "error"} /\ (k = "error" => x)
  BY <1>2, <1>3 DEF Failing
<1>6. k = "success" => ~y /\ runtime = {} /\ ~failures
  BY <1>2, <1>3 DEF Failing
<1>7. k = "success" => \A i \in Index : es[i].status \notin {"error", "timeout"}
  BY <1>1, <1>6
<1>8. QED
  BY <1>4, <1>5, <1>6, <1>7, OutcomeFields

(* Finish, once its touch of the hits, results, evidence and rendering are   *)
(* named.                                                                    *)
FinalOutcome(es, built, rows, warning, cut) ==
    IF scan.refill /\ ~LedgerValid THEN FailedScan("failed", "ledger")
    ELSE IF Mismatch(built) # "none" THEN FailedScan("error", Mismatch(built))
    ELSE Terminal(built, es, rows, warning, cut)
FinishMoves(touch, res, es, built) ==
    /\ result' = res
    /\ outcome' = FinalOutcome(es, built, [i \in Index |-> Row(i, res)], warned \/ touch = "failed",
                               stopped \/ touch = "deadline")
    /\ stopped' = (stopped \/ touch = "deadline")

FinalResults == [i \in Index |-> FinalResult(i)]

LEMMA FinishOf ==
    ASSUME Finish
    PROVE  \E touch, built : /\ built = Context(FinalResults)
                             /\ FinishMoves(touch, FinalResults, EvidenceOf(FinalResults), built)
<1>1. \E touch \in {"ok", "deadline", "failed"} :
      \E res \in {FinalResults} : \E es \in {EvidenceOf(res)} : \E built \in {Context(res)} :
         FinishMoves(touch, res, es, built)
  BY ZenonT(60) DEF Finish, FinishMoves, FinalOutcome, FinalResults, FinalResult
<1>2. PICK touch, res, es, built :
        res \in {FinalResults} /\ es \in {EvidenceOf(res)} /\ built \in {Context(res)} /\ FinishMoves(touch, res, es, built)
  BY <1>1, Zenon
<1>3. res = FinalResults /\ es = EvidenceOf(FinalResults) /\ built = Context(FinalResults)
  BY <1>2
<1>4. QED
  BY <1>2, <1>3

(* What a terminal outcome with rows says of the files, whose results are    *)
(* then final.                                                               *)
LEMMA OutcomeTrue ==
    ASSUME NEW z, NEW res, NEW i \in Index, Closed(i), res = FinalResults, z = EvidenceOf(res)
    PROVE  /\ z[i] = Evidence(i, res) /\ res[i] = FinalResult(i)
           /\ z[i].status = "success" /\ res[i].status # "none" => res[i].status = "success"
           /\ z[i].status \notin {"error", "timeout"} =>
                 /\ i \notin taint
                 /\ i \notin runtime => z[i].status = "success" \/ z[i].why \in OmitWhys
<1>1. z[i] = Evidence(i, res) /\ res[i] = FinalResult(i)
  BY DEF EvidenceOf, FinalResults
<1>2. EvidenceForm(i, z[i], res[i])
  BY <1>1, EvidenceOfFile
<1>3. z[i].status = "success" /\ res[i].status # "none" => res[i].status = "success"
  BY <1>2, FirstTypes DEF EvidenceForm, Omission, Failure, Text, Metadata, NoResult
<1>4. ASSUME z[i].status \notin {"error", "timeout"} PROVE i \notin taint
  <2>1. CASE res[i].code = "SOURCE_VERSION_CHANGED"
    <3>1. Evidence(i, res) = Failed("error", "source_version_changed", res[i].code)
      BY <2>1 DEF Evidence
    <3>2. z[i].status = "error"
      BY <1>1, <3>1 DEF Failed
    <3>3. QED
      BY <1>4, <3>2
  <2>2. CASE res[i].code # "SOURCE_VERSION_CHANGED"
    BY <1>1, <2>2, FinalOf
  <2>3. QED
    BY <2>1, <2>2
<1>5. ASSUME z[i].status \notin {"error", "timeout"}, i \notin runtime
      PROVE  z[i].status = "success" \/ z[i].why \in OmitWhys
  BY <1>2, <1>5 DEF EvidenceForm, Omission, Failure, Text, Metadata
<1>6. QED
  BY <1>1, <1>3, <1>4, <1>5

(* The outcome is explained, and its texts and rows are of final results.    *)
LEMMA FinalSources ==
    ASSUME ScanInv, Finish, NEW i \in Index
    PROVE  /\ result'[i] = FinalResult(i) /\ result'[i] \in Results /\ Closed(i)
           /\ scan.strict /\ result'[i].status = "success" => result'[i].fresh
<1>1. pc = "finish"
  BY DEF Finish
<1>2. Closed(i)
  BY <1>1, AllClosed
<1>3. result' = FinalResults
  BY FinishOf DEF FinishMoves
<1>4. result'[i] = FinalResult(i)
  BY <1>3 DEF FinalResults
<1>5. FinalResult(i) \in Results
  BY <1>2, FinalOf
<1>6. ASSUME scan.strict, FinalResult(i).status = "success" PROVE FinalResult(i).fresh
  <2>1. FinalResult(i) = result[i]
    BY <1>2, <1>6, FinalOf
  <2>2. QED
    BY <1>6, <2>1 DEF ScanInv, FreshInv
<1>7. QED
  BY <1>2, <1>4, <1>5, <1>6

LEMMA FinishKeeps ==
    ASSUME ScanInv, Finish
    PROVE  ScanInv'
<1>1. /\ pc = "finish" /\ pc' = "done"
      /\ UNCHANGED <<scan, changed, late, queue, tasks, wave, plan, cls, audit, adm, runtime, taint, warned, cache,
                     round, draft>>
  BY DEF Finish, pdfState, roundState
<1>2. PICK touch, built : FinishMoves(touch, FinalResults, EvidenceOf(FinalResults), built)
  BY FinishOf
<1>3. Files' = Files /\ Index' = Index
  BY <1>1, SameFiles
<1>4. \A i \in Index : Closed(i) /\ result'[i] \in Results
  BY FinalSources
<1>a. \A i \in Index : result'[i] = FinalResult(i)
  BY FinalSources
<1>b. ASSUME scan.strict, NEW i \in Index, result'[i].status = "success" PROVE result'[i].fresh
  BY <1>b, FinalSources
<1>5. result' \in [Index -> Results]
  <2>1. result' = FinalResults
    BY <1>2 DEF FinishMoves
  <2>2. DOMAIN result' = Index /\ result' = [i \in Index |-> result'[i]]
    BY <2>1 DEF FinalResults
  <2>3. QED
    BY <1>4, <2>2
<1>6. Types'
  BY <1>1, <1>3, <1>5 DEF ScanInv, Types
<1>7. WaitInv'
  <2>1. Queued' = Queued /\ Tasked' = Tasked /\ Flying' = Flying
    BY <1>1, SameWait
  <2>2. QED
    BY <1>1, <2>1 DEF ScanInv, WaitInv
<1>8. ClassifyInv' /\ ParseInv' /\ SettledInv' /\ DraftInv'
  BY <1>1, <1>3 DEF ScanInv, ClassifyInv, ParseInv, SettledInv, DraftInv
<1>9. FreshInv'
  BY <1>1, <1>3, <1>b DEF ScanInv, FreshInv
<1>10. TaintInv'
  <2>1. ASSUME NEW i \in taint PROVE result'[i].status # "none" \/ cls[i].s = "error"
    <3>1. i \in Index
      BY DEF ScanInv, Types
    <3>2. result'[i] = FinalResult(i)
      BY <1>a, <3>1
    <3>3. CASE result[i].status = "none"
      BY <3>3 DEF ScanInv, TaintInv
    <3>4. CASE result[i].status # "none"
      BY <3>2, <3>4 DEF FinalResult
    <3>5. QED
      BY <3>3, <3>4
  <2>2. QED
    BY <1>1, <2>1 DEF TaintInv
<1>11. StopInv'
  BY <1>1, <1>2 DEF ScanInv, StopInv, FinishMoves
<1>12. PICK cut, warning, rows, es :
         /\ cut = (stopped \/ touch = "deadline") /\ warning = (warned \/ touch = "failed")
         /\ rows = [i \in Index |-> Row(i, FinalResults)] /\ es = EvidenceOf(FinalResults)
  OBVIOUS
<1>13. outcome' = FinalOutcome(es, built, rows, warning, cut)
  BY <1>2, <1>12 DEF FinishMoves
<1>14. runtime # {} => cut
  BY <1>12 DEF ScanInv, StopInv
<1>15. DOMAIN rows = Index /\ DOMAIN es = Index
  BY <1>12 DEF EvidenceOf
<1>16. \/ \E k \in {"failed", "error"} : \E w : outcome' = FailedScan(k, w)
       \/ outcome' = Terminal(built, es, rows, warning, cut)
  BY <1>13 DEF FinalOutcome
<1>17. ASSUME NEW k \in {"failed", "error"}, NEW w, outcome' = FailedScan(k, w) PROVE OutcomeInv'
  <2>1. outcome'.kind = k /\ outcome'.error = TRUE /\ outcome'.rows = <<>> /\ outcome'.evidence = <<>>
    BY <1>17, FailedFields
  <2>2. DOMAIN outcome'.evidence = {} /\ DOMAIN outcome'.rows = {}
    BY <2>1
  <2>3. SourcesAreUnchanged'
    BY <1>1, <1>3, <1>9, <2>2 DEF SourcesAreUnchanged, FreshInv
  <2>4. RowsAreValid'
    BY <2>2 DEF RowsAreValid
  <2>5. OutcomeIsExplained'
    BY <2>1 DEF OutcomeIsExplained
  <2>6. QED
    BY <1>1, <2>3, <2>4, <2>5 DEF OutcomeInv, OutcomeIsSound
<1>18. ASSUME outcome' = Terminal(built, es, rows, warning, cut) PROVE OutcomeInv'
  <2>1. /\ outcome'.kind \in {"success", "partial", "error"} /\ outcome'.rows = rows /\ outcome'.evidence = es
        /\ outcome'.kind = "error" => outcome'.error
        /\ outcome'.kind = "success" => /\ ~outcome'.warning /\ runtime = {}
                                        /\ \A i \in Index : es[i].status \notin {"error", "timeout"}
    BY <1>14, <1>18, TerminalOf
  <2>2. \A i \in Index :
           /\ es[i].status = "success" /\ FinalResults[i].status # "none" => FinalResults[i].status = "success"
           /\ es[i].status \notin {"error", "timeout"} =>
                 /\ i \notin taint
                 /\ i \notin runtime => es[i].status = "success" \/ es[i].why \in OmitWhys
    <3>1. ASSUME NEW i \in Index
          PROVE  /\ es[i].status = "success" /\ FinalResults[i].status # "none" => FinalResults[i].status = "success"
                 /\ es[i].status \notin {"error", "timeout"} =>
                       /\ i \notin taint
                       /\ i \notin runtime => es[i].status = "success" \/ es[i].why \in OmitWhys
      <4>1. Closed(i)
        BY <1>4
      <4>2. QED
        BY <1>12, <4>1, OutcomeTrue
    <3>2. QED
      BY <3>1
  <2>3. SourcesAreUnchanged'
    <3>1. \A i \in Index : FinalResults[i] = result'[i]
      BY <1>2 DEF FinishMoves
    <3>2. ASSUME scan.strict, NEW i \in Index, es[i].status = "success", result'[i].status # "none"
          PROVE  result'[i].fresh
      <4>1. result'[i].status = "success"
        BY <2>2, <3>1, <3>2
      <4>2. QED
        BY <1>b, <3>2, <4>1
    <3>3. scan.strict => \A i \in Index : cache[i] # "bad"
      BY DEF ScanInv, FreshInv
    <3>4. QED
      BY <1>1, <1>3, <1>15, <2>1, <3>2, <3>3 DEF SourcesAreUnchanged
  <2>4. RowsAreValid'
    <3>1. ASSUME NEW i \in Index, OwnAudit(i) PROVE RowValid(rows[i], Files[i])
      <4>1. FinalResults[i] = FinalResult(i)
        BY DEF FinalResults
      <4>2. RowValid(Row(i, FinalResults), Files[i])
        <5>1. Closed(i)
          BY <1>4
        <5>2. QED
          BY <3>1, <4>1, <5>1, RowsPass
      <4>3. QED
        BY <1>12, <4>2
    <3>2. \A i \in Index : OwnAudit(i)' = OwnAudit(i)
      BY <1>1 DEF OwnAudit
    <3>3. QED
      BY <1>3, <1>15, <2>1, <3>1, <3>2 DEF RowsAreValid
  <2>5. OutcomeIsExplained'
    <3>1. ASSUME outcome'.kind = "success"
          PROVE  /\ ~outcome'.warning /\ runtime = {} /\ taint = {}
                 /\ \A i \in Index : es[i].status = "success" \/ es[i].why \in OmitWhys
      <4>1. taint \subseteq Index
        BY DEF ScanInv, Types
      <4>2. QED
        BY <2>1, <2>2, <3>1, <4>1
    <3>2. QED
      BY <1>1, <1>3, <2>1, <3>1 DEF OutcomeIsExplained, OmitWhys
  <2>6. QED
    BY <1>1, <2>3, <2>4, <2>5 DEF OutcomeInv, OutcomeIsSound
<1>19. OutcomeInv'
  BY <1>16, <1>17, <1>18
<1>20. QED
  BY <1>1, <1>3, <1>6, <1>7, <1>8, <1>9, <1>10, <1>11, <1>19, SamePlan, SameAudit DEF ScanInv

-----------------------------------------------------------------------------
(* Every step.                                                               *)

LEMMA StutterKeeps ==
    ASSUME ScanInv, UNCHANGED vars
    PROVE  ScanInv'
<1>1. /\ UNCHANGED <<scan, changed, late, pc, queue, tasks, wave, plan, cls, audit, adm, result, runtime, taint,
                     stopped, warned, cache, round, draft, outcome>>
  BY DEF vars
<1>2. Files' = Files /\ Index' = Index
  BY <1>1, SameFiles
<1>3. Types' /\ PlanInv' /\ AuditInv' /\ WaitInv'
  BY <1>1, <1>2, SamePlan, SameAudit, SameWaitInv DEF ScanInv, Types
<1>4. ClassifyInv' /\ ParseInv' /\ SettledInv' /\ DraftInv'
  BY <1>1, SameClassify, SameParse, SameSettled, SameDraft DEF ScanInv
<1>5. (pc # "done" => ResultInv)'
  BY <1>1, SameResult DEF ScanInv
<1>6. TaintInv' /\ StopInv'
  BY <1>1 DEF ScanInv, TaintInv, StopInv
<1>7. FreshInv'
  BY <1>1, <1>2 DEF ScanInv, FreshInv
<1>8. OutcomeInv'
  <2>1. CASE pc # "done"
    BY <1>1, <2>1 DEF ScanInv, OutcomeInv
  <2>2. CASE pc = "done"
    <3>1. SourcesAreUnchanged /\ RowsAreValid /\ OutcomeIsExplained
      BY <2>2 DEF ScanInv, OutcomeInv, OutcomeIsSound
    <3>2. SourcesAreUnchanged'
      BY <1>1, <1>2, <3>1 DEF SourcesAreUnchanged
    <3>3. RowsAreValid'
      BY <1>1, <1>2, <3>1 DEF RowsAreValid, OwnAudit
    <3>4. OutcomeIsExplained'
      BY <1>1, <1>2, <3>1 DEF OutcomeIsExplained
    <3>5. QED
      BY <1>1, <2>2, <3>2, <3>3, <3>4 DEF OutcomeInv, OutcomeIsSound
  <2>3. QED
    BY <2>1, <2>2
<1>9. QED
  BY <1>3, <1>4, <1>5, <1>6, <1>7, <1>8 DEF ScanInv

LEMMA Stays ==
    ASSUME ScanInv, [Next]_vars
    PROVE  ScanInv'
<1>1. CASE Step
  BY <1>1, LookupClassificationKeeps, LookupFailsKeeps, DispatchClassificationsKeeps, SettleVerdictKeeps, PriceKeeps,
     LookupParseKeeps, DispatchParsesKeeps, SettleTextKeeps, BeginRefillKeeps, EndRoundKeeps, FinishKeeps DEF Step
<1>2. CASE Answer
  BY <1>2, ReturnVerdictKeeps, ReturnTextKeeps DEF Answer
<1>3. CASE ChangeSource \/ PassDeadline
  BY <1>3, ChangeSourceKeeps, PassDeadlineKeeps
<1>4. CASE Done \/ UNCHANGED vars
  BY <1>4, StutterKeeps DEF Done
<1>5. QED
  BY <1>1, <1>2, <1>3, <1>4 DEF Next

LEMMA Always == Spec => []ScanInv
<1>1. Init => ScanInv
  BY Starts
<1>2. ScanInv /\ [Next]_vars => ScanInv'
  BY Stays
<1>3. QED
  BY <1>1, <1>2, PTL DEF Spec

-----------------------------------------------------------------------------
(* The theorems.                                                             *)

LEMMA SoundAlways ==
    ASSUME ScanInv
    PROVE  SourcesAreUnchanged /\ OutcomeIsSound
<1>1. CASE pc = "done"
  BY <1>1 DEF ScanInv, OutcomeInv
<1>2. CASE pc # "done"
  <2>1. outcome = NoOutcome
    BY <1>2 DEF ScanInv, OutcomeInv
  <2>2. outcome.kind = "none" /\ outcome.rows = <<>> /\ outcome.evidence = <<>>
    BY <2>1 DEF NoOutcome, OutcomeOf
  <2>3. DOMAIN outcome.evidence = {} /\ DOMAIN outcome.rows = {}
    BY <2>2
  <2>4. SourcesAreUnchanged
    BY <2>3 DEF ScanInv, FreshInv, SourcesAreUnchanged
  <2>5. RowsAreValid
    BY <2>3 DEF RowsAreValid
  <2>6. OutcomeIsExplained
    BY <2>2 DEF OutcomeIsExplained
  <2>7. QED
    BY <2>4, <2>5, <2>6 DEF OutcomeIsSound
<1>3. QED
  BY <1>1, <1>2

(* With a strict guard no text of a changed file reaches the context or the  *)
(* parse cache, however the user's saves fall between the lookups, the       *)
(* waves and the settling of the answers.                                    *)
THEOREM TextsAreOfDiscoveredFiles == Spec => []SourcesAreUnchanged
<1>1. ScanInv => SourcesAreUnchanged
  BY SoundAlways
<1>2. QED
  BY <1>1, Always, PTL

(* Whatever the deadline, the workers and the refill rounds left of a file,  *)
(* its row passes the store's validator when its audit is its own, a success *)
(* leaves no file unexplained, and an error names its cause.                 *)
THEOREM OutcomesAreSound == Spec => []OutcomeIsSound
<1>1. ScanInv => OutcomeIsSound
  BY SoundAlways
<1>2. QED
  BY <1>1, Always, PTL

(* A step that only adds results and only lowers reservations.               *)
ResultsKept == \A i \in Index : result[i].status # "none" => result'[i] = result[i]
PlacesKept == \A i \in Index : adm[i].act = "admit" => /\ adm'[i].act = "admit"
                                                      /\ adm'[i].reserved <= adm[i].reserved

LEMMA PlacesStay ==
    ASSUME Types, Shrinks(adm') \/ adm' = adm
    PROVE  PlacesKept
<1>1. Shrinks(adm')
  BY SameShrinks
<1>2. QED
  BY <1>1 DEF Shrinks, PlacesKept

(* A result given to files that have none.                                   *)
LEMMA ResultsStay ==
    ASSUME NEW S, \A i \in S : result[i].status = "none", \A i \in Index : i \notin S => result'[i] = result[i]
    PROVE  ResultsKept
BY DEF ResultsKept

LEMMA ResultOfOne ==
    ASSUME Types, NEW j, NEW r, result[j].status = "none", result' = [result EXCEPT ![j] = r]
    PROVE  ResultsKept
<1>1. DOMAIN result = Index
  BY DEF Types
<1>2. QED
  BY <1>1 DEF ResultsKept

LEMMA LookupParseAdds ==
    ASSUME ScanInv, LookupParse
    PROVE  ResultsKept /\ PlacesKept
<1>1. Types /\ pc = "parse" /\ queue # <<>> /\ adm' = adm /\ queue \in Seq(Index) /\ Distinct(queue)
  BY DEF ScanInv, LookupParse, Types, WaitInv
<1>2. Head(queue) \in Waiting
  BY <1>1, TailOf DEF Waiting, Queued
<1>3. result[Head(queue)].status = "none"
  BY <1>1, <1>2 DEF ScanInv, ParseInv
<1>4. result' = result \/ \E r : result' = [result EXCEPT ![Head(queue)] = r]
  BY Zenon DEF LookupParse
<1>5. ResultsKept
  <2>1. CASE result' = result
    BY <2>1 DEF ResultsKept
  <2>2. CASE \E r : result' = [result EXCEPT ![Head(queue)] = r]
    BY <1>1, <1>3, <2>2, ResultOfOne
  <2>3. QED
    BY <1>4, <2>1, <2>2
<1>6. QED
  BY <1>1, <1>5, PlacesStay

LEMMA SettleTextAdds ==
    ASSUME ScanInv, SettleText
    PROVE  ResultsKept /\ PlacesKept
<1>1. Types /\ pc = "parse" /\ wave # <<>> /\ adm' = adm /\ wave \in Seq(WaveItems(Len(Files)))
  BY DEF ScanInv, SettleText, Types
<1>2. Head(wave) = wave[1] /\ 1 \in 1 .. Len(wave)
  BY <1>1
<1>3. Head(wave).i \in Waiting
  BY <1>2 DEF Waiting, Flying
<1>4. result[Head(wave).i].status = "none"
  BY <1>1, <1>3 DEF ScanInv, ParseInv
<1>5. \E r : result' = [result EXCEPT ![Head(wave).i] = r]
  BY Zenon DEF SettleText
<1>6. ResultsKept
  BY <1>1, <1>4, <1>5, ResultOfOne
<1>7. QED
  BY <1>1, <1>6, PlacesStay

LEMMA DispatchParsesAdds ==
    ASSUME ScanInv, DispatchParses
    PROVE  ResultsKept /\ PlacesKept
<1>1. Types /\ WaitInv /\ pc = "parse" /\ adm' = adm
  BY DEF ScanInv, DispatchParses
<1>2. NextWave \in Seq(Index) /\ Elems(NextWave) \subseteq Tasked
  BY <1>1, NextWaveOf
<1>3. ToSet(NextWave) = Elems(NextWave)
  BY <1>2, ToSetIsElems
<1>4. \A i \in ToSet(NextWave) : result[i].status = "none"
  BY <1>1, <1>2, <1>3 DEF ScanInv, ParseInv, Waiting
<1>5. \A i \in Index : i \notin ToSet(NextWave) => result'[i] = result[i]
  BY DEF DispatchParses
<1>6. ResultsKept
  BY <1>4, <1>5, ResultsStay
<1>7. QED
  BY <1>1, <1>6, PlacesStay

(* A file is considered for admission while it has no place.                 *)
LEMMA PriceAdds ==
    ASSUME ScanInv, Price
    PROVE  ResultsKept /\ PlacesKept
<1>1. /\ Types /\ ClassifyInv /\ DraftInv /\ PlanInv /\ scan \in Scans /\ pc = "classify" /\ result' = result
  BY DEF ScanInv, Price, Types
<1>2. ResultsKept
  BY <1>1 DEF ResultsKept
<1>3. Considered \subseteq draft /\ Considered \subseteq Index
  BY <1>1 DEF Considered, DraftInv, Types
<1>4. \A i \in Considered : adm[i].act # "admit"
  BY <1>1, <1>3 DEF ClassifyInv
<1>5. adm' = adm \/ \E next : next = Admission(Considered, base', Reserved(adm)) /\ adm' = Amended(adm, next)
  BY Zenon DEF Price
<1>6. ASSUME NEW next, next = Admission(Considered, base', Reserved(adm)), adm' = Amended(adm, next)
      PROVE  PlacesKept
  <2>1. DOMAIN next = Considered
    BY <1>1, <1>3, <1>6, AdmissionOf
  <2>2. \A i \in Index : i \notin Considered => adm'[i] = adm[i]
    BY <1>6, <2>1, AmendedOf
  <2>3. Shrinks(adm)
    BY <1>1, SameShrinks
  <2>4. QED
    BY <1>4, <2>2, <2>3 DEF Shrinks, PlacesKept
<1>7. PlacesKept
  BY <1>1, <1>5, <1>6, PlacesStay
<1>8. QED
  BY <1>2, <1>7

LEMMA RefillAdds ==
    ASSUME ScanInv, BeginRefill \/ EndRound
    PROVE  ResultsKept /\ PlacesKept
<1>1. Types /\ result' = result /\ pc \in {"parse", "refill"}
  BY DEF ScanInv, BeginRefill, EndRound
<1>2. Shrinks(Reclaimed(Context(result)))
  BY <1>1, ReclaimedOf
<1>3. CASE BeginRefill
  <2>1. adm' = adm \/ adm' = Reclaimed(Context(result))
    BY <1>3, BeginRefillOf DEF Ends, EndRefill, Refills
  <2>2. QED
    BY <1>1, <1>2, <2>1, PlacesStay DEF ResultsKept
<1>4. CASE EndRound
  <2>1. adm' = adm \/ adm' = Reclaimed(Context(result))
    BY <1>4 DEF EndRound
  <2>2. QED
    BY <1>1, <1>2, <2>1, PlacesStay DEF ResultsKept
<1>5. QED
  BY <1>3, <1>4

LEMMA FinishAdds ==
    ASSUME ScanInv, Finish
    PROVE  ResultsKept /\ PlacesKept
<1>1. Types /\ adm' = adm
  BY DEF ScanInv, Finish
<1>2. \A i \in Index : result'[i] = FinalResult(i)
  BY FinalSources
<1>3. ResultsKept
  BY <1>2 DEF FinalResult, ResultsKept
<1>4. QED
  BY <1>1, <1>3, PlacesStay

LEMMA StepAdds ==
    ASSUME ScanInv, [Next]_vars
    PROVE  ResultsKept /\ PlacesKept
<1>1. ASSUME UNCHANGED <<adm, result>> PROVE ResultsKept /\ PlacesKept
  BY <1>1, PlacesStay DEF ScanInv, ResultsKept
<1>2. CASE LookupClassification \/ LookupFails \/ DispatchClassifications \/ SettleVerdict
  BY <1>1, <1>2 DEF LookupClassification, LookupFails, DispatchClassifications, SettleVerdict
<1>3. CASE Answer \/ ChangeSource \/ PassDeadline \/ Done \/ UNCHANGED vars
  BY <1>1, <1>3 DEF Answer, ReturnVerdict, ReturnText, ChangeSource, PassDeadline, Done, vars
<1>4. CASE Price \/ LookupParse \/ DispatchParses \/ SettleText \/ BeginRefill \/ EndRound \/ Finish
  BY <1>4, PriceAdds, LookupParseAdds, DispatchParsesAdds, SettleTextAdds, RefillAdds, FinishAdds
<1>5. QED
  BY <1>2, <1>3, <1>4 DEF Next, Step

(* No step of a scan, in any round, drops or replaces what a file was parsed *)
(* to, takes back its place in the context or raises its reservation.        *)
THEOREM RefillsOnlyAdd == Spec => RefillKeepsWork
<1>1. ASSUME ScanInv, [Next]_vars
      PROVE  [\A i \in Index :
                 /\ result[i].status # "none" => result'[i] = result[i]
                 /\ adm[i].act = "admit" => /\ adm'[i].act = "admit"
                                            /\ adm'[i].reserved <= adm[i].reserved]_vars
  BY <1>1, StepAdds DEF ResultsKept, PlacesKept
<1>2. QED
  BY <1>1, Always, PTL DEF Spec, RefillKeepsWork

-----------------------------------------------------------------------------
(* Counting what is taken step by step.                                      *)

LEMMA CountedUnion ==
    ASSUME NEW n \in Nat, NEW X, NEW t, t[0] \in Nat,
           \A k \in 1 .. n : t[k - 1] \in Nat => /\ IsFiniteSet(X[k]) /\ t[k] \in Nat
                                               /\ Cardinality(X[k]) + t[k] <= t[k - 1]
    PROVE  /\ IsFiniteSet(UNION {X[k] : k \in 1 .. n})
           /\ Cardinality(UNION {X[k] : k \in 1 .. n}) <= t[0]
<1>. DEFINE U(m) == UNION {X[k] : k \in 1 .. m}
            Good == {m \in 0 .. n : t[m] \in Nat /\ IsFiniteSet(U(m)) /\ Cardinality(U(m)) + t[m] <= t[0]}
<1>1. 0 \in Good
  <2>1. U(0) = {}
    OBVIOUS
  <2>2. IsFiniteSet({}) /\ Cardinality({}) = 0
    BY FS_EmptySet
  <2>3. QED
    BY <2>1, <2>2
<1>2. ASSUME NEW m \in 0 .. n, m \in Good, m < n PROVE m + 1 \in Good
  <2>1. m + 1 \in 1 .. n /\ (m + 1) - 1 = m /\ m + 1 \in 0 .. n
    BY <1>2
  <2>2. t[m] \in Nat /\ IsFiniteSet(U(m)) /\ Cardinality(U(m)) + t[m] <= t[0]
    BY <1>2
  <2>3. IsFiniteSet(X[m + 1]) /\ t[m + 1] \in Nat /\ Cardinality(X[m + 1]) + t[m + 1] <= t[m]
    BY <2>1, <2>2
  <2>4. U(m + 1) = U(m) \cup X[m + 1]
    <3>1. \A k : k \in 1 .. m + 1 <=> k \in 1 .. m \/ k = m + 1
      BY <1>2
    <3>2. QED
      BY <3>1
  <2>. HIDE DEF U
  <2>5. /\ IsFiniteSet(U(m) \cup X[m + 1])
        /\ Cardinality(U(m) \cup X[m + 1]) <= Cardinality(U(m)) + Cardinality(X[m + 1])
    <3>1. IsFiniteSet(U(m) \cap X[m + 1])
      BY <2>2, FS_Intersection
    <3>2. Cardinality(U(m) \cup X[m + 1])
            = Cardinality(U(m)) + Cardinality(X[m + 1]) - Cardinality(U(m) \cap X[m + 1])
      BY <2>2, <2>3, FS_Union
    <3>3. /\ Cardinality(U(m)) \in Nat /\ Cardinality(X[m + 1]) \in Nat
          /\ Cardinality(U(m) \cap X[m + 1]) \in Nat
      BY <2>2, <2>3, <3>1, FS_CardinalityType
    <3>4. QED
      BY <2>2, <2>3, <3>2, <3>3, FS_Union
  <2>6. Cardinality(U(m)) \in Nat /\ Cardinality(X[m + 1]) \in Nat /\ Cardinality(U(m + 1)) \in Nat
    BY <2>2, <2>3, <2>4, <2>5, FS_CardinalityType
  <2>7. Cardinality(U(m + 1)) + t[m + 1] <= t[0]
    <3>1. PICK a \in Nat, b \in Nat, c \in Nat :
              a = Cardinality(U(m)) /\ b = Cardinality(X[m + 1]) /\ c = Cardinality(U(m + 1))
      BY <2>6
    <3>2. c <= a + b
      BY <2>4, <2>5, <3>1
    <3>3. QED
      BY <2>2, <2>3, <3>1, <3>2
  <2>8. QED
    BY <2>1, <2>3, <2>4, <2>5, <2>7
<1>. HIDE DEF Good
<1>3. n \in Good
  <2>1. \A k \in 0 .. n : k \in Good
    BY <1>1, <1>2, UpTo
  <2>2. QED
    BY <2>1
<1>4. t[n] \in Nat /\ IsFiniteSet(U(n)) /\ Cardinality(U(n)) + t[n] <= t[0]
  BY <1>3 DEF Good
<1>. HIDE DEF U
<1>5. Cardinality(U(n)) \in Nat
  BY <1>4, FS_CardinalityType
<1>6. Cardinality(U(n)) <= t[0]
  BY <1>4, <1>5
<1>7. QED
  BY <1>4, <1>6 DEF U

LEMMA OneFinite ==
    ASSUME NEW x, NEW P
    PROVE  /\ IsFiniteSet(IF P THEN {x} ELSE {})
           /\ Cardinality(IF P THEN {x} ELSE {}) = IF P THEN 1 ELSE 0
BY FS_EmptySet, FS_Singleton

LEMMA PagesFinite ==
    ASSUME NEW x, NEW m \in Nat
    PROVE  IsFiniteSet({x} \X (1 .. m)) /\ Cardinality({x} \X (1 .. m)) = m
<1>1. IsFiniteSet({x}) /\ Cardinality({x}) = 1
  BY FS_Singleton
<1>2. IsFiniteSet(1 .. m) /\ Cardinality(1 .. m) = m
  BY FS_Interval, SMTT(40)
<1>3. Cardinality({x} \X (1 .. m)) = 1 * m
  BY <1>1, <1>2, FS_Product, SMTT(40)
<1>4. QED
  BY <1>1, <1>2, <1>3, FS_Product, SMTT(40)

(* A plan hands out no more slots and pages than it was given.               *)
SlotsOf(ids, p, n) == {ids[k] : k \in {j \in 1 .. n : p[j].act = "admit"}}
PagesOf(ids, p, n) == UNION {{ids[k]} \X (1 .. p[k].pages) : k \in 1 .. n}

LEMMA PlanWithin ==
    ASSUME NEW fs \in Seq(Source), NEW pages \in Nat, NEW slots \in Nat, NEW partial \in BOOLEAN, NEW ids, NEW p,
           p = ClassificationPlan(fs, pages, slots, partial)
    PROVE  /\ IsFiniteSet(SlotsOf(ids, p, Len(fs))) /\ Cardinality(SlotsOf(ids, p, Len(fs))) <= slots
           /\ IsFiniteSet(PagesOf(ids, p, Len(fs))) /\ Cardinality(PagesOf(ids, p, Len(fs))) <= pages
<1>1. PICK n : n = Len(fs) /\ n \in Nat
  OBVIOUS
<1>2. PICK left \in [0 .. n -> Lefts] :
          /\ left[0].slots = slots /\ left[0].pages = pages
          /\ \A k \in 1 .. n : Spends(left[k - 1], left[k], p[k])
  BY <1>1, ClassificationPlanOf
<1>3. p \in Seq(Plans) /\ Len(p) = n
  BY <1>1, ClassificationPlanOf
<1>4. \A k \in 1 .. n : p[k].pages \in Nat
  <2>1. \A k \in 1 .. n : p[k] \in Plans
    BY <1>1, <1>3
  <2>2. \A q \in Plans : q.pages \in Nat
    BY DEF Plans
  <2>3. QED
    BY <2>1, <2>2
<1>5. \A k \in 0 .. n : left[k].slots \in Nat /\ left[k].pages \in Nat
  BY <1>2 DEF Lefts
<1>6. IsFiniteSet(SlotsOf(ids, p, n)) /\ Cardinality(SlotsOf(ids, p, n)) <= slots
  <2>1. PICK X : X = [k \in 1 .. n |-> IF p[k].act = "admit" THEN {ids[k]} ELSE {}]
    OBVIOUS
  <2>2. PICK t : t = [k \in 0 .. n |-> left[k].slots]
    OBVIOUS
  <2>3. t[0] = slots /\ t[0] \in Nat
    BY <1>1, <1>2, <2>2
  <2>4. ASSUME NEW k \in 1 .. n
        PROVE  /\ IsFiniteSet(X[k]) /\ t[k] \in Nat
               /\ Cardinality(X[k]) + t[k] <= t[k - 1]
    <3>1. k \in 0 .. n /\ k - 1 \in 0 .. n
      BY <1>1
    <3>2. t[k] = left[k].slots /\ t[k - 1] = left[k - 1].slots /\ t[k] \in Nat /\ t[k - 1] \in Nat
      BY <1>5, <2>2, <3>1
    <3>3. t[k] + (IF p[k].act = "admit" THEN 1 ELSE 0) = t[k - 1]
      BY <1>2, <3>2 DEF Spends
    <3>4. IsFiniteSet(X[k]) /\ Cardinality(X[k]) = IF p[k].act = "admit" THEN 1 ELSE 0
      BY <2>1, OneFinite
    <3>5. QED
      BY <3>2, <3>3, <3>4
  <2>5. IsFiniteSet(UNION {X[k] : k \in 1 .. n}) /\ Cardinality(UNION {X[k] : k \in 1 .. n}) <= t[0]
    BY <1>1, <2>3, <2>4, CountedUnion
  <2>6. UNION {X[k] : k \in 1 .. n} = SlotsOf(ids, p, n)
    <3>1. \A k \in 1 .. n : X[k] = IF p[k].act = "admit" THEN {ids[k]} ELSE {}
      BY <2>1
    <3>2. QED
      BY <3>1, ZenonT(60) DEF SlotsOf
  <2>7. QED
    BY <2>3, <2>5, <2>6
<1>7. IsFiniteSet(PagesOf(ids, p, n)) /\ Cardinality(PagesOf(ids, p, n)) <= pages
  <2>1. PICK X : X = [k \in 1 .. n |-> {ids[k]} \X (1 .. p[k].pages)]
    OBVIOUS
  <2>2. PICK t : t = [k \in 0 .. n |-> left[k].pages]
    OBVIOUS
  <2>3. t[0] = pages /\ t[0] \in Nat
    BY <1>1, <1>2, <2>2
  <2>4. ASSUME NEW k \in 1 .. n
        PROVE  /\ IsFiniteSet(X[k]) /\ t[k] \in Nat
               /\ Cardinality(X[k]) + t[k] <= t[k - 1]
    <3>1. k \in 0 .. n /\ k - 1 \in 0 .. n
      BY <1>1
    <3>2. t[k] = left[k].pages /\ t[k - 1] = left[k - 1].pages /\ t[k] \in Nat /\ t[k - 1] \in Nat
      BY <1>5, <2>2, <3>1
    <3>3. t[k] + p[k].pages = t[k - 1]
      BY <1>2, <3>2 DEF Spends
    <3>4. IsFiniteSet(X[k]) /\ Cardinality(X[k]) = p[k].pages
      BY <1>4, <2>1, PagesFinite
    <3>5. QED
      BY <1>4, <3>2, <3>3, <3>4
  <2>5. IsFiniteSet(UNION {X[k] : k \in 1 .. n}) /\ Cardinality(UNION {X[k] : k \in 1 .. n}) <= t[0]
    BY <1>1, <2>3, <2>4, CountedUnion
  <2>6. {X[k] : k \in 1 .. n} = {{ids[k]} \X (1 .. p[k].pages) : k \in 1 .. n}
    BY <2>1
  <2>7. QED
    BY <2>3, <2>5, <2>6 DEF PagesOf
<1>8. QED
  BY <1>1, <1>6, <1>7

(* The files of a refill round get what is left of the quotas.               *)
LetIn(S, q) == {i \in S : q[i].act = "admit"}
LetPages(S, q) == UNION {{i} \X (1 .. q[i].pages) : i \in S}

LEMMA RefillWithin ==
    ASSUME Types, NEW S, S \subseteq Index, NEW q, q = RefillPlan(S)
    PROVE  /\ IsFiniteSet(LetIn(S, q)) /\ Cardinality(LetIn(S, q)) <= Monus(MaxCandidates, CandidatesUsed)
           /\ IsFiniteSet(LetPages(S, q)) /\ Cardinality(LetPages(S, q)) <= Monus(TotalPages, PagesHeld)
<1>1. PICK seq : seq = InOrder(S)
  OBVIOUS
<1>0. scan \in Scans
  BY DEF Types
<1>2. seq \in Seq(Index) /\ Elems(seq) = S /\ DOMAIN seq = 1 .. Len(seq) /\ Distinct(seq)
  BY <1>0, <1>1, InOrderOf
<1>3. PICK fs : fs = [k \in DOMAIN seq |-> Files[seq[k]]]
  OBVIOUS
<1>4. PICK pages, slots : pages = Monus(TotalPages, PagesHeld) /\ slots = Monus(MaxCandidates, CandidatesUsed)
  OBVIOUS
<1>16. PICK part \in BOOLEAN : part = TRUE
  OBVIOUS
<1>5. PICK p : p = ClassificationPlan(fs, pages, slots, part)
  OBVIOUS
<1>6. q = [i \in S |-> p[Rank(seq, i)]]
  BY <1>1, <1>3, <1>4, <1>5, <1>16 DEF RefillPlan
<1>7. fs \in Seq(Source) /\ Len(fs) = Len(seq)
  <2>1. \A k \in 1 .. Len(seq) : seq[k] \in Index
    BY <1>2
  <2>2. \A k \in 1 .. Len(seq) : Files[seq[k]] \in Source
    BY <1>0, <2>1, FilesTyped
  <2>3. QED
    BY <1>2, <1>3, <2>2
<1>8. pages \in Nat /\ slots \in Nat
  BY <1>4, QuotasCounted, BudgetAssumption DEF Monus
<1>9. PICK n : n = Len(seq) /\ n = Len(fs)
  BY <1>7
<1>10. /\ IsFiniteSet(SlotsOf(seq, p, n)) /\ Cardinality(SlotsOf(seq, p, n)) <= slots
       /\ IsFiniteSet(PagesOf(seq, p, n)) /\ Cardinality(PagesOf(seq, p, n)) <= pages
  BY <1>5, <1>7, <1>8, <1>9, <1>16, PlanWithin
<1>11. \A k \in 1 .. n : seq[k] \in S /\ q[seq[k]] = p[k]
  <2>1. ASSUME NEW k \in 1 .. n PROVE seq[k] \in S /\ q[seq[k]] = p[k]
    <3>1. seq[k] \in S
      BY <1>2, <1>9 DEF Elems
    <3>2. PICK l : l = Rank(seq, seq[k])
      OBVIOUS
    <3>3. l \in 1 .. n /\ seq[l] = seq[k]
      BY <1>2, <1>9, <3>1, <3>2, RankOf
    <3>4. l = k
      BY <1>2, <1>9, <3>3 DEF Distinct
    <3>5. QED
      BY <1>6, <3>1, <3>2, <3>4
  <2>2. QED
    BY <2>1
<1>12. \A i \in S : \E k \in 1 .. n : seq[k] = i
  BY <1>2, <1>9 DEF Elems
<1>13. SlotsOf(seq, p, n) = LetIn(S, q)
  BY <1>11, <1>12 DEF SlotsOf, LetIn
<1>14. {{seq[k]} \X (1 .. p[k].pages) : k \in 1 .. n} = {{i} \X (1 .. q[i].pages) : i \in S}
  <2>1. \A k \in 1 .. n : {seq[k]} \X (1 .. p[k].pages) = {seq[k]} \X (1 .. q[seq[k]].pages)
    BY <1>11
  <2>2. PICK box : box = [i \in S |-> {i} \X (1 .. q[i].pages)]
    OBVIOUS
  <2>3. \A k \in 1 .. n : {seq[k]} \X (1 .. p[k].pages) = box[seq[k]]
    BY <1>11, <2>1, <2>2
  <2>4. {{seq[k]} \X (1 .. p[k].pages) : k \in 1 .. n} = {box[seq[k]] : k \in 1 .. n}
    BY <2>3
  <2>5. {box[seq[k]] : k \in 1 .. n} = {box[i] : i \in S}
    BY <1>11, <1>12
  <2>6. {box[i] : i \in S} = {{i} \X (1 .. q[i].pages) : i \in S}
    BY <2>2
  <2>7. QED
    BY <2>4, <2>5, <2>6
<1>15. PagesOf(seq, p, n) = LetPages(S, q)
  BY <1>14 DEF PagesOf, LetPages
<1>17. QED
  BY <1>4, <1>10, <1>13, <1>15

(* What an admission takes, file by file.                                    *)
AdmissionTrace(S, b, h, seq, run, left) ==
    /\ seq \in Seq(Index) /\ Distinct(seq) /\ Elems(seq) = S
    /\ run[0] = h /\ left[0] = Monus(MaxExtractions, ExtractionsUsed)
    /\ \A k \in 1 .. Len(seq) :
          Charged(Files[seq[k]], plan[seq[k]], cls[seq[k]].s, b, scan.global, run[k - 1], left[k - 1],
                  Admission(S, b, h)[seq[k]], run[k], left[k])

LEMMA AdmissionCharges ==
    ASSUME scan \in Scans, PlanInv, NEW S, S \subseteq Index, NEW b, NEW h
    PROVE  \E seq, run, left : AdmissionTrace(S, b, h, seq, run, left)
<1>1. PICK seq : seq = InOrder(S)
  OBVIOUS
<1>2. seq \in Seq(Index) /\ Elems(seq) = S /\ DOMAIN seq = 1 .. Len(seq) /\ Distinct(seq)
  BY <1>1, InOrderOf
<1>3. PICK fs, ps, cs : /\ fs = [k \in DOMAIN seq |-> Files[seq[k]]]
                        /\ ps = [k \in DOMAIN seq |-> plan[seq[k]]]
                        /\ cs = [k \in DOMAIN seq |-> cls[seq[k]].s]
  OBVIOUS
<1>4. PICK s, g : s = Monus(MaxExtractions, ExtractionsUsed) /\ g = scan.global
  OBVIOUS
<1>5. PICK d : d = ContentAdmission(fs, ps, cs, b, h, s, g)
  OBVIOUS
<1>6. PICK new : new = Admission(S, b, h) /\ new = [i \in S |-> d[Rank(seq, i)]]
  BY <1>1, <1>3, <1>4, <1>5 DEF Admission
<1>7. fs \in Seq(Source) /\ Len(fs) = Len(seq)
  <2>1. \A k \in 1 .. Len(seq) : seq[k] \in Index
    BY <1>2
  <2>2. \A k \in 1 .. Len(seq) : Files[seq[k]] \in Source
    BY <2>1, FilesTyped
  <2>3. QED
    BY <1>2, <1>3, <2>2
<1>8. \A k \in 1 .. Len(fs) : PlanOf(fs[k], ps[k])
  BY <1>2, <1>3, <1>7 DEF PlanInv
<1>9. PICK run, left : Charges(run, left, Len(fs), fs, ps, cs, b, h, s, g, d)
  BY <1>5, <1>7, <1>8, ContentAdmissionOf
<1>10. ASSUME NEW k \in 1 .. Len(seq)
       PROVE  Charged(Files[seq[k]], plan[seq[k]], cls[seq[k]].s, b, g, run[k - 1], left[k - 1],
                      new[seq[k]], run[k], left[k])
  <2>1. seq[k] \in S
    BY <1>2 DEF Elems
  <2>2. PICK l : l = Rank(seq, seq[k])
    OBVIOUS
  <2>3. l \in 1 .. Len(seq) /\ seq[l] = seq[k]
    BY <1>2, <2>1, <2>2, RankOf
  <2>4. l = k
    BY <1>2, <2>3 DEF Distinct
  <2>5. new[seq[k]] = d[k] /\ fs[k] = Files[seq[k]] /\ ps[k] = plan[seq[k]] /\ cs[k] = cls[seq[k]].s
    BY <1>2, <1>3, <1>6, <2>1, <2>2, <2>4
  <2>6. Charged(fs[k], ps[k], cs[k], b, g, run[k - 1], left[k - 1], d[k], run[k], left[k])
    BY <1>7, <1>9 DEF Charges
  <2>7. QED
    BY <2>5, <2>6
<1>11. run[0] = h /\ left[0] = s
  BY <1>9 DEF Charges
<1>12. AdmissionTrace(S, b, h, seq, run, left)
  BY <1>2, <1>4, <1>6, <1>10, <1>11 DEF AdmissionTrace
<1>13. QED
  BY <1>12

(* Admitted PDFs with text are no more than the extractions that are left.   *)
LEMMA ExtractionsWithin ==
    ASSUME Types, PlanInv, NEW S, S \subseteq Index, NEW b, NEW h, NEW new, new = Admission(S, b, h)
    PROVE  /\ IsFiniteSet({i \in S : new[i].act = "admit" /\ Extracts(plan[i], cls[i].s)})
           /\ Cardinality({i \in S : new[i].act = "admit" /\ Extracts(plan[i], cls[i].s)})
                <= Monus(MaxExtractions, ExtractionsUsed)
<1>0. scan \in Scans
  BY DEF Types
<1>1. PICK seq, run, left : AdmissionTrace(S, b, h, seq, run, left)
  BY <1>0, AdmissionCharges
<1>2. PICK n : n = Len(seq) /\ n \in Nat
  BY <1>1 DEF AdmissionTrace
<1>9. PICK N : N = {i \in S : new[i].act = "admit" /\ Extracts(plan[i], cls[i].s)}
  OBVIOUS
<1>3. PICK X : X = [k \in 1 .. n |-> IF seq[k] \in N THEN {seq[k]} ELSE {}]
  OBVIOUS
<1>10. \A i : i \in S <=> \E k \in 1 .. n : i = seq[k]
  BY <1>1, <1>2 DEF AdmissionTrace, Elems
<1>4. left[0] = Monus(MaxExtractions, ExtractionsUsed) /\ left[0] \in Nat
  BY <1>1, QuotasCounted, BudgetAssumption DEF AdmissionTrace, Monus
<1>5. ASSUME NEW k \in 1 .. n, left[k - 1] \in Nat
      PROVE  IsFiniteSet(X[k]) /\ left[k] \in Nat /\ Cardinality(X[k]) + left[k] <= left[k - 1]
  <2>1. Charged(Files[seq[k]], plan[seq[k]], cls[seq[k]].s, b, scan.global, run[k - 1], left[k - 1],
                new[seq[k]], run[k], left[k])
    BY <1>1, <1>2 DEF AdmissionTrace
  <2>2. seq[k] \in N <=> (new[seq[k]].act = "admit" /\ Extracts(plan[seq[k]], cls[seq[k]].s))
    BY <1>9, <1>10
  <2>3. /\ IsFiniteSet(X[k]) /\ (seq[k] \in N => Cardinality(X[k]) = 1)
        /\ (seq[k] \notin N => Cardinality(X[k]) = 0)
    BY <1>3, OneFinite
  <2>4. CASE seq[k] \in N
    <3>1. left[k - 1] # 0 /\ left[k] = left[k - 1] - 1
      BY <2>1, <2>2, <2>4 DEF Charged
    <3>2. QED
      BY <1>5, <2>3, <2>4, <3>1
  <2>5. CASE seq[k] \notin N
    <3>1. left[k] = left[k - 1] \/ left[k] = left[k - 1] - 0
      BY <2>1, <2>2, <2>5 DEF Charged
    <3>2. QED
      BY <1>5, <2>3, <2>5, <3>1
  <2>6. QED
    BY <2>4, <2>5
<1>6. IsFiniteSet(UNION {X[k] : k \in 1 .. n}) /\ Cardinality(UNION {X[k] : k \in 1 .. n}) <= left[0]
  BY <1>2, <1>4, <1>5, CountedUnion
<1>7. UNION {X[k] : k \in 1 .. n} = N
  <2>1. \A k \in 1 .. n : X[k] = IF seq[k] \in N THEN {seq[k]} ELSE {}
    BY <1>3
  <2>2. N \subseteq S
    BY <1>9
  <2>3. ASSUME NEW i \in N PROVE i \in UNION {X[k] : k \in 1 .. n}
    <3>1. PICK k \in 1 .. n : i = seq[k]
      BY <1>10, <2>2
    <3>2. i \in X[k]
      BY <2>1, <3>1
    <3>3. QED
      BY <3>2
  <2>4. ASSUME NEW k \in 1 .. n, NEW i \in X[k] PROVE i \in N
    BY <2>1
  <2>5. QED
    BY <2>3, <2>4
<1>8. QED
  BY <1>4, <1>6, <1>7, <1>9

-----------------------------------------------------------------------------
(* The quotas, over all rounds.                                              *)

(* The files that a plan lets in, of this or of an earlier round.            *)
Candidates == {i \in Index : plan[i].act = "admit"}

(* A file is worked on only when its plan let it in, and a PDF is extracted  *)
(* only when it is counted as an extraction.                                 *)
LinkInv ==
    \A i \in Index :
        /\ i \in Flying \/ result[i].status # "none" \/ cls[i].s \notin Verdictless => plan[i].act = "admit"
        /\ adm[i].why = "pdf" /\ adm[i].act = "admit" /\ (result[i].attempts > 0 \/ (pc = "parse" /\ i \in Flying))
              => cls[i].s = "text" /\ ~(result[i].status = "success" /\ result[i].hit)

QuotaInv ==
    /\ Cardinality(Candidates) <= MaxCandidates /\ PagesHeld <= TotalPages /\ ExtractionsUsed <= MaxExtractions
    /\ LinkInv

(* An admitted file has an admitted plan, and a text when it is a PDF that   *)
(* the deadline did not stop.                                                *)
LEMMA PlaceOf ==
    ASSUME ScanInv, pc # "done", NEW i \in Index, adm[i].act = "admit"
    PROVE  /\ plan[i].act = "admit"
           /\ adm[i].why = "pdf" => cls[i].s \in Answered
<1>1. Settled(i)
  <2>1. pc = "classify" => i \notin draft
    BY DEF ScanInv, ClassifyInv
  <2>2. QED
    BY <2>1 DEF ScanInv, SettledInv, Types
<1>2. Decided(plan[i], cls[i].s, adm[i]) /\ PlanOf(Files[i], plan[i])
  BY <1>1 DEF Settled, ScanInv, PlanInv
<1>3. plan[i].act = "admit"
  BY <1>2 DEF Decided
<1>4. ASSUME adm[i].why = "pdf" PROVE cls[i].s \in Answered
  <2>1. adm[i].why = plan[i].why \/ cls[i].s \in Answered
    BY <1>2, <1>3 DEF Decided
  <2>2. CASE adm[i].why = plan[i].why
    <3>1. Verdict(Files[i]) = "pdf" /\ plan[i].classify = "classify"
      BY <1>2, <1>3, <1>4, <2>2 DEF PlanOf
    <3>2. QED
      BY <1>2, <1>3, <3>1 DEF Decided
  <2>3. QED
    BY <2>1, <2>2
<1>5. QED
  BY <1>3, <1>4

LEMMA Linked ==
    ASSUME ScanInv, pc # "done"
    PROVE  LinkInv
<1>1. Types /\ WaitInv /\ ResultInv /\ PlanInv
  BY DEF ScanInv
<1>2. ASSUME NEW i \in Index, i \in Flying PROVE plan[i].act = "admit"
  <2>1. CASE pc = "classify"
    BY <1>1, <1>2, <2>1 DEF ScanInv, ClassifyInv, PlanInv, PlanOf
  <2>2. CASE pc = "parse"
    BY <1>2, <2>2, PlaceOf DEF ScanInv, ParseInv, Waiting
  <2>3. CASE pc \in {"refill", "finish"}
    BY <1>1, <1>2, <2>3 DEF WaitInv, Flying
  <2>4. QED
    BY <1>1, <2>1, <2>2, <2>3 DEF Types
<1>3. ASSUME NEW i \in Index, result[i].status # "none" PROVE plan[i].act = "admit"
  BY <1>1, <1>3, PlaceOf DEF ResultInv
<1>4. ASSUME NEW i \in Index, cls[i].s \notin Verdictless PROVE plan[i].act = "admit"
  BY <1>4 DEF ScanInv, AuditInv, Audited, PlanInv, PlanOf
<1>5. ASSUME NEW i \in Index, adm[i].why = "pdf", adm[i].act = "admit",
             result[i].attempts > 0 \/ (pc = "parse" /\ i \in Flying)
      PROVE  cls[i].s = "text" /\ ~(result[i].status = "success" /\ result[i].hit)
  <2>1. ResultOf(result[i]) /\ cls[i].s \in Answered
    BY <1>1, <1>5, PlaceOf DEF ResultInv
  <2>2. CASE result[i].attempts > 0
    <3>1. result[i].status # "none"
      BY <2>1, <2>2 DEF ResultOf, NoResult
    <3>2. ~NoText(i)
      BY <1>1, <3>1 DEF ResultInv
    <3>3. ~(result[i].status = "success" /\ result[i].hit)
      BY <2>1, <2>2 DEF ResultOf
    <3>4. QED
      BY <1>5, <2>1, <3>2, <3>3 DEF NoText, Answered
  <2>3. CASE pc = "parse" /\ i \in Flying
    <3>1. result[i].status = "none" /\ ~NoText(i)
      BY <2>3 DEF ScanInv, ParseInv, Waiting
    <3>2. QED
      BY <1>5, <2>1, <3>1 DEF NoText, Answered
  <2>4. QED
    BY <1>5, <2>2, <2>3
<1>6. QED
  BY <1>2, <1>3, <1>4, <1>5 DEF LinkInv

(* What has begun was let in, and the invariant bounds what the scan opens.  *)
LEMMA QuotasBound ==
    ASSUME ScanInv, QuotaInv
    PROVE  QuotasHold
<1>1. Types /\ wave \in Seq(WaveItems(Len(Files)))
  BY DEF ScanInv, Types
<1>2. InFlight = Flying
  BY <1>1 DEF InFlight, Flying
<1>3. IsFiniteSet(Index) /\ IsFiniteSet(Extracting) /\ ExtractionsUsed = Cardinality(Extracting)
  BY <1>1, QuotasCounted
<1>4. IsFiniteSet(Candidates)
  <2>1. Candidates \subseteq Index
    BY DEF Candidates
  <2>2. QED
    BY <1>3, <2>1, FS_Subset
<1>5. PICK A : A = {i \in Index : \/ i \in InFlight \/ result[i].status # "none"
                                  \/ cls[i].s \notin {"none", "by_budget"}}
  OBVIOUS
<1>6. A \subseteq Candidates
  BY <1>2, <1>5 DEF QuotaInv, LinkInv, Candidates, Verdictless
<1>7. Cardinality(A) <= MaxCandidates
  <2>1. Cardinality(A) <= Cardinality(Candidates) /\ IsFiniteSet(A)
    BY <1>4, <1>6, FS_Subset
  <2>2. Cardinality(A) \in Nat /\ Cardinality(Candidates) \in Nat
    BY <1>4, <2>1, FS_CardinalityType
  <2>3. QED
    BY <2>1, <2>2, BudgetAssumption DEF QuotaInv
<1>8. PICK B : B = {i \in Index : /\ adm[i].why = "pdf" /\ adm[i].act = "admit"
                                  /\ (result[i].attempts > 0 \/ (pc = "parse" /\ i \in InFlight))}
  OBVIOUS
<1>9. B \subseteq Extracting
  BY <1>2, <1>8 DEF QuotaInv, LinkInv, Extracting
<1>10. Cardinality(B) <= MaxExtractions
  <2>1. Cardinality(B) <= Cardinality(Extracting) /\ IsFiniteSet(B)
    BY <1>3, <1>9, FS_Subset
  <2>2. Cardinality(B) \in Nat /\ Cardinality(Extracting) \in Nat
    BY <1>3, <2>1, FS_CardinalityType
  <2>3. QED
    BY <1>3, <2>1, <2>2, BudgetAssumption DEF QuotaInv
<1>11. QED
  BY <1>5, <1>7, <1>8, <1>10 DEF QuotaInv, QuotasHold

(* A larger set, counted against what is left.                               *)
LEMMA CountedBound ==
    ASSUME NEW A, NEW B, NEW C, IsFiniteSet(A), IsFiniteSet(B), C \subseteq A \cup B,
           NEW max \in Nat, Cardinality(A) <= max, Cardinality(B) <= Monus(max, Cardinality(A))
    PROVE  IsFiniteSet(C) /\ Cardinality(C) <= max
<1>1. IsFiniteSet(A \cup B) /\ Cardinality(A \cup B) = Cardinality(A) + Cardinality(B) - Cardinality(A \cap B)
  BY FS_Union
<1>2. IsFiniteSet(A \cap B)
  BY FS_Intersection
<1>3. IsFiniteSet(C) /\ Cardinality(C) <= Cardinality(A \cup B)
  BY <1>1, FS_Subset
<1>4. PICK a, b, ab, u, c : /\ a = Cardinality(A) /\ b = Cardinality(B) /\ ab = Cardinality(A \cap B)
                            /\ u = Cardinality(A \cup B) /\ c = Cardinality(C)
  OBVIOUS
<1>5. a \in Nat /\ b \in Nat /\ ab \in Nat /\ u \in Nat /\ c \in Nat
  BY <1>1, <1>2, <1>3, <1>4, FS_CardinalityType
<1>6. u = a + b - ab /\ c <= u /\ a <= max /\ b <= Monus(max, a)
  BY <1>1, <1>3, <1>4
<1>7. c <= max
  BY <1>5, <1>6 DEF Monus
<1>8. QED
  BY <1>3, <1>4, <1>7

LEMMA SubsetBound ==
    ASSUME NEW A, NEW C, IsFiniteSet(A), C \subseteq A, NEW max \in Nat, Cardinality(A) <= max
    PROVE  Cardinality(C) <= max
<1>1. Cardinality(C) <= Cardinality(A) /\ IsFiniteSet(C)
  BY FS_Subset
<1>2. Cardinality(C) \in Nat /\ Cardinality(A) \in Nat
  BY <1>1, FS_CardinalityType
<1>3. QED
  BY <1>1, <1>2

(* The same of the next state.                                               *)
LEMMA HeldTyped == Types => \A i \in Index : Held(i) \in Int
BY HeldInt
LEMMA LinkedWhileRunning == ScanInv /\ pc # "done" => LinkInv
BY Linked
LEMMA NextHeld == Types' => \A i \in Index' : Held(i)' \in Int
<1>1. (Types => \A i \in Index : Held(i) \in Int)'
  BY HeldTyped, PTL
<1>2. QED
  BY <1>1
LEMMA NextLinked == ScanInv' /\ pc' # "done" => LinkInv'
<1>1. (ScanInv /\ pc # "done" => LinkInv)'
  BY LinkedWhileRunning, PTL
<1>2. QED
  BY <1>1

(* A step that lets no file in and only lowers what is held.                 *)
LEMMA QuotaStep ==
    ASSUME ScanInv, QuotaInv, ScanInv', UNCHANGED <<scan, plan>>,
           HeldPages' \subseteq HeldPages, Extracting' \subseteq Extracting, LinkInv'
    PROVE  QuotaInv'
<1>1. Types /\ Types'
  BY DEF ScanInv
<1>2. Candidates' = Candidates
  BY SameFiles DEF Candidates
<1>3. /\ IsFiniteSet(HeldPages) /\ PagesHeld = Cardinality(HeldPages)
      /\ IsFiniteSet(Extracting) /\ ExtractionsUsed = Cardinality(Extracting)
  BY <1>1, QuotasCounted
<1>4. PagesHeld' = Cardinality(HeldPages') /\ ExtractionsUsed' = Cardinality(Extracting')
  BY DEF PagesHeld, HeldPages, Paged, ExtractionsUsed, Extracting
<1>5. TotalPages \in Nat /\ MaxExtractions \in Nat
  BY BudgetAssumption
<1>6. PICK A, B, C, D : A = HeldPages /\ B = HeldPages' /\ C = Extracting /\ D = Extracting'
  OBVIOUS
<1>7. Cardinality(B) <= TotalPages
  BY <1>3, <1>5, <1>6, SubsetBound DEF QuotaInv
<1>8. Cardinality(D) <= MaxExtractions
  BY <1>3, <1>5, <1>6, SubsetBound DEF QuotaInv
<1>9. QED
  BY <1>2, <1>4, <1>6, <1>7, <1>8 DEF QuotaInv

LEMMA PagesShrink ==
    ASSUME Types, Types', UNCHANGED <<scan, plan>>, \A i \in Index : Held(i)' <= Held(i)
    PROVE  HeldPages' \subseteq HeldPages
<1>1. Index' = Index /\ Paged' = Paged
  BY SameFiles DEF Paged
<1>2. ASSUME NEW i \in Paged PROVE {i} \X (1 .. Held(i)') \subseteq {i} \X (1 .. Held(i))
  <2>1. i \in Index
    BY DEF Paged
  <2>2. Held(i) \in Int /\ Held(i)' \in Int /\ Held(i)' <= Held(i)
    BY <1>1, <2>1, HeldInt, NextHeld
  <2>3. PICK a, b : a = Held(i)' /\ b = Held(i)
    OBVIOUS
  <2>4. 1 .. a \subseteq 1 .. b
    BY <2>2, <2>3
  <2>5. QED
    BY <2>3, <2>4
<1>3. HeldPages' = UNION {{i} \X (1 .. Held(i)') : i \in Paged}
  BY <1>1 DEF HeldPages
<1>4. QED
  BY <1>2, <1>3 DEF HeldPages

LEMMA SameHeld ==
    ASSUME Types, Types', UNCHANGED <<scan, plan, audit>>
    PROVE  HeldPages' \subseteq HeldPages
<1>1. \A i \in Index : Held(i)' = Held(i) /\ Held(i) \in Int
  BY HeldInt DEF Held
<1>2. QED
  BY <1>1, PagesShrink

(* A step that admits no file and gives no admitted file another verdict.    *)
LEMMA ExtractingShrinks ==
    ASSUME scan' = scan, ResultsKept,
           \A i \in Index : adm'[i].act = "admit" => adm[i].act = "admit" /\ adm'[i].why = adm[i].why /\ cls'[i] = cls[i]
    PROVE  Extracting' \subseteq Extracting
<1>1. Index' = Index
  BY SameFiles
<1>2. ASSUME NEW i \in Extracting' PROVE i \in Extracting
  <2>1. /\ i \in Index /\ adm'[i].act = "admit" /\ adm'[i].why = "pdf" /\ cls'[i].s = "text"
        /\ ~(result'[i].status = "success" /\ result'[i].hit)
    BY <1>1 DEF Extracting
  <2>2. ~(result[i].status = "success" /\ result[i].hit)
    BY <2>1 DEF ResultsKept
  <2>3. QED
    BY <2>1, <2>2 DEF Extracting
<1>3. QED
  BY <1>2

(* A step that ends the scan as it is.                                       *)
LEMMA EndLinked ==
    ASSUME LinkInv, pc' = "done", UNCHANGED <<scan, wave, plan, cls, adm, result>>
    PROVE  LinkInv'
BY SameFiles DEF LinkInv, Flying

(* The verdicts of a step of the classifications.                            *)
LEMMA VerdictQuota ==
    ASSUME ScanInv, QuotaInv, ScanInv', pc = "classify", pc' = "classify", NEW i \in Waiting,
           UNCHANGED <<scan, plan, adm, result>>, \A j \in Index \ {i} : cls'[j] = cls[j] /\ audit'[j] = audit[j],
           \/ audit'[i] = audit[i]
           \/ audit'[i].s \in Verdictless
           \/ audit'[i].run = -1
           \/ audit'[i].run \in Int /\ audit'[i].run <= plan[i].pages
    PROVE  QuotaInv'
<1>1. Types /\ Types' /\ Index' = Index
  BY SameFiles DEF ScanInv
<1>2. i \in Index
  BY <1>1, WaitingTyped
<1>3. i \in draft /\ cls[i].s \in Verdictless /\ adm[i].act # "admit"
  BY DEF ScanInv, ClassifyInv
<1>4. audit[i].s \in Verdictless
  BY <1>2, <1>3 DEF ScanInv, AuditInv, Audited
<1>5. Held(i) = plan[i].pages
  BY <1>4 DEF Held, Verdictless
<1>6. Held(i) \in Int
  BY <1>1, <1>2, HeldInt
<1>7. Held(i)' <= Held(i)
  <2>1. plan' = plan
    OBVIOUS
  <2>2. CASE audit'[i] = audit[i]
    <3>1. Held(i)' = Held(i)
      BY <2>1, <2>2 DEF Held
    <3>2. QED
      BY <1>6, <3>1
  <2>3. CASE audit'[i].s \in Verdictless \/ audit'[i].run = -1
    <3>1. Held(i)' = plan[i].pages
      BY <2>1, <2>3 DEF Held, Verdictless
    <3>2. QED
      BY <1>5, <1>6, <3>1
  <2>4. CASE audit'[i].run \in Int /\ audit'[i].run <= plan[i].pages
    <3>1. Held(i)' = plan[i].pages \/ Held(i)' = audit'[i].run
      BY <2>1 DEF Held
    <3>2. QED
      BY <1>5, <1>6, <2>4, <3>1
  <2>5. QED
    BY <2>2, <2>3, <2>4
<1>8. \A j \in Index : Held(j)' <= Held(j)
  <2>1. ASSUME NEW j \in Index, j # i PROVE Held(j)' = Held(j) /\ Held(j) \in Int
    BY <1>1, <2>1, HeldInt DEF Held
  <2>2. QED
    BY <1>7, <2>1
<1>9. HeldPages' \subseteq HeldPages
  BY <1>1, <1>8, PagesShrink
<1>10. Extracting' \subseteq Extracting
  <2>1. ResultsKept
    BY DEF ResultsKept
  <2>2. \A j \in Index : adm'[j].act = "admit" => adm[j].act = "admit" /\ adm'[j].why = adm[j].why /\ cls'[j] = cls[j]
    BY <1>3
  <2>3. QED
    BY <2>1, <2>2, ExtractingShrinks
<1>11. LinkInv'
  BY NextLinked
<1>12. QED
  BY <1>9, <1>10, <1>11, QuotaStep

LEMMA LookupClassificationQuota ==
    ASSUME ScanInv, QuotaInv, ScanInv', LookupClassification
    PROVE  QuotaInv'
<1>1. PICK i : i = Head(queue)
  OBVIOUS
<1>2. /\ pc = "classify" /\ pc' = "classify" /\ queue # <<>> /\ UNCHANGED <<scan, plan, adm, result>>
  BY DEF LookupClassification
<1>3. Types /\ cls \in [Index -> Classes] /\ audit \in [Index -> Audits] /\ queue \in Seq(Index) /\ Distinct(queue)
  BY DEF ScanInv, Types, WaitInv
<1>4. i \in Waiting /\ i \in Index
  <2>1. i \in Waiting
    BY <1>1, <1>2, <1>3, TailOf DEF Waiting, Queued
  <2>2. QED
    BY <1>3, <2>1, WaitingTyped
<1>5. \/ \E c : cls' = [cls EXCEPT ![i] = c] /\ audit' = [audit EXCEPT ![i] = BudgetAudit]
      \/ cls' = cls /\ audit' = audit
      \/ audit' = audit /\ \E c : cls' = [cls EXCEPT ![i] = c]
      \/ \E c, a : cls' = [cls EXCEPT ![i] = c] /\ audit' = [audit EXCEPT ![i] = a] /\ a.run = 0
  <2>1. \/ cls' = [cls EXCEPT ![i] = ByBudget] /\ audit' = [audit EXCEPT ![i] = BudgetAudit]
        \/ cls' = cls /\ audit' = audit
        \/ audit' = audit /\ cls' = [cls EXCEPT ![i] = ChangedClass]
        \/ \E known \in CachedClasses(i) :
              /\ cls' = [cls EXCEPT ![i] = [s |-> known.s, code |-> "none"]]
              /\ audit' = [audit EXCEPT ![i] =
                    [s |-> known.s, cache |-> "fresh", examined |-> known.examined, run |-> 0,
                     charged |-> plan[i].pages, attempts |-> 0]]
    BY <1>1 DEF LookupClassification
  <2>2. \A s, n, p : [s |-> s, cache |-> "fresh", examined |-> n, run |-> 0, charged |-> p,
                      attempts |-> 0].run = 0
    OBVIOUS
  <2>3. QED
    BY <2>1, <2>2
<1>6. \A j \in Index \ {i} : cls'[j] = cls[j] /\ audit'[j] = audit[j]
  BY <1>3, <1>5
<1>7. \/ audit'[i] = audit[i]
      \/ audit'[i].s \in Verdictless
      \/ audit'[i].run = 0
  <2>1. BudgetAudit.s = "by_budget"
    BY DEF BudgetAudit
  <2>2. QED
    BY <1>3, <1>4, <1>5, <2>1 DEF Verdictless
<1>8. plan[i].pages \in Nat
  <2>1. plan[i] \in Plans
    BY <1>4 DEF ScanInv, Types
  <2>2. \A q \in Plans : q.pages \in Nat
    BY DEF Plans
  <2>3. QED
    BY <2>1, <2>2
<1>9. \/ audit'[i] = audit[i]
      \/ audit'[i].s \in Verdictless
      \/ audit'[i].run = -1
      \/ audit'[i].run \in Int /\ audit'[i].run <= plan[i].pages
  BY <1>7, <1>8
<1>10. QED
  BY <1>2, <1>4, <1>6, <1>9, VerdictQuota

LEMMA SettleVerdictQuota ==
    ASSUME ScanInv, QuotaInv, ScanInv', SettleVerdict
    PROVE  QuotaInv'
<1>1. PICK i, o : i = Head(wave).i /\ o = Head(wave).out
  OBVIOUS
<1>2. /\ pc = "classify" /\ pc' = "classify" /\ wave # <<>> /\ wave' = Tail(wave)
      /\ (\A k \in DOMAIN wave : wave[k].out # Pending)
      /\ UNCHANGED <<scan, pc, queue, tasks, plan, adm, result>>
  BY DEF SettleVerdict
<1>3. Types /\ WaitInv /\ cls \in [Index -> Classes] /\ audit \in [Index -> Audits] /\ plan \in [Index -> Plans]
      /\ scan \in Scans /\ wave \in Seq(WaveItems(Len(Files)))
  BY DEF ScanInv, Types
<1>4. i \in Waiting /\ i \in Index /\ Len(wave) >= 1 /\ Len(wave) \in Nat /\ Head(wave) = wave[1]
  BY <1>1, <1>2, <1>3, WaveMoves
<1>5. Verdicted(Files[i], plan[i], o)
  <2>1. 1 \in 1 .. Len(wave) /\ 1 \in DOMAIN wave /\ i = wave[1].i /\ o = wave[1].out
    BY <1>1, <1>3, <1>4
  <2>2. QED
    BY <1>2, <2>1 DEF ScanInv, ClassifyInv
<1>6. \/ audit' = audit /\ \E c : cls' = [cls EXCEPT ![i] = c]
      \/ (\E c : cls' = [cls EXCEPT ![i] = c]) /\ audit' = [audit EXCEPT ![i] = AnswerAudit(o, plan[i])]
  BY <1>1, Zenon DEF SettleVerdict, AnswerAudit
<1>7. \A j \in Index \ {i} : cls'[j] = cls[j] /\ audit'[j] = audit[j]
  BY <1>3, <1>6
<1>8. audit'[i] = audit[i] \/ audit'[i] = AnswerAudit(o, plan[i])
  BY <1>3, <1>4, <1>6
<1>9. plan[i].pages \in Nat /\ Files[i].pages \in Nat
  <2>1. plan[i] \in Plans /\ Files[i] \in Source
    BY <1>3, <1>4, FilesTyped
  <2>2. \A q \in Plans : q.pages \in Nat
    BY DEF Plans
  <2>3. QED
    BY <2>1, <2>2, Types7
<1>10. o.examined \in Int /\ o.examined <= plan[i].pages
  <2>1. PICK w : w = Least(Files[i].pages, plan[i].pages)
    OBVIOUS
  <2>2. w \in Nat /\ w <= plan[i].pages
    BY <1>9, <2>1 DEF Least
  <2>3. \/ o.examined \in 1 .. w \/ o.examined = w \/ o.examined = -1
    BY <1>5, <2>1 DEF Verdicted
  <2>4. QED
    BY <1>9, <2>2, <2>3
<1>11. AnswerAudit(o, plan[i]).run = -1 \/ AnswerAudit(o, plan[i]).run = o.examined
  BY DEF AnswerAudit
<1>12. \/ audit'[i] = audit[i]
       \/ audit'[i].s \in Verdictless
       \/ audit'[i].run = -1
       \/ audit'[i].run \in Int /\ audit'[i].run <= plan[i].pages
  BY <1>8, <1>10, <1>11
<1>13. QED
  BY <1>2, <1>4, <1>7, <1>12, VerdictQuota

(* A step that admits no file and classifies none.                           *)
LEMMA OtherQuota ==
    ASSUME ScanInv, QuotaInv, ScanInv', UNCHANGED <<scan, plan, cls, audit>>, ResultsKept, LinkInv',
           \A i \in Index : adm'[i].act = "admit" => adm[i].act = "admit" /\ adm'[i].why = adm[i].why
    PROVE  QuotaInv'
<1>1. Extracting' \subseteq Extracting
  BY ExtractingShrinks
<1>2. HeldPages' \subseteq HeldPages
  BY SameHeld DEF ScanInv
<1>3. QED
  BY <1>1, <1>2, QuotaStep

LEMMA WaveQuota ==
    ASSUME ScanInv, QuotaInv, ScanInv', ResultsKept,
           \/ DispatchClassifications \/ ReturnVerdict \/ LookupParse \/ DispatchParses \/ SettleText \/ ReturnText
           \/ ChangeSource \/ PassDeadline
    PROVE  QuotaInv'
<1>1. UNCHANGED <<scan, plan, cls, audit, adm, pc>> /\ pc # "done"
  BY DEF DispatchClassifications, ReturnVerdict, LookupParse, DispatchParses, SettleText, ReturnText, ChangeSource,
         PassDeadline, pdfState
<1>2. LinkInv'
  BY <1>1, NextLinked
<1>3. QED
  BY <1>1, <1>2, OtherQuota

LEMMA FailQuota ==
    ASSUME ScanInv, QuotaInv, ScanInv', pc' = "done", UNCHANGED <<scan, wave, plan, cls, audit, adm, result>>
    PROVE  QuotaInv'
<1>1. LinkInv'
  BY EndLinked DEF QuotaInv
<1>2. ResultsKept
  BY DEF ResultsKept
<1>3. QED
  BY <1>1, <1>2, OtherQuota

LEMMA StutterQuota ==
    ASSUME ScanInv, QuotaInv, ScanInv', UNCHANGED vars
    PROVE  QuotaInv'
<1>1. UNCHANGED <<scan, pc, wave, plan, cls, audit, adm, result>>
  BY DEF vars
<1>2. LinkInv'
  BY <1>1, SameFiles DEF QuotaInv, LinkInv, Flying
<1>3. ResultsKept
  BY <1>1 DEF ResultsKept
<1>4. QED
  BY <1>1, <1>2, <1>3, OtherQuota

LEMMA EndRoundQuota ==
    ASSUME ScanInv, QuotaInv, ScanInv', EndRound
    PROVE  QuotaInv'
<1>1. UNCHANGED <<scan, wave, plan, cls, audit, result>> /\ pc = "parse"
  BY DEF EndRound, pdfState
<1>2. ResultsKept
  BY <1>1 DEF ResultsKept
<1>3. CASE pc' = "done"
  <2>1. adm' = adm
    BY <1>3 DEF EndRound
  <2>2. QED
    BY <1>1, <1>3, <2>1, FailQuota
<1>4. CASE pc' # "done"
  <2>1. Shrinks(Reclaimed(Context(result)))
    BY <1>1, ReclaimedOf
  <2>2. adm' = adm \/ adm' = Reclaimed(Context(result))
    BY DEF EndRound
  <2>3. \A i \in Index : adm'[i].act = "admit" => adm[i].act = "admit" /\ adm'[i].why = adm[i].why
    BY <2>1, <2>2 DEF Shrinks
  <2>4. LinkInv'
    BY <1>4, NextLinked
  <2>5. QED
    BY <1>1, <1>2, <2>3, <2>4, OtherQuota
<1>5. QED
  BY <1>3, <1>4

(* A file that changed before it was parsed had a verdict.                   *)
LEMMA FinishQuota ==
    ASSUME ScanInv, QuotaInv, ScanInv', Finish
    PROVE  QuotaInv'
<1>1. pc' = "done" /\ UNCHANGED <<scan, wave, plan, cls, audit, adm>>
  BY DEF Finish, pdfState
<1>2. \A i \in Index : result'[i] = FinalResult(i)
  BY FinalSources
<1>3. ResultsKept
  BY FinishAdds
<1>4. Index' = Index /\ Flying' = Flying
  BY <1>1, SameFiles DEF Flying
<1>5. ASSUME NEW i \in Index, i \in Flying \/ result'[i].status # "none" \/ cls[i].s \notin Verdictless
      PROVE  plan[i].act = "admit"
  <2>1. result'[i] = result[i] \/ cls[i].s = "error"
    BY <1>2 DEF FinalResult, ScanInv, TaintInv
  <2>2. QED
    BY <1>5, <2>1 DEF QuotaInv, LinkInv, Verdictless
<1>6. ASSUME NEW i \in Index, adm[i].why = "pdf", adm[i].act = "admit", result'[i].attempts > 0
      PROVE  cls[i].s = "text" /\ ~(result'[i].status = "success" /\ result'[i].hit)
  <2>1. result'[i] = result[i] \/ result'[i] = ChangedResult(0)
    BY <1>2 DEF FinalResult
  <2>2. result'[i] = result[i]
    BY <1>6, <2>1 DEF ChangedResult
  <2>3. QED
    BY <1>6, <2>2 DEF QuotaInv, LinkInv
<1>7. LinkInv'
  BY <1>1, <1>4, <1>5, <1>6 DEF LinkInv
<1>8. QED
  BY <1>1, <1>3, <1>7, OtherQuota

(* The extractions that an admission begins are among those that are left.   *)
LEMMA PriceQuota ==
    ASSUME ScanInv, QuotaInv, ScanInv', Price
    PROVE  QuotaInv'
<1>1. /\ Types /\ Types' /\ DraftInv /\ PlanInv /\ AuditInv /\ scan \in Scans /\ pc = "classify"
      /\ UNCHANGED <<scan, wave, plan, cls, audit, result>>
  BY DEF ScanInv, Price, Types
<1>2. \/ pc' = "done" /\ adm' = adm
      \/ /\ pc' = "parse"
         /\ \E next : next = Admission(Considered, base', Reserved(adm)) /\ adm' = Amended(adm, next)
  BY Zenon DEF Price, Fail
<1>3. ASSUME pc' = "parse", NEW next, next = Admission(Considered, base', Reserved(adm)), adm' = Amended(adm, next)
      PROVE  QuotaInv'
  <2>1. Considered \subseteq Index /\ Index' = Index
    BY <1>1, SameFiles DEF Considered, DraftInv, Types
  <2>2. DOMAIN next = Considered
    BY <1>1, <1>3, <2>1, AdmissionOf
  <2>3. \A i \in Index : adm'[i] = IF i \in Considered THEN next[i] ELSE adm[i]
    BY <1>3, <2>2, AmendedOf
  <2>4. PICK b, h : b = base' /\ h = Reserved(adm)
    OBVIOUS
  <2>17. PICK S : S = Considered /\ S \subseteq Index /\ next = Admission(S, b, h)
    BY <1>3, <2>1, <2>4
  <2>5. PICK N : N = {i \in Considered : next[i].act = "admit" /\ Extracts(plan[i], cls[i].s)}
    OBVIOUS
  <2>6. IsFiniteSet(N) /\ Cardinality(N) <= Monus(MaxExtractions, ExtractionsUsed)
    <3>1. N = {i \in S : next[i].act = "admit" /\ Extracts(plan[i], cls[i].s)}
      BY <2>5, <2>17
    <3>2. QED
      BY <1>1, <2>17, <3>1, ExtractionsWithin
  <2>7. ASSUME NEW i \in Extracting' PROVE i \in Extracting \cup N
    <3>1. /\ i \in Index /\ adm'[i].act = "admit" /\ adm'[i].why = "pdf" /\ cls[i].s = "text"
          /\ ~(result[i].status = "success" /\ result[i].hit)
      BY <1>1, <2>1 DEF Extracting
    <3>2. CASE i \in Considered
      <4>1. plan[i].classify = "classify"
        BY <1>1, <3>1 DEF AuditInv, Audited, Verdictless
      <4>2. QED
        BY <2>3, <2>5, <3>1, <3>2, <4>1 DEF Extracts
    <3>3. CASE i \notin Considered
      BY <2>3, <3>1, <3>3 DEF Extracting
    <3>4. QED
      BY <3>2, <3>3
  <2>8. IsFiniteSet(Extracting) /\ ExtractionsUsed = Cardinality(Extracting) /\ MaxExtractions \in Nat
    BY <1>1, QuotasCounted, BudgetAssumption
  <2>9. PICK A, C : A = Extracting /\ C = Extracting'
    OBVIOUS
  <2>10. IsFiniteSet(A) /\ C \subseteq A \cup N /\ Cardinality(A) <= MaxExtractions
         /\ Cardinality(N) <= Monus(MaxExtractions, Cardinality(A))
    BY <2>6, <2>7, <2>8, <2>9 DEF QuotaInv
  <2>11. Cardinality(C) <= MaxExtractions
    BY <2>6, <2>8, <2>10, CountedBound
  <2>12. ExtractionsUsed' <= MaxExtractions
    <3>1. ExtractionsUsed' = Cardinality(C)
      BY <2>9 DEF ExtractionsUsed, Extracting
    <3>2. QED
      BY <2>11, <3>1
  <2>13. Candidates' = Candidates
    BY <1>1, <2>1 DEF Candidates
  <2>14. PagesHeld' = PagesHeld
    BY <1>1, <2>1 DEF PagesHeld, Held
  <2>15. LinkInv'
    BY <1>3, NextLinked
  <2>16. QED
    BY <2>12, <2>13, <2>14, <2>15 DEF QuotaInv
<1>4. CASE pc' = "done" /\ adm' = adm
  BY <1>1, <1>4, FailQuota
<1>5. QED
  BY <1>2, <1>3, <1>4

(* When no file was stopped, a file that was let in and is not left out for  *)
(* want of a quota has begun.                                                *)
LEMMA OldCandidates ==
    ASSUME ScanInv, pc = "refill", runtime = {}, NEW i \in Candidates, i \notin Unstarted
    PROVE  i \in Begun
<1>1. i \in Index /\ plan[i].act = "admit" /\ PlanOf(Files[i], plan[i]) /\ Settled(i)
  BY DEF Candidates, ScanInv, PlanInv, SettledInv
<1>2. SUFFICES ASSUME cls[i].s \in Verdictless, result[i].status = "none" PROVE FALSE
  BY <1>1 DEF Begun
<1>3. plan[i].classify # "by_budget"
  BY <1>1 DEF PlanOf
<1>4. adm[i].act # "none" /\ Decided(plan[i], cls[i].s, adm[i])
  BY <1>1, <1>3 DEF Settled
<1>5. plan[i].classify # "classify"
  BY <1>1, <1>2 DEF Settled
<1>6. plan[i].classify = "not_pdf"
  <2>1. \A q \in Plans : q.classify \in {"not_pdf", "by_budget", "classify"}
    BY DEF Plans
  <2>2. QED
    BY <1>1, <1>3, <1>5, <2>1 DEF PlanOf
<1>7. adm[i].act = "admit" \/ (adm[i].act = "not_parsed" /\ adm[i].why \in BudgetReasons)
  BY <1>1, <1>4, <1>6 DEF Decided
<1>8. CASE adm[i].act = "admit"
  <2>1. NoText(i)
    BY <1>1, <1>2, <1>8 DEF ScanInv, ResultInv
  <2>2. QED
    BY <1>2, <2>1 DEF NoText, Verdictless
<1>9. CASE adm[i].act = "not_parsed" /\ adm[i].why \in BudgetReasons
  BY <1>1, <1>2, <1>9 DEF Unserved, Unstarted, ActionOf, Verdictless
<1>10. QED
  BY <1>7, <1>8, <1>9

LEMMA BegunWereLetIn ==
    ASSUME LinkInv
    PROVE  Begun \subseteq Candidates
BY DEF LinkInv, Begun, Candidates

(* A refill round lets in what the quotas have left.                         *)
LEMMA RefillQuota ==
    ASSUME ScanInv, QuotaInv, ScanInv', pc = "refill", ~stopped, NEW retained, Shrinks(retained),
           NEW reused, Refills(retained, RefillPlan(Unstarted), reused)
    PROVE  QuotaInv'
<1>1. PICK S : S = Unstarted
  OBVIOUS
<1>2. PICK frozen : frozen = RefillPlan(S)
  OBVIOUS
<1>3. /\ adm' = retained /\ plan' = Amended(plan, frozen) /\ pc' = "classify"
      /\ UNCHANGED <<scan, wave, cls, audit, result>>
  BY <1>1, <1>2 DEF Refills
<1>4. Types /\ Types' /\ PlanInv /\ scan \in Scans /\ Index' = Index /\ runtime = {}
  BY <1>3, SameFiles DEF ScanInv, Types, StopInv
<1>5. S \subseteq Index /\ \A i \in S : cls[i].s \in Verdictless
  BY <1>1, UnservedOf DEF Unstarted, Verdictless
<1>6. DOMAIN frozen = S
  BY <1>2, <1>4, <1>5, RefillPlanOf
<1>7. \A i \in Index : plan'[i] = IF i \in S THEN frozen[i] ELSE plan[i]
  BY <1>3, <1>6, AmendedOf
<1>8. PICK N, P : N = LetIn(S, frozen) /\ P = LetPages(S, frozen)
  OBVIOUS
<1>9. /\ IsFiniteSet(N) /\ Cardinality(N) <= Monus(MaxCandidates, CandidatesUsed)
      /\ IsFiniteSet(P) /\ Cardinality(P) <= Monus(TotalPages, PagesHeld)
  BY <1>2, <1>4, <1>5, <1>8, RefillWithin
<1>10. /\ IsFiniteSet(Begun) /\ CandidatesUsed = Cardinality(Begun) /\ IsFiniteSet(HeldPages)
       /\ PagesHeld = Cardinality(HeldPages) /\ IsFiniteSet(Index)
  BY <1>4, QuotasCounted
<1>11. MaxCandidates \in Nat /\ TotalPages \in Nat
  BY BudgetAssumption
<1>12. Cardinality(Candidates') <= MaxCandidates
  <2>1. ASSUME NEW i \in Candidates' PROVE i \in Begun \cup N
    <3>1. i \in Index /\ plan'[i].act = "admit"
      BY <1>4 DEF Candidates
    <3>2. CASE i \in S
      BY <1>7, <1>8, <3>1, <3>2 DEF LetIn
    <3>3. CASE i \notin S
      <4>1. i \in Candidates
        BY <1>7, <3>1, <3>3 DEF Candidates
      <4>2. QED
        BY <1>1, <1>4, <3>3, <4>1, OldCandidates
    <3>4. QED
      BY <3>2, <3>3
  <2>2. Cardinality(Begun) <= MaxCandidates
    <3>1. Candidates \subseteq Index
      BY DEF Candidates
    <3>2. IsFiniteSet(Candidates)
      BY <1>10, <3>1, FS_Subset
    <3>3. Begun \subseteq Candidates
      BY BegunWereLetIn DEF QuotaInv
    <3>4. QED
      BY <1>11, <3>2, <3>3, SubsetBound DEF QuotaInv
  <2>3. PICK A, C : A = Begun /\ C = Candidates'
    OBVIOUS
  <2>4. /\ IsFiniteSet(A) /\ C \subseteq A \cup N /\ Cardinality(A) <= MaxCandidates
        /\ Cardinality(N) <= Monus(MaxCandidates, Cardinality(A))
    BY <1>9, <1>10, <2>1, <2>2, <2>3
  <2>5. Cardinality(C) <= MaxCandidates
    BY <1>9, <1>11, <2>4, CountedBound
  <2>6. QED
    BY <2>3, <2>5
<1>13. PagesHeld' <= TotalPages
  <2>1. \A i \in S : audit[i].s \in Verdictless
    BY <1>5 DEF ScanInv, AuditInv, Audited
  <2>2. \A i \in S : Held(i)' = frozen[i].pages
    BY <1>3, <1>5, <1>7, <2>1 DEF Held, Verdictless
  <2>3. \A i \in Index : i \notin S => Held(i)' = Held(i)
    BY <1>3, <1>7 DEF Held
  <2>4. Paged' \subseteq Index /\ \A i \in Paged' : i \notin S => i \in Paged
    BY <1>4, <1>7 DEF Paged
  <2>5. HeldPages' = UNION {{i} \X (1 .. Held(i)') : i \in Paged'}
    BY DEF HeldPages
  <2>6. ASSUME NEW i \in Paged' PROVE {i} \X (1 .. Held(i)') \subseteq HeldPages \cup P
    <3>1. CASE i \in S
      <4>1. {i} \X (1 .. Held(i)') = {i} \X (1 .. frozen[i].pages)
        BY <2>2, <3>1
      <4>2. QED
        BY <1>8, <3>1, <4>1 DEF LetPages
    <3>2. CASE i \notin S
      <4>1. {i} \X (1 .. Held(i)') = {i} \X (1 .. Held(i)) /\ i \in Paged
        BY <2>3, <2>4, <3>2
      <4>2. QED
        BY <4>1 DEF HeldPages
    <3>3. QED
      BY <3>1, <3>2
  <2>7. PICK A, C : A = HeldPages /\ C = HeldPages'
    OBVIOUS
  <2>8. C \subseteq A \cup P
    BY <2>5, <2>6, <2>7
  <2>9. /\ IsFiniteSet(A) /\ Cardinality(A) <= TotalPages /\ Cardinality(P) <= Monus(TotalPages, Cardinality(A))
    BY <1>9, <1>10, <2>7 DEF QuotaInv
  <2>10. Cardinality(C) <= TotalPages
    BY <1>9, <1>11, <2>8, <2>9, CountedBound
  <2>11. PagesHeld' = Cardinality(C)
    BY <2>7 DEF PagesHeld, HeldPages, Paged
  <2>12. QED
    BY <2>10, <2>11
<1>14. ExtractionsUsed' <= MaxExtractions
  <2>1. ResultsKept
    BY <1>3 DEF ResultsKept
  <2>2. \A i \in Index : adm'[i].act = "admit" => adm[i].act = "admit" /\ adm'[i].why = adm[i].why /\ cls'[i] = cls[i]
    BY <1>3 DEF Shrinks
  <2>3. Extracting' \subseteq Extracting
    BY <1>3, <2>1, <2>2, ExtractingShrinks
  <2>4. IsFiniteSet(Extracting) /\ ExtractionsUsed = Cardinality(Extracting) /\ MaxExtractions \in Nat
    BY <1>4, QuotasCounted, BudgetAssumption
  <2>5. PICK A, C : A = Extracting /\ C = Extracting'
    OBVIOUS
  <2>6. Cardinality(C) <= MaxExtractions
    BY <2>3, <2>4, <2>5, SubsetBound DEF QuotaInv
  <2>7. ExtractionsUsed' = Cardinality(C)
    BY <2>5 DEF ExtractionsUsed, Extracting
  <2>8. QED
    BY <2>6, <2>7
<1>15. LinkInv'
  BY <1>3, NextLinked
<1>16. QED
  BY <1>12, <1>13, <1>14, <1>15 DEF QuotaInv

LEMMA BeginRefillQuota ==
    ASSUME ScanInv, QuotaInv, ScanInv', BeginRefill
    PROVE  QuotaInv'
<1>1. pc = "refill" /\ UNCHANGED <<scan, wave, cls, audit, result>>
  BY DEF BeginRefill, pdfState
<1>2. CASE Ends
  <2>1. /\ plan' = plan /\ pc' = "finish"
        /\ adm' = adm \/ adm' = Reclaimed(Context(result))
    BY <1>2 DEF Ends, EndRefill
  <2>2. LinkInv' /\ ResultsKept
    BY <1>1, <2>1, NextLinked DEF ResultsKept
  <2>3. Shrinks(Reclaimed(Context(result)))
    BY <1>1, ReclaimedOf
  <2>4. \A i \in Index : adm'[i].act = "admit" => adm[i].act = "admit" /\ adm'[i].why = adm[i].why
    BY <2>1, <2>3 DEF Shrinks
  <2>5. QED
    BY <1>1, <2>1, <2>2, <2>4, OtherQuota
<1>3. ASSUME NEW bad, Fail(bad), UNCHANGED <<plan, adm>> PROVE QuotaInv'
  BY <1>1, <1>3, FailQuota DEF Fail
<1>4. ASSUME NEW reused, Refills(Reclaimed(Context(result)), RefillPlan(Unstarted), reused) PROVE QuotaInv'
  <2>1. Shrinks(Reclaimed(Context(result)))
    BY <1>1, ReclaimedOf
  <2>2. pc' = "classify"
    BY <1>4 DEF Refills
  <2>3. ~stopped
    BY <2>2 DEF BeginRefill, EndRefill, Fail
  <2>4. QED
    BY <1>1, <1>4, <2>1, <2>3, RefillQuota
<1>5. QED
  BY <1>2, <1>3, <1>4, BeginRefillOf

(* The first plan is within the quotas.                                      *)
LEMMA FirstQuota ==
    ASSUME Init
    PROVE  QuotaInv
<1>1. /\ ScanInv /\ Types /\ scan \in Scans /\ pc = "classify"
      /\ plan = ClassificationPlan(Files, TotalPages, MaxCandidates, FALSE)
      /\ audit = [i \in Index |-> NoAudit] /\ adm = [i \in Index |-> NoDecision]
  BY Starts DEF Init, Files, ScanInv, Types
<1>2. Files \in Seq(Source) /\ Index = 1 .. Len(Files)
  BY <1>1, FilesTyped
<1>3. PICK ids, n : ids = [i \in Index |-> i] /\ n = Len(Files)
  OBVIOUS
<1>4. PICK part \in BOOLEAN : part = FALSE
  OBVIOUS
<1>5. TotalPages \in Nat /\ MaxCandidates \in Nat /\ MaxExtractions \in Nat
  BY BudgetAssumption
<1>6. /\ IsFiniteSet(SlotsOf(ids, plan, n)) /\ Cardinality(SlotsOf(ids, plan, n)) <= MaxCandidates
      /\ IsFiniteSet(PagesOf(ids, plan, n)) /\ Cardinality(PagesOf(ids, plan, n)) <= TotalPages
  BY <1>1, <1>2, <1>3, <1>4, <1>5, PlanWithin
<1>7. Candidates = SlotsOf(ids, plan, n)
  BY <1>2, <1>3 DEF Candidates, SlotsOf
<1>8. PagesHeld <= TotalPages
  <2>1. \A i \in Index : Held(i) = plan[i].pages
    BY <1>1 DEF Held, NoAudit
  <2>2. ASSUME NEW i \in Paged PROVE {i} \X (1 .. Held(i)) \subseteq PagesOf(ids, plan, n)
    <3>1. i \in Index /\ i \in 1 .. n /\ ids[i] = i /\ Held(i) = plan[i].pages
      BY <1>2, <1>3, <2>1 DEF Paged
    <3>2. {ids[i]} \X (1 .. plan[i].pages) \subseteq PagesOf(ids, plan, n)
      BY <3>1 DEF PagesOf
    <3>3. QED
      BY <3>1, <3>2
  <2>3. HeldPages \subseteq PagesOf(ids, plan, n)
    BY <2>2 DEF HeldPages
  <2>4. PagesHeld = Cardinality(HeldPages)
    BY <1>1, QuotasCounted
  <2>5. QED
    BY <1>5, <1>6, <2>3, <2>4, SubsetBound
<1>9. ExtractionsUsed <= MaxExtractions
  <2>1. Extracting = {}
    BY <1>1 DEF Extracting, NoDecision, Decision
  <2>2. ExtractionsUsed = Cardinality(Extracting)
    BY <1>1, QuotasCounted
  <2>3. QED
    BY <1>5, <2>1, <2>2, FS_EmptySet
<1>10. LinkInv
  BY <1>1, Linked
<1>11. QED
  BY <1>6, <1>7, <1>8, <1>9, <1>10 DEF QuotaInv

LEMMA QuotaStays ==
    ASSUME ScanInv, QuotaInv, [Next]_vars
    PROVE  QuotaInv'
<1>1. ScanInv' /\ ResultsKept
  BY Stays, StepAdds
<1>2. CASE LookupFails
  BY <1>1, <1>2, FailQuota DEF LookupFails, Fail
<1>3. CASE LookupClassification \/ SettleVerdict
  BY <1>1, <1>3, LookupClassificationQuota, SettleVerdictQuota
<1>4. CASE \/ DispatchClassifications \/ ReturnVerdict \/ LookupParse \/ DispatchParses \/ SettleText \/ ReturnText
           \/ ChangeSource \/ PassDeadline
  BY <1>1, <1>4, WaveQuota
<1>5. CASE Price \/ BeginRefill \/ EndRound \/ Finish
  BY <1>1, <1>5, PriceQuota, BeginRefillQuota, EndRoundQuota, FinishQuota
<1>6. CASE Done \/ UNCHANGED vars
  BY <1>1, <1>6, StutterQuota DEF Done
<1>7. QED
  BY <1>2, <1>3, <1>4, <1>5, <1>6 DEF Next, Step, Answer

(* In every round, with every order of answers, a scan opens no more files,  *)
(* holds no more classification pages and starts no more PDF extractions     *)
(* than its profile allows: a refill round is planned with what the earlier  *)
(* rounds really left, and what they held is never handed out twice.         *)
THEOREM QuotasAlwaysHold == Spec => []QuotasHold
<1>1. Init => QuotaInv
  BY FirstQuota
<1>2. ScanInv /\ QuotaInv /\ [Next]_vars => QuotaInv'
  BY QuotaStays
<1>3. ScanInv /\ QuotaInv => QuotasHold
  BY QuotasBound
<1>4. QED
  BY <1>1, <1>2, <1>3, Always, PTL DEF Spec

-----------------------------------------------------------------------------
(* Sums.                                                                     *)

(* The sum of a sequence is what any running sum arrives at.                 *)
Runs(h, s) == h[0] = 0 /\ \A k \in 1 .. Len(s) : h[k] = h[k - 1] + s[k]
Sums(g, s) == g = [k \in 0 .. Len(s) |-> IF k = 0 THEN 0 ELSE g[k - 1] + s[k]]

LEMMA SumsExist ==
    ASSUME NEW s \in Seq(Int)
    PROVE  \E g : Sums(g, s)
<1>1. PICK n : n = Len(s) /\ n \in Nat
  OBVIOUS
<1>2. PICK F : F = [k \in 1 .. n |-> [x \in Int |-> x + s[k]]]
  OBVIOUS
<1>3. F \in [1 .. n -> [Int -> Int]]
  <2>1. \A k \in 1 .. n : s[k] \in Int
    BY <1>1
  <2>2. QED
    BY <1>2, <2>1
<1>4. PICK zero \in Int : zero = 0
  OBVIOUS
<1>5. PICK g : Passes(g, n, Int, zero, F)
  BY <1>1, <1>3, PassExists
<1>6. g \in [0 .. n -> Int] /\ g[0] = zero /\ \A k \in 1 .. n : g[k] = F[k][g[k - 1]]
  BY <1>5 DEF Passes
<1>7. ASSUME NEW k \in 1 .. n PROVE g[k] = g[k - 1] + s[k]
  <2>1. k - 1 \in 0 .. n
    BY <1>1
  <2>2. g[k - 1] \in Int
    BY <1>6, <2>1
  <2>3. QED
    BY <1>2, <1>6, <2>2
<1>8. \A k \in 0 .. n : k # 0 => k \in 1 .. n
  BY <1>1
<1>9. QED
  BY <1>1, <1>4, <1>6, <1>7, <1>8 DEF Sums

LEMMA SumIs ==
    ASSUME NEW s \in Seq(Int), NEW h, Runs(h, s)
    PROVE  SumOf(s) = h[Len(s)] /\ \A k \in 0 .. Len(s) : h[k] \in Int
<1>1. PICK n : n = Len(s) /\ n \in Nat
  OBVIOUS
<1>2. \E g : Sums(g, s)
  BY SumsExist
<1>3. PICK g : Sums(g, s) /\ SumOf(s) = g[n]
  BY <1>1, <1>2 DEF Sums, SumOf
<1>. DEFINE Good == {k \in 0 .. n : g[k] = h[k] /\ h[k] \in Int}
<1>4. 0 \in Good
  BY <1>1, <1>3 DEF Sums, Runs
<1>5. ASSUME NEW k \in 0 .. n, k \in Good, k < n PROVE k + 1 \in Good
  <2>1. k + 1 \in 1 .. n /\ (k + 1) - 1 = k /\ k + 1 # 0 /\ k + 1 \in 0 .. n
    BY <1>1, <1>5
  <2>2. g[k + 1] = g[k] + s[k + 1]
    BY <1>1, <1>3, <2>1 DEF Sums
  <2>3. h[k + 1] = h[k] + s[k + 1]
    BY <1>1, <2>1 DEF Runs
  <2>4. s[k + 1] \in Int
    BY <1>1, <2>1
  <2>5. QED
    BY <1>5, <2>1, <2>2, <2>3, <2>4
<1>. HIDE DEF Good
<1>6. \A k \in 0 .. n : k \in Good
  BY <1>1, <1>4, <1>5, UpTo
<1>7. QED
  BY <1>1, <1>3, <1>6 DEF Good

(* A running sum of a sequence.                                              *)
LEMMA SumRuns ==
    ASSUME NEW s \in Seq(Int)
    PROVE  /\ SumOf(s) \in Int
           /\ \E h : Runs(h, s) /\ SumOf(s) = h[Len(s)] /\ \A k \in 0 .. Len(s) : h[k] \in Int
<1>1. PICK g : Sums(g, s)
  BY SumsExist
<1>2. Runs(g, s)
  <2>1. g[0] = 0
    BY <1>1 DEF Sums
  <2>2. ASSUME NEW k \in 1 .. Len(s) PROVE g[k] = g[k - 1] + s[k]
    <3>1. k \in 0 .. Len(s) /\ k # 0
      OBVIOUS
    <3>2. QED
      BY <1>1, <3>1 DEF Sums
  <2>3. QED
    BY <2>1, <2>2 DEF Runs
<1>3. SumOf(s) = g[Len(s)] /\ \A k \in 0 .. Len(s) : g[k] \in Int
  BY <1>2, SumIs
<1>4. Len(s) \in 0 .. Len(s)
  OBVIOUS
<1>5. QED
  BY <1>2, <1>3, <1>4

LEMMA SumOfNone ==
    SumOf(<<>>) = 0
<1>1. PICK h : h = [k \in 0 .. 0 |-> 0]
  OBVIOUS
<1>2. <<>> \in Seq(Int) /\ Len(<<>>) = 0
  OBVIOUS
<1>3. Runs(h, <<>>)
  BY <1>1, <1>2 DEF Runs
<1>4. SumOf(<<>>) = h[0]
  <2>1. PICK s : s = <<>>
    OBVIOUS
  <2>2. s \in Seq(Int) /\ Runs(h, s)
    BY <1>2, <1>3, <2>1
  <2>3. SumOf(s) = h[Len(s)]
    BY <2>2, SumIs
  <2>4. QED
    BY <1>2, <2>1, <2>3
<1>5. QED
  BY <1>1, <1>4

LEMMA SumOfAppend ==
    ASSUME NEW s \in Seq(Int), NEW x \in Int
    PROVE  SumOf(Append(s, x)) = SumOf(s) + x
<1>1. PICK n : n = Len(s) /\ n \in Nat
  OBVIOUS
<1>2. PICK h : Runs(h, s) /\ SumOf(s) = h[n] /\ \A k \in 0 .. n : h[k] \in Int
  BY <1>1, SumRuns
<1>10. /\ Append(s, x) \in Seq(Int) /\ Len(Append(s, x)) = Len(s) + 1
       /\ \A k \in 1 .. Len(s) : Append(s, x)[k] = s[k]
       /\ Append(s, x)[Len(s) + 1] = x
  OBVIOUS
<1>3. PICK t : t = Append(s, x)
  OBVIOUS
<1>4. t \in Seq(Int) /\ Len(t) = n + 1 /\ t[n + 1] = x /\ \A k \in 1 .. n : t[k] = s[k]
  BY <1>1, <1>3, <1>10
<1>5. PICK j : j = [k \in 0 .. n + 1 |-> IF k = n + 1 THEN h[n] + x ELSE h[k]]
  OBVIOUS
<1>6. j[n + 1] = h[n] + x /\ \A k \in 0 .. n : j[k] = h[k]
  BY <1>1, <1>5
<1>7. Runs(j, t)
  <2>1. j[0] = 0
    BY <1>1, <1>2, <1>6 DEF Runs
  <2>2. ASSUME NEW k \in 1 .. n + 1 PROVE j[k] = j[k - 1] + t[k]
    <3>1. CASE k = n + 1
      <4>1. k - 1 = n /\ n \in 0 .. n
        BY <1>1, <3>1
      <4>2. QED
        BY <1>4, <1>6, <3>1, <4>1
    <3>2. CASE k # n + 1
      <4>1. k \in 1 .. n /\ k \in 0 .. n /\ k - 1 \in 0 .. n
        BY <1>1, <3>2
      <4>2. h[k] = h[k - 1] + s[k]
        BY <1>1, <1>2, <4>1 DEF Runs
      <4>3. QED
        BY <1>4, <1>6, <4>1, <4>2
    <3>3. QED
      BY <3>1, <3>2
  <2>3. QED
    BY <1>4, <2>1, <2>2 DEF Runs
<1>8. SumOf(t) = j[n + 1]
  BY <1>4, <1>7, SumIs
<1>9. QED
  BY <1>2, <1>3, <1>6, <1>8

LEMMA SumOfBoth ==
    ASSUME NEW s \in Seq(Int), NEW t \in Seq(Int)
    PROVE  SumOf(s \o t) = SumOf(s) + SumOf(t)
<1>1. PICK n, m : n = Len(s) /\ m = Len(t)
  OBVIOUS
<1>12. n \in Nat /\ m \in Nat
  BY <1>1
<1>2. PICK h : Runs(h, s) /\ SumOf(s) = h[n] /\ \A k \in 0 .. n : h[k] \in Int
  BY <1>1, SumRuns
<1>3. PICK i : Runs(i, t) /\ SumOf(t) = i[m] /\ \A k \in 0 .. m : i[k] \in Int
  BY <1>1, SumRuns
<1>13. /\ s \o t \in Seq(Int) /\ Len(s \o t) = Len(s) + Len(t)
       /\ \A k \in 1 .. Len(s) + Len(t) : (s \o t)[k] = IF k <= Len(s) THEN s[k] ELSE t[k - Len(s)]
  OBVIOUS
<1>4. PICK u : u = s \o t
  OBVIOUS
<1>5. /\ u \in Seq(Int) /\ Len(u) = n + m /\ (\A k \in 1 .. n : u[k] = s[k])
      /\ \A k \in n + 1 .. n + m : u[k] = t[k - n]
  BY <1>1, <1>4, <1>12, <1>13
<1>6. PICK j : j = [k \in 0 .. n + m |-> IF k <= n THEN h[k] ELSE h[n] + i[k - n]]
  OBVIOUS
<1>7. /\ \A k \in 0 .. n : j[k] = h[k]
      /\ \A k \in 0 .. m : j[n + k] = h[n] + i[k]
  <2>1. \A k \in 0 .. n : j[k] = h[k]
    BY <1>1, <1>12, <1>6
  <2>2. ASSUME NEW k \in 0 .. m PROVE j[n + k] = h[n] + i[k]
    <3>1. n + k \in 0 .. n + m /\ (n + k <= n <=> k = 0) /\ (n + k) - n = k
      BY <1>12
    <3>2. h[n] \in Int /\ i[0] = 0
      <4>1. n \in 0 .. n
        BY <1>12
      <4>2. QED
        BY <1>2, <1>3, <4>1 DEF Runs
    <3>3. j[n + k] = IF k = 0 THEN h[n + k] ELSE h[n] + i[k]
      BY <1>6, <3>1
    <3>4. CASE k = 0
      <4>1. n + k = n
        BY <1>12, <3>4
      <4>2. QED
        BY <3>2, <3>3, <3>4, <4>1
    <3>5. QED
      BY <3>3, <3>4
  <2>3. QED
    BY <2>1, <2>2
<1>8. Runs(j, u)
  <2>1. j[0] = 0
    BY <1>1, <1>12, <1>2, <1>7 DEF Runs
  <2>2. ASSUME NEW k \in 1 .. n + m PROVE j[k] = j[k - 1] + u[k]
    <3>1. CASE k <= n
      <4>1. k \in 1 .. n /\ k \in 0 .. n /\ k - 1 \in 0 .. n
        BY <1>1, <1>12, <3>1
      <4>2. h[k] = h[k - 1] + s[k]
        BY <1>1, <1>12, <1>2, <4>1 DEF Runs
      <4>3. QED
        BY <1>5, <1>7, <4>1, <4>2
    <3>2. CASE k > n
      <4>1. PICK l : l = k - n /\ l \in 1 .. m /\ l - 1 \in 0 .. m /\ l \in 0 .. m
        BY <1>1, <1>12, <3>2
      <4>2. n + l = k /\ n + (l - 1) = k - 1 /\ k \in n + 1 .. n + m
        BY <1>1, <1>12, <3>2, <4>1
      <4>7. i[l] = i[l - 1] + t[l]
        BY <1>1, <1>3, <4>1 DEF Runs
      <4>8. n \in 0 .. n /\ t[l] \in Int
        BY <1>1, <1>12, <4>1
      <4>3. i[l] = i[l - 1] + t[l] /\ i[l - 1] \in Int /\ t[l] \in Int /\ h[n] \in Int
        BY <1>2, <1>3, <4>1, <4>7, <4>8
      <4>4. j[k] = h[n] + i[l] /\ j[k - 1] = h[n] + i[l - 1]
        BY <1>7, <4>1, <4>2
      <4>5. u[k] = t[l]
        BY <1>5, <4>1, <4>2
      <4>6. QED
        BY <4>3, <4>4, <4>5
    <3>3. QED
      BY <1>1, <1>12, <3>1, <3>2
  <2>3. QED
    BY <1>5, <2>1, <2>2 DEF Runs
<1>9. SumOf(u) = j[n + m]
  BY <1>5, <1>8, SumIs
<1>10. m \in 0 .. m
  BY <1>12
<1>11. QED
  BY <1>2, <1>3, <1>4, <1>7, <1>9, <1>10

(* A sequence that differs in one place.                                     *)
LEMMA SumOfChange ==
    ASSUME NEW s \in Seq(Int), NEW t \in Seq(Int), Len(t) = Len(s), NEW p \in 1 .. Len(s),
           \A k \in 1 .. Len(s) : k # p => t[k] = s[k]
    PROVE  SumOf(t) = SumOf(s) + (t[p] - s[p])
<1>1. PICK n : n = Len(s) /\ n \in Nat
  OBVIOUS
<1>2. PICK h : Runs(h, s) /\ SumOf(s) = h[n] /\ \A k \in 0 .. n : h[k] \in Int
  BY <1>1, SumRuns
<1>3. PICK d : d = t[p] - s[p] /\ d \in Int
  BY <1>1
<1>4. PICK j : j = [k \in 0 .. n |-> IF k >= p THEN h[k] + d ELSE h[k]]
  OBVIOUS
<1>5. Runs(j, t)
  <2>1. j[0] = 0
    BY <1>1, <1>2, <1>4 DEF Runs
  <2>2. ASSUME NEW k \in 1 .. n PROVE j[k] = j[k - 1] + t[k]
    <3>1. k \in 0 .. n /\ k - 1 \in 0 .. n /\ h[k] = h[k - 1] + s[k]
      BY <1>1, <1>2 DEF Runs
    <3>2. h[k] \in Int /\ h[k - 1] \in Int /\ s[k] \in Int /\ t[k] \in Int
      BY <1>1, <1>2, <3>1
    <3>3. j[k] = (IF k >= p THEN h[k] + d ELSE h[k]) /\ j[k - 1] = IF k - 1 >= p THEN h[k - 1] + d ELSE h[k - 1]
      BY <1>4, <3>1
    <3>4. CASE k = p
      <4>1. t[k] = s[k] + d
        BY <1>3, <3>2, <3>4
      <4>2. k >= p /\ ~(k - 1 >= p)
        BY <1>1, <3>4
      <4>3. j[k] = h[k] + d /\ j[k - 1] = h[k - 1]
        BY <3>3, <4>2
      <4>4. PICK a, b, x, y : a = h[k] /\ b = h[k - 1] /\ x = s[k] /\ y = t[k]
        OBVIOUS
      <4>5. a \in Int /\ b \in Int /\ x \in Int /\ y \in Int /\ a = b + x
        BY <3>1, <3>2, <4>4
      <4>6. y = x + d /\ j[k] = a + d /\ j[k - 1] = b
        BY <4>1, <4>3, <4>4
      <4>8. d \in Int
        BY <1>3
      <4>9. a + d = b + (x + d)
        BY <4>5, <4>8
      <4>7. QED
        BY <4>4, <4>6, <4>9
    <3>5. CASE k # p
      <4>1. t[k] = s[k]
        BY <1>1, <3>5
      <4>2. (k >= p) <=> (k - 1 >= p)
        BY <1>1, <3>5
      <4>3. \/ j[k] = h[k] + d /\ j[k - 1] = h[k - 1] + d
            \/ j[k] = h[k] /\ j[k - 1] = h[k - 1]
        BY <3>3, <4>2
      <4>4. PICK a, b, x, y : a = h[k] /\ b = h[k - 1] /\ x = s[k] /\ y = t[k]
        OBVIOUS
      <4>5. a \in Int /\ b \in Int /\ x \in Int /\ y \in Int /\ a = b + x
        BY <3>1, <3>2, <4>4
      <4>6. y = x /\ ((j[k] = a + d /\ j[k - 1] = b + d) \/ (j[k] = a /\ j[k - 1] = b))
        BY <4>1, <4>3, <4>4
      <4>8. d \in Int
        BY <1>3
      <4>9. a + d = (b + d) + x
        BY <4>5, <4>8
      <4>7. QED
        BY <4>4, <4>5, <4>6, <4>9, <4>1
    <3>6. QED
      BY <3>4, <3>5
  <2>3. QED
    BY <1>1, <2>1, <2>2 DEF Runs
<1>6. SumOf(t) = j[n]
  BY <1>1, <1>5, SumIs
<1>7. QED
  BY <1>1, <1>2, <1>3, <1>4, <1>6

(* The same order, place by place.                                           *)
LEMMA SumOfLess ==
    ASSUME NEW s \in Seq(Int), NEW t \in Seq(Int), Len(t) = Len(s),
           \A k \in 1 .. Len(s) : t[k] <= s[k]
    PROVE  SumOf(t) <= SumOf(s)
<1>1. PICK n : n = Len(s) /\ n \in Nat
  OBVIOUS
<1>2. PICK h : Runs(h, s) /\ SumOf(s) = h[n] /\ \A k \in 0 .. n : h[k] \in Int
  BY <1>1, SumRuns
<1>3. PICK i : Runs(i, t) /\ SumOf(t) = i[n] /\ \A k \in 0 .. n : i[k] \in Int
  BY <1>1, SumRuns
<1>. DEFINE Good == {k \in 0 .. n : i[k] <= h[k]}
<1>4. 0 \in Good
  BY <1>1, <1>2, <1>3 DEF Runs
<1>5. ASSUME NEW k \in 0 .. n, k \in Good, k < n PROVE k + 1 \in Good
  <2>1. k + 1 \in 1 .. n /\ (k + 1) - 1 = k /\ k + 1 \in 0 .. n
    BY <1>1, <1>5
  <2>2. h[k + 1] = h[k] + s[k + 1] /\ i[k + 1] = i[k] + t[k + 1]
    BY <1>1, <1>2, <1>3, <2>1 DEF Runs
  <2>3. /\ s[k + 1] \in Int /\ t[k + 1] \in Int /\ t[k + 1] <= s[k + 1] /\ h[k] \in Int /\ i[k] \in Int
        /\ i[k] <= h[k]
    BY <1>1, <1>2, <1>3, <1>5, <2>1
  <2>4. QED
    BY <2>1, <2>2, <2>3
<1>. HIDE DEF Good
<1>6. \A k \in 0 .. n : k \in Good
  BY <1>1, <1>4, <1>5, UpTo
<1>7. n \in Good
  BY <1>1, <1>6
<1>8. QED
  BY <1>1, <1>2, <1>3, <1>7 DEF Good

-----------------------------------------------------------------------------
(* The evidence of a file, and what is written of it.                        *)

TextOf(f) == [status |-> "success", why |-> "none", code |-> "none", chars |-> f.chars, cut |-> f.cut]
Blank == [status |-> "success", why |-> "pdf_no_text_in_parse_window", code |-> "none", chars |-> 0,
          cut |-> FALSE]
FailWhys == RejectWhys \cup {"source_version_changed", "parse_error"}
FailCodes == {"SOURCE_VERSION_CHANGED", "SOURCE_GUARD_UNAVAILABLE", "PROFILE_ROUTE_INVARIANT",
              "PARSER_TIMEOUT", "PARSER_FAILED", "PDF_PROTECTED", "INTERNAL_ERROR"}
Fails(e) == e.status \in {"error", "timeout"} /\ e.why \in FailWhys /\ e.code \in FailCodes
Omits(e) == e.status = "not_parsed" /\ e.why \in OmitWhys \cup {"runtime_deadline_exhausted"}

(* Discovery's promises about a file: its path is the end of its absolute    *)
(* path, and its parser cuts its text.                                       *)
Bounded(f) == f.rel <= f.abs /\ (Verdict(f) \in Routes => f.chars <= MaxExcerpt(Verdict(f)))

LEMMA FilesBounded ==
    ASSUME scan \in Scans, NEW i \in Index
    PROVE  Files[i] \in Source /\ Bounded(Files[i])
<1>1. Files[i] \in Source
  BY FilesTyped
<1>2. Bounded(Files[i])
  BY SchedulerAssumption DEF Files, Index, Bounded
<1>3. QED
  BY <1>1, <1>2

LEMMA TextFits ==
    ASSUME NEW f \in Source, Bounded(f), Verdict(f) \in Routes
    PROVE  /\ RenderedChars(f, TextOf(f)) \in Int
           /\ RenderedChars(f, TextOf(f)) + 2 <= ReservedDelta(f, Verdict(f))
<1>1. PICK e : e = TextOf(f)
  OBVIOUS
<1>2. f.rel \in Nat /\ f.abs \in Nat /\ f.chars \in Nat /\ f.rel <= f.abs
  BY Types7 DEF Bounded
<1>3. e.status = "success" /\ e.why = "none" /\ e.chars = f.chars /\ e.chars \in Nat
  BY <1>1, <1>2 DEF TextOf
<1>4. PICK x, b : x = RenderedChars(f, e) /\ b = BodyChars(f, e.chars)
  OBVIOUS
<1>5. x \in Int /\ (x <= f.rel + 254 \/ x <= f.rel + 223 + b)
  BY <1>3, <1>4, SectionCharsInt
<1>6. b \in Int /\ b <= f.chars /\ b <= PerFile
  BY <1>3, <1>4, BodyCharsInt
<1>7. PICK m : m = MaxExcerpt(Verdict(f))
  OBVIOUS
<1>8. m \in Nat /\ f.chars <= m /\ PerFile \in Nat
  BY <1>7, BudgetAssumption DEF MaxExcerpt, Bounded
<1>9. PICK l : l = Least(PerFile, m) /\ l \in Nat /\ b <= l
  BY <1>6, <1>8, <1>2 DEF Least
<1>10. PICK d : d = ReservedDelta(f, Verdict(f))
  OBVIOUS
<1>11. d \in Int /\ d >= f.abs + 427 + l /\ d >= f.abs + 427
  BY <1>7, <1>9, <1>10, ReservedDeltaOf
<1>12. x + 2 <= d
  BY <1>2, <1>5, <1>6, <1>9, <1>11
<1>13. QED
  BY <1>1, <1>4, <1>5, <1>10, <1>12

LEMMA BlankFits ==
    ASSUME NEW f \in Source, Bounded(f), NEW route
    PROVE  /\ RenderedChars(f, Blank) \in Int
           /\ RenderedChars(f, Blank) + 2 <= ReservedDelta(f, route)
<1>1. PICK e : e = Blank
  OBVIOUS
<1>2. f.rel \in Nat /\ f.abs \in Nat /\ f.rel <= f.abs
  BY Types7 DEF Bounded
<1>3. e.status = "success" /\ e.why = "pdf_no_text_in_parse_window" /\ e.chars = 0 /\ e.chars \in Nat
  BY <1>1 DEF Blank
<1>4. PICK x, b : x = RenderedChars(f, e) /\ b = BodyChars(f, e.chars)
  OBVIOUS
<1>5. x \in Int /\ (x <= f.rel + 254 \/ x <= f.rel + 223 + b)
  BY <1>3, <1>4, SectionCharsInt
<1>6. b \in Int /\ b <= 0
  BY <1>3, <1>4, BodyCharsInt
<1>10. PICK d : d = ReservedDelta(f, route)
  OBVIOUS
<1>11. d \in Int /\ d >= f.abs + 427
  BY <1>10, ReservedDeltaOf
<1>12. x + 2 <= d
  BY <1>2, <1>5, <1>6, <1>11
<1>13. QED
  BY <1>1, <1>4, <1>5, <1>10, <1>12

LEMMA FailureFits ==
    ASSUME NEW f \in Source, Bounded(f), NEW e, Fails(e), NEW route
    PROVE  /\ RenderedChars(f, e) \in Int
           /\ RenderedChars(f, e) + 2 <= ReservedDelta(f, route)
<1>1. PICK why, code : why = Chars[e.why] /\ code = Chars[e.code]
  OBVIOUS
<1>2. why \in Nat /\ why <= 24
  <2>1. \A w \in FailWhys : Chars[w] \in Nat /\ Chars[w] <= 24
    BY DEF FailWhys, RejectWhys, Chars
  <2>2. QED
    BY <1>1, <2>1 DEF Fails
<1>3. code \in Nat /\ code <= 24
  <2>1. \A w \in FailCodes : Chars[w] \in Nat /\ Chars[w] <= 24
    BY DEF FailCodes, Chars
  <2>2. QED
    BY <1>1, <2>1 DEF Fails
<1>4. e.why # "none"
  BY DEF Fails, FailWhys, RejectWhys
<1>5. Action(f, e)[2] = e.why
  <2>1. Action(f, e) = <<"error", e.why>>
    BY <1>4 DEF Action, Fails
  <2>2. QED
    BY <2>1
<1>6. RenderedChars(f, e) = 21 + f.rel + why + code + 1
  BY <1>1, <1>5 DEF RenderedChars, ErrorChars, Fails
<1>7. f.rel \in Nat /\ f.abs \in Nat /\ f.rel <= f.abs
  BY Types7 DEF Bounded
<1>10. PICK d : d = ReservedDelta(f, route)
  OBVIOUS
<1>11. d \in Int /\ d >= f.abs + 152
  BY <1>10, ReservedDeltaOf
<1>12. QED
  BY <1>2, <1>3, <1>6, <1>7, <1>10, <1>11

LEMMA OmissionWritesNothing ==
    ASSUME NEW f, NEW e, Omits(e)
    PROVE  RenderedChars(f, e) = 0
BY DEF Omits, RenderedChars

(* What a file can show before it is final, and what then is known of it.    *)
Shows(i, e) ==
    \/ Omits(e)
    \/ Fails(e) /\ (adm[i].act = "admit" => result[i].status # "success" /\ cls[i].s # "no_text")
    \/ e = TextOf(Files[i]) /\ adm[i].act = "admit" /\ result[i].status = "success" /\ cls[i].s # "no_text"
    \/ e = Blank /\ adm[i].act = "admit" /\ result[i].status # "success" /\ cls[i].s = "no_text"

LEMMA ClassifierFails ==
    ASSUME NEW i
    PROVE  Fails(ClassifierFailure(i))
<1>1. \A s, w, c : Failed(s, w, c).status = s /\ Failed(s, w, c).why = w /\ Failed(s, w, c).code = c
  BY DEF Failed
<1>2. PICK e : e = ClassifierFailure(i)
  OBVIOUS
<1>3. \/ cls[i].code = "SOURCE_VERSION_CHANGED" /\ e = Failed("error", "parse_error", cls[i].code)
      \/ cls[i].code = "PDF_PROTECTED" /\ e = Failed("error", "parse_error", cls[i].code)
      \/ cls[i].code = "PARSER_TIMEOUT" /\ e = Failed("timeout", "parse_error", cls[i].code)
      \/ e = Failed("error", "parse_error", "PARSER_FAILED")
  BY <1>2 DEF ClassifierFailure
<1>4. QED
  BY <1>1, <1>2, <1>3 DEF Fails, FailWhys, FailCodes

LEMMA EvidenceShows ==
    ASSUME NEW i, Closed(i), NEW res, res[i] = result[i] \/ res[i] = FinalResult(i)
    PROVE  Shows(i, Evidence(i, res))
<1>1. PICK a, r, e : a = ActionOf(i) /\ r = res[i] /\ e = Evidence(i, res)
  OBVIOUS
<1>0. \A s, w, c : Failed(s, w, c).status = s /\ Failed(s, w, c).why = w /\ Failed(s, w, c).code = c
  BY DEF Failed
<1>2. /\ ResultOf(r) /\ r \in Results
      /\ r.code # "SOURCE_VERSION_CHANGED" => r = result[i]
      /\ r.code = "SOURCE_VERSION_CHANGED" =>
            result[i].status \in {"error", "timeout"} \/ (result[i].status = "none" /\ cls[i].s = "error")
  <2>1. ResultOf(result[i]) /\ result[i] \in Results
    BY DEF Closed, ResultOf
  <2>2. result[i].code = "SOURCE_VERSION_CHANGED" => result[i].status = "error"
    BY <2>1 DEF ResultOf
  <2>3. CASE r = result[i]
    BY <2>1, <2>2, <2>3
  <2>4. CASE r = FinalResult(i) /\ r # result[i]
    <3>1. i \in taint /\ result[i].status = "none" /\ r = ChangedResult(0)
      BY <2>4 DEF FinalResult
    <3>2. r.code = "SOURCE_VERSION_CHANGED"
      BY <3>1 DEF ChangedResult
    <3>3. cls[i].s = "error"
      BY <3>1 DEF Closed
    <3>4. ResultOf(r) /\ r \in Results
      BY <2>4, FinalOf
    <3>5. QED
      BY <3>1, <3>2, <3>3, <3>4
  <2>5. QED
    BY <1>1, <2>3, <2>4
<1>3. /\ r.status = "none" => r = NoResult
      /\ r.status = "success" => r.code = "none"
      /\ r.status \in {"error", "timeout"} => r.code # "none"
      /\ r.status \in {"none", "success", "error", "timeout"} /\ r.code \in ResultCodes
  <2>1. r.status \in {"none", "success", "error", "timeout"} /\ r.code \in ResultCodes
    BY <1>2 DEF Results
  <2>2. QED
    BY <1>2, <2>1 DEF ResultOf
<1>4. /\ result[i].status # "none" => adm[i].act = "admit" /\ i \notin runtime /\ ~NoText(i)
      /\ adm[i].act = "admit" => result[i].status # "none" \/ i \in runtime \/ NoText(i)
  BY DEF Closed
<1>5. result[i].status # "none" => cls[i].s # "no_text"
  BY <1>4, AdmittedFile
<1>6. CASE r.code = "SOURCE_VERSION_CHANGED"
  <2>1. e = Failed("error", "source_version_changed", r.code)
    BY <1>1, <1>6 DEF Evidence
  <2>2. Fails(e)
    BY <1>0, <1>6, <2>1 DEF Fails, FailWhys, FailCodes
  <2>3. result[i].status # "success" /\ cls[i].s # "no_text"
    BY <1>2, <1>5, <1>6
  <2>5. QED
    BY <1>1, <2>2, <2>3 DEF Shows
<1>7. CASE r.code # "SOURCE_VERSION_CHANGED" /\ a.act \in {"not_parsed", "reject", "classifier_failed"}
  <2>1. adm[i].act # "admit"
    BY <1>1, <1>7 DEF ActionOf
  <2>4. CASE a.act = "not_parsed"
    <3>1. e = Omitted(a.why)
      BY <1>1, <1>7, <2>4 DEF Evidence
    <3>2. e.status = "not_parsed" /\ e.why = a.why
      BY <3>1 DEF Omitted
    <3>3. a.why \in OmitWhys
      BY <1>1, <2>1, <2>4, OtherFile
    <3>4. QED
      BY <1>1, <3>2, <3>3 DEF Shows, Omits
  <2>5. CASE a.act = "reject"
    <3>1. e = Failed("error", a.why, IF a.why = "source_guard_unavailable"
                                     THEN "SOURCE_GUARD_UNAVAILABLE" ELSE "PROFILE_ROUTE_INVARIANT")
      BY <1>1, <1>7, <2>5 DEF Evidence
    <3>2. a.why \in RejectWhys
      <4>1. PlanOf(Files[i], plan[i]) /\ Settled(i)
        BY DEF Closed
      <4>2. CASE adm[i].act = "none"
        <5>1. a = plan[i]
          BY <1>1, <4>2 DEF ActionOf
        <5>2. QED
          BY <2>5, <4>1, <5>1 DEF PlanOf
      <4>3. CASE adm[i].act # "none"
        <5>1. a = adm[i] /\ Decided(plan[i], cls[i].s, adm[i])
          BY <1>1, <4>1, <4>3 DEF ActionOf, Settled
        <5>2. plan[i].act # "admit"
          BY <2>5, <5>1 DEF Decided
        <5>3. plan[i].act = "reject" /\ a.why = plan[i].why
          BY <2>5, <5>1, <5>2 DEF Decided
        <5>4. QED
          BY <4>1, <5>3 DEF PlanOf
      <4>4. QED
        BY <4>2, <4>3
    <3>3. Fails(e)
      BY <1>0, <3>1, <3>2 DEF Fails, FailWhys, FailCodes
    <3>4. QED
      BY <1>1, <2>1, <3>3 DEF Shows
  <2>6. CASE a.act = "classifier_failed"
    <3>1. e = ClassifierFailure(i)
      BY <1>1, <1>7, <2>6 DEF Evidence
    <3>2. QED
      BY <1>1, <2>1, <3>1, ClassifierFails DEF Shows
  <2>7. QED
    BY <1>7, <2>4, <2>5, <2>6
<1>8. CASE r.code # "SOURCE_VERSION_CHANGED" /\ a.act \notin {"not_parsed", "reject", "classifier_failed"}
  <2>1. e = IF i \in runtime THEN Omitted("runtime_deadline_exhausted")
            ELSE IF r.status = "success"
            THEN [status |-> "success", why |-> "none", code |-> "none",
                  chars |-> Files[i].chars, cut |-> Files[i].cut]
            ELSE IF r.status # "none" THEN Failed(r.status, "parse_error", r.code)
            ELSE IF cls[i].s \in {"no_text", "none"}
            THEN [Omitted("pdf_no_text_in_parse_window") EXCEPT !.status = "success"]
            ELSE Failed("error", "parse_error", "INTERNAL_ERROR")
    BY <1>1, <1>8 DEF Evidence
  <2>2. r = result[i]
    BY <1>2, <1>8
  <2>3. CASE i \in runtime
    <3>1. e = Omitted("runtime_deadline_exhausted")
      BY <2>1, <2>3
    <3>2. Omits(e)
      BY <3>1 DEF Omits, Omitted
    <3>5. QED
      BY <1>1, <3>2 DEF Shows
  <2>4. CASE i \notin runtime /\ r.status = "success"
    <3>1. e = TextOf(Files[i])
      BY <2>1, <2>4 DEF TextOf
    <3>2. adm[i].act = "admit" /\ result[i].status = "success" /\ cls[i].s # "no_text"
      BY <1>4, <1>5, <2>2, <2>4
    <3>3. QED
      BY <1>1, <3>1, <3>2 DEF Shows
  <2>5. CASE i \notin runtime /\ r.status \in {"error", "timeout"}
    <3>1. e = Failed(r.status, "parse_error", r.code)
      BY <2>1, <2>5
    <3>2. Fails(e)
      BY <1>0, <1>3, <2>5, <3>1 DEF Fails, FailWhys, FailCodes, ResultCodes
    <3>4. QED
      BY <1>1, <1>5, <2>2, <2>5, <3>2 DEF Shows
  <2>6. CASE i \notin runtime /\ r.status = "none"
    <3>1. adm[i].act = "admit"
      BY <1>1, <1>8, <2>6, OtherFile
    <3>2. NoText(i) /\ cls[i].s = "no_text"
      BY <1>4, <2>2, <2>6, <3>1 DEF NoText
    <3>3. e = [Omitted("pdf_no_text_in_parse_window") EXCEPT !.status = "success"]
      BY <2>1, <2>6, <3>2
    <3>4. e = Blank
      BY <3>3 DEF Blank, Omitted
    <3>5. QED
      BY <1>1, <2>2, <2>6, <3>1, <3>2, <3>4 DEF Shows
  <2>7. QED
    BY <1>3, <2>3, <2>4, <2>5, <2>6
<1>9. QED
  BY <1>6, <1>7, <1>8

-----------------------------------------------------------------------------
(* The sections of a context.                                                *)

SectionNext(acc, i, fs, es, S) ==
    CHOOSE next \in {IF es[i].status \in S THEN Append(a, RenderedChars(fs[i], es[i])) ELSE a : a \in {acc}} :
        TRUE
SectionsTo(q, n, seq, fs, es, S) ==
    q = [k \in 0 .. n |-> IF k = 0 THEN <<>> ELSE SectionNext(q[k - 1], seq[k], fs, es, S)]

(* After each file: its section is appended or it has none.                  *)
Collected(q, n, fs, es, S) ==
    /\ q[0] = <<>> /\ \A k \in 0 .. n : q[k] \in Seq(Int)
    /\ \A k \in 1 .. n : q[k] = IF es[k].status \in S THEN Append(q[k - 1], RenderedChars(fs[k], es[k]))
                                ELSE q[k - 1]

LEMMA SectionNextIs ==
    ASSUME NEW acc, NEW i, NEW fs, NEW es, NEW S
    PROVE  SectionNext(acc, i, fs, es, S)
           = IF es[i].status \in S THEN Append(acc, RenderedChars(fs[i], es[i])) ELSE acc
<1>1. PICK x : x = IF es[i].status \in S THEN Append(acc, RenderedChars(fs[i], es[i])) ELSE acc
  OBVIOUS
<1>2. {IF es[i].status \in S THEN Append(a, RenderedChars(fs[i], es[i])) ELSE a : a \in {acc}} = {x}
  BY <1>1
<1>3. SectionNext(acc, i, fs, es, S) = CHOOSE y \in {x} : TRUE
  BY <1>2 DEF SectionNext
<1>4. QED
  BY <1>1, <1>3, TheOnly

LEMMA SectionsExist ==
    ASSUME NEW n \in Nat, NEW seq, \A k \in 1 .. n : seq[k] = k, NEW fs, NEW es, NEW S,
           \A k \in 1 .. n : es[k].status \in S => RenderedChars(fs[k], es[k]) \in Int
    PROVE  \E q : SectionsTo(q, n, seq, fs, es, S)
<1>1. PICK F : F = [k \in 1 .. n |-> [acc \in Seq(Int) |->
                      IF es[k].status \in S THEN Append(acc, RenderedChars(fs[k], es[k])) ELSE acc]]
  OBVIOUS
<1>2. F \in [1 .. n -> [Seq(Int) -> Seq(Int)]]
  <2>1. ASSUME NEW k \in 1 .. n, NEW acc \in Seq(Int)
        PROVE  (IF es[k].status \in S THEN Append(acc, RenderedChars(fs[k], es[k])) ELSE acc) \in Seq(Int)
    <3>1. CASE es[k].status \in S
      <4>1. PICK x \in Int : x = RenderedChars(fs[k], es[k])
        BY <3>1
      <4>2. Append(acc, x) \in Seq(Int)
        OBVIOUS
      <4>3. QED
        BY <3>1, <4>1, <4>2
    <3>2. CASE es[k].status \notin S
      BY <3>2
    <3>3. QED
      BY <3>1, <3>2
  <2>2. QED
    BY <1>1, <2>1
<1>3. PICK start \in Seq(Int) : start = <<>>
  <2>1. <<>> \in Seq(Int)
    OBVIOUS
  <2>2. QED
    BY <2>1
<1>4. PICK q : Passes(q, n, Seq(Int), start, F)
  BY <1>2, PassExists
<1>5. q \in [0 .. n -> Seq(Int)] /\ q[0] = start /\ \A k \in 1 .. n : q[k] = F[k][q[k - 1]]
  BY <1>4 DEF Passes
<1>6. ASSUME NEW k \in 1 .. n PROVE q[k] = SectionNext(q[k - 1], seq[k], fs, es, S)
  <2>1. k - 1 \in 0 .. n
    OBVIOUS
  <2>2. q[k - 1] \in Seq(Int)
    BY <1>5, <2>1
  <2>3. q[k] = IF es[k].status \in S THEN Append(q[k - 1], RenderedChars(fs[k], es[k])) ELSE q[k - 1]
    BY <1>1, <1>5, <2>2
  <2>4. seq[k] = k
    OBVIOUS
  <2>5. SectionNext(q[k - 1], k, fs, es, S)
        = IF es[k].status \in S THEN Append(q[k - 1], RenderedChars(fs[k], es[k])) ELSE q[k - 1]
    BY SectionNextIs
  <2>6. QED
    BY <2>3, <2>4, <2>5
<1>7. \A k \in 0 .. n : k # 0 => k \in 1 .. n
  OBVIOUS
<1>8. \A k \in 0 .. n : q[k] = IF k = 0 THEN <<>> ELSE SectionNext(q[k - 1], seq[k], fs, es, S)
  BY <1>3, <1>5, <1>6, <1>7
<1>9. q = [k \in 0 .. n |-> q[k]]
  BY <1>5
<1>10. q = [k \in 0 .. n |-> IF k = 0 THEN <<>> ELSE SectionNext(q[k - 1], seq[k], fs, es, S)]
  BY <1>8, <1>9, Zenon
<1>11. QED
  BY <1>10, Zenon DEF SectionsTo

LEMMA SectionsOf ==
    ASSUME NEW fs, Len(fs) \in Nat, NEW es, NEW S,
           \A k \in 1 .. Len(fs) : es[k].status \in S => RenderedChars(fs[k], es[k]) \in Int
    PROVE  \E q : Collected(q, Len(fs), fs, es, S) /\ Sections(fs, es, S) = q[Len(fs)]
<1>1. PICK n \in Nat : n = Len(fs)
  OBVIOUS
<1>. DEFINE seq == [i \in 1 .. Len(fs) |-> i]
<1>2. seq \in Seq(1 .. n)
  BY <1>1
<1>3. Len(seq) = n /\ \A k \in 1 .. n : seq[k] = k
  BY <1>1, <1>2
<1>4. \E q : SectionsTo(q, Len(seq), seq, fs, es, S)
  <2>. HIDE DEF seq
  <2>1. \A k \in 1 .. n : es[k].status \in S => RenderedChars(fs[k], es[k]) \in Int
    BY <1>1
  <2>2. QED
    BY <1>3, <2>1, SectionsExist
<1>5. PICK q : SectionsTo(q, Len(seq), seq, fs, es, S) /\ Sections(fs, es, S) = q[Len(seq)]
  BY <1>4 DEF SectionsTo, SectionNext, Sections, Pass
<1>. HIDE DEF seq
<1>6. SectionsTo(q, n, seq, fs, es, S) /\ Sections(fs, es, S) = q[n]
  BY <1>3, <1>5
<1>7. ASSUME NEW k \in 1 .. n
      PROVE  q[k] = IF es[k].status \in S THEN Append(q[k - 1], RenderedChars(fs[k], es[k])) ELSE q[k - 1]
  <2>1. k \in 0 .. n /\ k # 0
    OBVIOUS
  <2>2. q[k] = SectionNext(q[k - 1], seq[k], fs, es, S)
    BY <1>6, <2>1 DEF SectionsTo
  <2>3. seq[k] = k
    BY <1>3
  <2>4. SectionNext(q[k - 1], k, fs, es, S)
        = IF es[k].status \in S THEN Append(q[k - 1], RenderedChars(fs[k], es[k])) ELSE q[k - 1]
    BY SectionNextIs
  <2>5. QED
    BY <2>2, <2>3, <2>4
<1>8. q[0] = <<>>
  BY <1>6 DEF SectionsTo
<1>. DEFINE Good == {k \in 0 .. n : q[k] \in Seq(Int)}
<1>9. 0 \in Good
  <2>1. <<>> \in Seq(Int) /\ 0 \in 0 .. n
    OBVIOUS
  <2>2. QED
    BY <1>8, <2>1
<1>10. ASSUME NEW k \in 0 .. n, k \in Good, k < n PROVE k + 1 \in Good
  <2>1. k + 1 \in 1 .. n /\ (k + 1) - 1 = k /\ k + 1 \in 0 .. n
    BY <1>10
  <2>2. PICK s \in Seq(Int) : s = q[k]
    BY <1>10
  <2>6. q[k + 1] = IF es[k + 1].status \in S THEN Append(s, RenderedChars(fs[k + 1], es[k + 1])) ELSE s
    BY <1>7, <2>1, <2>2
  <2>3. CASE es[k + 1].status \in S
    <3>1. PICK x \in Int : x = RenderedChars(fs[k + 1], es[k + 1])
      BY <1>1, <2>1, <2>3
    <3>2. q[k + 1] = Append(s, x)
      BY <2>3, <2>6, <3>1
    <3>3. Append(s, x) \in Seq(Int)
      OBVIOUS
    <3>4. QED
      BY <2>1, <3>2, <3>3
  <2>4. CASE es[k + 1].status \notin S
    BY <2>1, <2>2, <2>4, <2>6
  <2>5. QED
    BY <2>3, <2>4
<1>. HIDE DEF Good
<1>11. \A k \in 0 .. n : k \in Good
  BY <1>9, <1>10, UpTo
<1>12. Collected(q, n, fs, es, S)
  BY <1>7, <1>8, <1>11 DEF Collected, Good
<1>13. QED
  BY <1>1, <1>6, <1>12

(* Sections of the files in a status, each with its separator, take no more  *)
(* than what is kept for the files.                                          *)
LEMMA SectionsWithin ==
    ASSUME NEW fs, Len(fs) \in Nat, NEW es, NEW S, NEW r \in Seq(Int), Len(r) = Len(fs),
           \A k \in 1 .. Len(fs) :
              IF es[k].status \in S
              THEN RenderedChars(fs[k], es[k]) \in Int /\ RenderedChars(fs[k], es[k]) + 2 <= r[k]
              ELSE 0 <= r[k]
    PROVE  /\ Sections(fs, es, S) \in Seq(Int)
           /\ SumOf(Sections(fs, es, S)) + 2 * Len(Sections(fs, es, S)) <= SumOf(r)
<1>1. PICK n \in Nat : n = Len(fs)
  OBVIOUS
<1>2. \A k \in 1 .. Len(fs) : es[k].status \in S => RenderedChars(fs[k], es[k]) \in Int
  OBVIOUS
<1>3. PICK q : Collected(q, n, fs, es, S) /\ Sections(fs, es, S) = q[n]
  BY <1>1, <1>2, SectionsOf
<1>4. PICK h : Runs(h, r) /\ SumOf(r) = h[n] /\ \A k \in 0 .. n : h[k] \in Int
  BY <1>1, SumRuns
<1>5. /\ q[0] = <<>> /\ \A k \in 0 .. n : q[k] \in Seq(Int)
      /\ \A k \in 1 .. n : q[k] = IF es[k].status \in S THEN Append(q[k - 1], RenderedChars(fs[k], es[k]))
                                  ELSE q[k - 1]
  BY <1>3 DEF Collected
<1>. DEFINE Good == {k \in 0 .. n : SumOf(q[k]) + 2 * Len(q[k]) <= h[k]}
<1>6. 0 \in Good
  <2>1. h[0] = 0
    BY <1>4 DEF Runs
  <2>2. Len(<<>>) = 0
    OBVIOUS
  <2>3. QED
    BY <1>5, <2>1, <2>2, SumOfNone
<1>7. ASSUME NEW k \in 0 .. n, k \in Good, k < n PROVE k + 1 \in Good
  <2>1. k + 1 \in 1 .. n /\ (k + 1) - 1 = k /\ k + 1 \in 0 .. n
    BY <1>7
  <2>2. PICK s \in Seq(Int) : s = q[k]
    BY <1>5
  <2>3. PICK m \in Nat, x \in Int : m = Len(s) /\ x = SumOf(s)
    BY SumRuns
  <2>4. PICK a \in Int, b \in Int, c \in Int : a = h[k] /\ b = h[k + 1] /\ c = r[k + 1]
    <3>1. k + 1 \in 1 .. Len(r)
      BY <1>1, <2>1
    <3>2. r[k + 1] \in Int
      BY <3>1
    <3>3. h[k] \in Int /\ h[k + 1] \in Int
      BY <1>4, <2>1
    <3>4. QED
      BY <3>2, <3>3
  <2>5. b = a + c
    BY <1>1, <1>4, <2>1, <2>4 DEF Runs
  <2>6. x + 2 * m <= a
    BY <1>7, <2>2, <2>3, <2>4
  <2>7. CASE es[k + 1].status \in S
    <3>1. PICK y \in Int : y = RenderedChars(fs[k + 1], es[k + 1]) /\ y + 2 <= c
      BY <1>1, <2>1, <2>4, <2>7
    <3>2. q[k + 1] = Append(s, y)
      BY <1>5, <2>1, <2>2, <2>7, <3>1
    <3>3. SumOf(Append(s, y)) = x + y
      BY <2>3, SumOfAppend
    <3>4. Len(Append(s, y)) = m + 1
      BY <2>3
    <3>5. (x + y) + 2 * (m + 1) <= b
      BY <2>5, <2>6, <3>1
    <3>6. QED
      BY <2>1, <2>4, <3>2, <3>3, <3>4, <3>5
  <2>8. CASE es[k + 1].status \notin S
    <3>1. q[k + 1] = s
      BY <1>5, <2>1, <2>2, <2>8
    <3>2. 0 <= c
      BY <1>1, <2>1, <2>4, <2>8
    <3>3. x + 2 * m <= b
      BY <2>5, <2>6, <3>2
    <3>4. QED
      BY <2>1, <2>3, <2>4, <3>1, <3>3
  <2>9. QED
    BY <2>7, <2>8
<1>. HIDE DEF Good
<1>8. \A k \in 0 .. n : k \in Good
  BY <1>6, <1>7, UpTo
<1>9. n \in Good /\ n \in 0 .. n
  BY <1>8
<1>10. QED
  BY <1>3, <1>4, <1>5, <1>9 DEF Good

-----------------------------------------------------------------------------
(* The summary of what is left out.                                          *)

Tallies == [used : Int, other : Nat]
RowNext(acc, k, fs, es, limit) ==
    CHOOSE next \in {TakeRow(a, k, Members(fs, es, k), limit) : a \in {acc}} : TRUE
RowsTo(q, n, seq, fs, es, limit, used) ==
    q = [k \in 0 .. n |-> IF k = 0 THEN [used |-> used, other |-> 0]
                          ELSE RowNext(q[k - 1], seq[k], fs, es, limit)]

LEMMA LeftOutFinite ==
    ASSUME NEW fs, Len(fs) \in Nat, NEW es, NEW T, T \subseteq LeftOut(fs, es)
    PROVE  Cardinality(T) \in Nat
<1>1. PICK a \in Int, b \in Int : a = 1 /\ b = Len(fs)
  OBVIOUS
<1>2. IsFiniteSet(a .. b)
  BY FS_Interval
<1>3. T \in SUBSET (a .. b)
  BY <1>1 DEF LeftOut
<1>4. IsFiniteSet(T)
  BY <1>2, <1>3, FS_Subset
<1>5. QED
  BY <1>4, FS_CardinalityType

LEMMA GroupsTyped ==
    /\ Len(Groups) = 49
    /\ \A k \in 1 .. 49 : Chars[Groups[k][1]] \in Nat /\ Chars[Groups[k][2]] \in Nat
<1>1. \A a \in 1 .. 7 : OmitReasons[a] \in OmitWhys \cup {"runtime_deadline_exhausted"}
  BY DEF OmitReasons, OmitWhys, BudgetReasons
<1>2. \A b \in 1 .. 7 : Extensions[b] \in Kinds
  BY DEF Extensions, Kinds
<1>3. \A w \in OmitWhys \cup {"runtime_deadline_exhausted"} : Chars[w] \in Nat
  BY DEF OmitWhys, BudgetReasons, Chars
<1>4. ASSUME NEW k \in 1 .. 49
      PROVE  \E w \in OmitWhys \cup {"runtime_deadline_exhausted"}, t \in Kinds : Groups[k] = <<w, t>>
  <2>1. PICK a, b : a = 1 + ((k - 1) \div 7) /\ b = 1 + ((k - 1) % 7)
    OBVIOUS
  <2>2. a \in 1 .. 7 /\ b \in 1 .. 7
    <3>1. PICK x \in Nat : x = k - 1 /\ x <= 48
      OBVIOUS
    <3>2. x \div 7 \in Nat /\ x \div 7 <= 6 /\ x % 7 \in 0 .. 6
      BY <3>1
    <3>3. QED
      BY <2>1, <3>1, <3>2
  <2>3. Groups[k] = <<OmitReasons[a], Extensions[b]>>
    BY <2>1 DEF Groups
  <2>4. QED
    BY <1>1, <1>2, <2>2, <2>3
<1>5. Len(Groups) = 49
  <2>1. PICK S : S = {Groups[k] : k \in 1 .. 49}
    OBVIOUS
  <2>2. Groups \in [1 .. 49 -> S]
    BY <2>1 DEF Groups
  <2>3. QED
    BY <2>2
<1>6. ASSUME NEW k \in 1 .. 49 PROVE Chars[Groups[k][1]] \in Nat /\ Chars[Groups[k][2]] \in Nat
  <2>1. PICK w \in OmitWhys \cup {"runtime_deadline_exhausted"}, t \in Kinds : Groups[k] = <<w, t>>
    BY <1>4
  <2>2. Groups[k][1] = w /\ Groups[k][2] = t
    BY <2>1
  <2>3. QED
    BY <1>3, <2>1, <2>2, CharsOf
<1>7. QED
  BY <1>5, <1>6

LEMMA TakeRowOf ==
    ASSUME NEW acc \in Tallies, NEW k, Chars[k[1]] \in Nat, Chars[k[2]] \in Nat, NEW n \in Nat, NEW limit
    PROVE  TakeRow(acc, k, n, limit) \in Tallies
<1>1. PICK u \in Int, o \in Nat : acc = [used |-> u, other |-> o]
  BY DEF Tallies
<1>2. PICK row \in Int : row = 28 + Chars[k[1]] + Chars[k[2]] + Digits(n) + 1
  BY DigitsNat
<1>3. TakeRow(acc, k, n, limit)
        = IF n = 0 THEN acc
          ELSE IF u + row <= limit THEN [used |-> u + row, other |-> o]
          ELSE [used |-> u, other |-> o + n]
  BY <1>1, <1>2 DEF TakeRow
<1>4. [used |-> u + row, other |-> o] \in Tallies /\ [used |-> u, other |-> o + n] \in Tallies
  BY DEF Tallies
<1>5. QED
  BY <1>3, <1>4

LEMMA SummaryRowsOf ==
    ASSUME NEW fs, Len(fs) \in Nat, NEW es, NEW used \in Int, NEW limit
    PROVE  SummaryRows(fs, es, used, limit) \in Tallies
<1>1. PICK n \in Nat : n = 49
  OBVIOUS
<1>2. Len(Groups) = n /\ \A k \in 1 .. n : Chars[Groups[k][1]] \in Nat /\ Chars[Groups[k][2]] \in Nat
  BY <1>1, GroupsTyped
<1>3. PICK seq : seq = Groups
  OBVIOUS
<1>4. PICK F : F = [k \in 1 .. n |-> [acc \in Tallies |-> TakeRow(acc, seq[k], Members(fs, es, seq[k]), limit)]]
  OBVIOUS
<1>5. F \in [1 .. n -> [Tallies -> Tallies]]
  <2>1. ASSUME NEW k \in 1 .. n, NEW acc \in Tallies
        PROVE  TakeRow(acc, seq[k], Members(fs, es, seq[k]), limit) \in Tallies
    <3>1. Members(fs, es, seq[k]) \in Nat
      <4>1. PICK T : T = {i \in LeftOut(fs, es) : <<es[i].why, fs[i].type>> = seq[k]}
        OBVIOUS
      <4>2. T \subseteq LeftOut(fs, es)
        BY <4>1
      <4>3. Cardinality(T) \in Nat
        BY <4>2, LeftOutFinite
      <4>4. QED
        BY <4>1, <4>3 DEF Members
    <3>2. PICK m \in Nat : m = Members(fs, es, seq[k])
      BY <3>1
    <3>3. PICK x : x = seq[k]
      OBVIOUS
    <3>4. Chars[x[1]] \in Nat /\ Chars[x[2]] \in Nat
      BY <1>2, <1>3, <3>3
    <3>5. TakeRow(acc, x, m, limit) \in Tallies
      BY <3>4, TakeRowOf
    <3>6. QED
      BY <3>2, <3>3, <3>5
  <2>2. QED
    BY <1>4, <2>1
<1>6. PICK start \in Tallies : start = [used |-> used, other |-> 0]
  BY DEF Tallies
<1>7. PICK q : Passes(q, n, Tallies, start, F)
  BY <1>5, PassExists
<1>8. q \in [0 .. n -> Tallies] /\ q[0] = start /\ \A k \in 1 .. n : q[k] = F[k][q[k - 1]]
  BY <1>7 DEF Passes
<1>9. ASSUME NEW k \in 1 .. n PROVE q[k] = RowNext(q[k - 1], seq[k], fs, es, limit)
  <2>1. k - 1 \in 0 .. n
    OBVIOUS
  <2>2. q[k - 1] \in Tallies
    BY <1>8, <2>1
  <2>3. q[k] = TakeRow(q[k - 1], seq[k], Members(fs, es, seq[k]), limit)
    BY <1>4, <1>8, <2>2
  <2>4. {TakeRow(a, seq[k], Members(fs, es, seq[k]), limit) : a \in {q[k - 1]}} = {q[k]}
    BY <2>3
  <2>5. QED
    BY <2>4, TheOnly DEF RowNext
<1>10. \A k \in 0 .. n : k # 0 => k \in 1 .. n
  OBVIOUS
<1>11. \A k \in 0 .. n : q[k] = IF k = 0 THEN [used |-> used, other |-> 0]
                                ELSE RowNext(q[k - 1], seq[k], fs, es, limit)
  BY <1>6, <1>8, <1>9, <1>10
<1>12. q = [k \in 0 .. n |-> q[k]]
  BY <1>8
<1>13. q = [k \in 0 .. n |-> IF k = 0 THEN [used |-> used, other |-> 0]
                             ELSE RowNext(q[k - 1], seq[k], fs, es, limit)]
  BY <1>11, <1>12, Zenon
<1>14. \E p : RowsTo(p, Len(Groups), Groups, fs, es, limit, used)
  BY <1>2, <1>3, <1>13 DEF RowsTo
<1>15. PICK p : /\ RowsTo(p, Len(Groups), Groups, fs, es, limit, used)
                /\ SummaryRows(fs, es, used, limit) = p[Len(Groups)]
  BY <1>14 DEF RowsTo, RowNext, SummaryRows, Pass
<1>16. RowsTo(p, n, seq, fs, es, limit, used) /\ SummaryRows(fs, es, used, limit) = p[n]
  BY <1>2, <1>3, <1>15
<1>. DEFINE Good == {k \in 0 .. n : p[k] = q[k]}
<1>17. \A k \in 0 .. n : p[k] = IF k = 0 THEN [used |-> used, other |-> 0]
                                ELSE RowNext(p[k - 1], seq[k], fs, es, limit)
  BY <1>16 DEF RowsTo
<1>18. 0 \in Good
  BY <1>11, <1>17
<1>19. ASSUME NEW k \in 0 .. n, k \in Good, k < n PROVE k + 1 \in Good
  <2>1. k + 1 \in 0 .. n /\ k + 1 # 0 /\ (k + 1) - 1 = k
    BY <1>19
  <2>2. p[k + 1] = RowNext(p[k], seq[k + 1], fs, es, limit)
    BY <1>17, <2>1
  <2>3. q[k + 1] = RowNext(q[k], seq[k + 1], fs, es, limit)
    BY <1>11, <2>1
  <2>4. QED
    BY <1>19, <2>1, <2>2, <2>3
<1>. HIDE DEF Good
<1>20. \A k \in 0 .. n : k \in Good
  BY <1>18, <1>19, UpTo
<1>21. p[n] = q[n] /\ q[n] \in Tallies
  <2>1. n \in 0 .. n
    OBVIOUS
  <2>2. n \in Good
    BY <1>20, <2>1
  <2>3. QED
    BY <1>8, <2>1, <2>2 DEF Good
<1>22. QED
  BY <1>16, <1>21

(* The summary that fits its reservation is two characters narrower: its     *)
(* last line needs no separator.                                             *)
LEMMA OmittedSummaryOf ==
    ASSUME NEW fs, Len(fs) \in Nat, NEW es, NEW g,
           \A i \in 1 .. Len(fs) : fs[i] \in Source /\ (es[i].status = "not_parsed" => Omits(es[i]))
    PROVE  /\ OmittedSummary(fs, es, g).chars \in Int
           /\ OmittedSummary(fs, es, g).fits =>
                 OmittedSummary(fs, es, g).chars + 2 <= OmittedReservation(g)
<1>1. PICK limit : limit = OmittedReservation(g)
  OBVIOUS
<1>2. PICK used : used = DetailsUsed(fs, es, g)
  OBVIOUS
<1>3. used \in Int
  <2>1. PICK n \in Nat : n = Len(fs)
    OBVIOUS
  <2>2. PICK D : D = LeftOut(fs, es) \cap DetailSlots(fs, g)
    OBVIOUS
  <2>3. PICK s : s = [i \in 1 .. n |-> IF i \in D THEN 42 + fs[i].rel + Chars[es[i].why] + Digits(fs[i].size) + 1
                                       ELSE 0]
    OBVIOUS
  <2>4. ASSUME NEW i \in 1 .. n PROVE s[i] \in Int
    <3>1. CASE i \in D
      <4>1. Omits(es[i]) /\ fs[i] \in Source
        BY <2>1, <2>2, <3>1 DEF LeftOut
      <4>2. Chars[es[i].why] \in Nat
        <5>1. PICK w \in OmitWhys \cup {"runtime_deadline_exhausted"} : w = es[i].why
          BY <4>1 DEF Omits
        <5>2. \A v \in OmitWhys \cup {"runtime_deadline_exhausted"} : Chars[v] \in Nat
          BY DEF OmitWhys, BudgetReasons, Chars
        <5>3. QED
          BY <5>1, <5>2
      <4>3. PICK a \in Nat, b \in Nat, c \in Nat : a = fs[i].rel /\ b = Chars[es[i].why] /\ c = Digits(fs[i].size)
        BY <4>1, <4>2, Types7, DigitsNat
      <4>4. s[i] = 42 + a + b + c + 1
        BY <2>3, <3>1, <4>3
      <4>5. QED
        BY <4>4
    <3>2. CASE i \notin D
      BY <2>3, <3>2
    <3>3. QED
      BY <3>1, <3>2
  <2>5. s \in Seq(Int)
    BY <2>3, <2>4
  <2>6. PICK x \in Int : x = SumOf(s)
    BY <2>5, SumRuns
  <2>7. PICK y \in Nat : y = Digits(Cardinality(LeftOut(fs, es)))
    BY DigitsNat
  <2>8. used = 19 + y + 2 + x
    BY <1>2, <2>1, <2>2, <2>3, <2>6, <2>7 DEF DetailsUsed
  <2>9. QED
    BY <2>8
<1>4. PICK rows \in Tallies : rows = SummaryRows(fs, es, used, limit)
  BY <1>3, SummaryRowsOf
<1>5. PICK last : last = IF rows.other > 0 THEN 27 + Digits(rows.other) + 1 ELSE 0
  OBVIOUS
<1>6. last \in Int /\ rows.used \in Int
  BY <1>5, DigitsNat DEF Tallies
<1>7. OmittedSummary(fs, es, g) =
        [none |-> LeftOut(fs, es) = {}, detailFits |-> used <= limit,
         fits |-> rows.used + last <= limit, chars |-> rows.used + last - 2]
  BY <1>1, <1>2, <1>4, <1>5 DEF OmittedSummary
<1>8. OmittedSummary(fs, es, g).chars = rows.used + last - 2
  BY <1>7
<1>9. OmittedSummary(fs, es, g).fits = (rows.used + last <= limit)
  BY <1>7
<1>10. PICK u \in Int, l \in Int : u = rows.used /\ l = last
  BY <1>6
<1>11. OmittedSummary(fs, es, g).chars \in Int
  BY <1>8, <1>10
<1>12. ASSUME OmittedSummary(fs, es, g).fits
       PROVE  OmittedSummary(fs, es, g).chars + 2 <= OmittedReservation(g)
  <2>1. u + l <= limit
    BY <1>9, <1>10, <1>12, Zenon
  <2>2. PICK r : r = OmittedSummary(fs, es, g).chars
    OBVIOUS
  <2>3. r = u + l - 2
    BY <2>2, <1>8, <1>10
  <2>4. r + 2 = u + l
    BY <2>3
  <2>5. QED
    BY <1>1, <2>1, <2>2, <2>4
<1>13. QED
  BY <1>11, <1>12

-----------------------------------------------------------------------------
(* The context.                                                              *)

LEMMA ReservationNat ==
    ASSUME NEW g \in Nat
    PROVE  OmittedReservation(g) \in Nat
<1>1. PICK x \in Nat : x = (g * 20) \div 100
  <2>1. PICK y \in Nat : y = g * 20
    OBVIOUS
  <2>2. y \div 100 \in Nat
    OBVIOUS
  <2>3. QED
    BY <2>1, <2>2
<1>2. QED
  BY <1>1 DEF OmittedReservation, Least

LEMMA SumOfFour ==
    ASSUME NEW a \in Int, NEW b \in Int, NEW c \in Int, NEW d \in Int
    PROVE  /\ <<a, b, c, d>> \in Seq(Int) /\ Len(<<a, b, c, d>>) = 4
           /\ SumOf(<<a, b, c, d>>) = a + b + c + d
<1>1. PICK s : s = <<a, b, c, d>>
  OBVIOUS
<1>2. s \in Seq(Int) /\ Len(s) = 4 /\ s[1] = a /\ s[2] = b /\ s[3] = c /\ s[4] = d
  BY <1>1
<1>3. PICK h : h = [k \in 0 .. 4 |-> IF k = 0 THEN 0 ELSE IF k = 1 THEN a ELSE IF k = 2 THEN a + b
                                     ELSE IF k = 3 THEN a + b + c ELSE a + b + c + d]
  OBVIOUS
<1>4. h[0] = 0 /\ h[1] = a /\ h[2] = a + b /\ h[3] = a + b + c /\ h[4] = a + b + c + d
  BY <1>3
<1>5. ASSUME NEW k \in 1 .. 4 PROVE h[k] = h[k - 1] + s[k]
  <2>1. k = 1 \/ k = 2 \/ k = 3 \/ k = 4
    OBVIOUS
  <2>2. h[1] = h[1 - 1] + s[1] /\ h[2] = h[2 - 1] + s[2] /\ h[3] = h[3 - 1] + s[3] /\ h[4] = h[4 - 1] + s[4]
    BY <1>2, <1>4
  <2>3. QED
    BY <2>1, <2>2
<1>6. Runs(h, s)
  BY <1>2, <1>4, <1>5 DEF Runs
<1>7. SumOf(s) = h[4]
  BY <1>2, <1>6, SumIs
<1>8. QED
  BY <1>1, <1>2, <1>4, <1>7

(* The fixed sections are widest with numbers of 20 digits.                  *)
LEMMA FixedOf ==
    ASSUME NEW n, NEW x \in Int, NEW y \in Int, NEW g \in Nat
    PROVE  /\ FixedSections(n, x, y, g) \in Seq(Int) /\ Len(FixedSections(n, x, y, g)) = 4
           /\ SumOf(FixedSections(n, x, y, g)) \in Int
           /\ BaseChars(n, <<>>, g)
                = SumOf(FixedSections(n, x, y, g)) + (40 - x - y) + 8 + OmittedReservation(g)
<1>1. PICK a \in Int, b \in Int, c \in Int : a = Digits(n) /\ b = Digits(g) /\ c = Digits(PerFile)
  BY DigitsNat
<1>2. ASSUME NEW u \in Int, NEW v \in Int
      PROVE  /\ FixedSections(n, u, v, g) \in Seq(Int) /\ Len(FixedSections(n, u, v, g)) = 4
             /\ SumOf(FixedSections(n, u, v, g)) = 267 + a + b + c + c + u + v
  <2>1. PICK p \in Int, q \in Int : p = 94 + 5 + 17 + 19 + a + u + v + b + c /\ q = 116 + c
    OBVIOUS
  <2>2. FixedSections(n, u, v, g) = <<9, p, q, 7>>
    BY <1>1, <2>1 DEF FixedSections
  <2>3. 9 \in Int /\ 7 \in Int
    OBVIOUS
  <2>4. <<9, p, q, 7>> \in Seq(Int) /\ Len(<<9, p, q, 7>>) = 4 /\ SumOf(<<9, p, q, 7>>) = 9 + p + q + 7
    BY <2>3, SumOfFour
  <2>5. 9 + p + q + 7 = 267 + a + b + c + c + u + v
    BY <2>1
  <2>6. QED
    BY <2>2, <2>4, <2>5
<1>3. PICK wide \in Seq(Int) : wide = FixedSections(n, 20, 20, g) /\ Len(wide) = 4
                               /\ SumOf(wide) = 267 + a + b + c + c + 20 + 20
  BY <1>2
<1>4. wide \o <<>> = wide
  OBVIOUS
<1>5. BaseChars(n, <<>>, g) = SumOf(wide) + 2 * 4 + OmittedReservation(g)
  BY <1>3, <1>4 DEF BaseChars, WidestNumber
<1>10. PICK r \in Nat : r = OmittedReservation(g)
  BY ReservationNat
<1>6. PICK h : h = SumOf(FixedSections(n, x, y, g))
  OBVIOUS
<1>7. h = 267 + a + b + c + c + x + y
  BY <1>2, <1>6
<1>8. BaseChars(n, <<>>, g) = h + (40 - x - y) + 8 + r /\ h \in Int
  BY <1>3, <1>5, <1>7, <1>10
<1>9. QED
  BY <1>2, <1>6, <1>8, <1>10

LEMMA JoinedOf ==
    ASSUME NEW s \in Seq(Int), NEW x \in Int
    PROVE  /\ Joined(s) = SumOf(s) + 2 * Len(s) - 1
           /\ Joined(Append(s, x)) = SumOf(s) + x + 2 * Len(s) + 1
<1>1. PICK n \in Nat, a \in Int : n = Len(s) /\ a = SumOf(s)
  BY SumRuns
<1>2. SumOf(Append(s, x)) = a + x /\ Len(Append(s, x)) = n + 1
  BY <1>1, SumOfAppend
<1>3. Joined(s) = a + 2 * (n - 1) + 1 /\ Joined(Append(s, x)) = (a + x) + 2 * ((n + 1) - 1) + 1
  BY <1>1, <1>2 DEF Joined
<1>4. QED
  BY <1>1, <1>3

(* The context is assembled within its budget: what the fixed sections, the  *)
(* included files and the reservation of the summary leave is enough for     *)
(* every separator, the placeholder and the footer.                          *)
Room(head, files, r, g) ==
    /\ head \in Seq(Int) /\ Len(head) = 4 /\ files \in Seq(Int)
    /\ SumOf(head) + (SumOf(files) + 2 * Len(files)) + r + 28 <= g
    /\ Len(files) = 0 => SumOf(head) + r + 34 <= g
Summarised(omitted, r) == omitted.chars \in Int /\ (omitted.fits => omitted.chars + 2 <= r)

LEMMA SumsOfSections ==
    ASSUME NEW head \in Seq(Int), NEW files \in Seq(Int)
    PROVE  /\ head \o files \in Seq(Int) /\ Len(head \o files) = Len(head) + Len(files)
           /\ SumOf(head \o files) = SumOf(head) + SumOf(files)
           /\ Append(head, 5) \in Seq(Int) /\ Len(Append(head, 5)) = Len(head) + 1
           /\ SumOf(Append(head, 5)) = SumOf(head) + 5
<1>1. head \o files \in Seq(Int) /\ Len(head \o files) = Len(head) + Len(files)
  OBVIOUS
<1>2. PICK x \in Int : x = 5
  OBVIOUS
<1>3. Append(head, x) \in Seq(Int) /\ Len(Append(head, x)) = Len(head) + 1
  OBVIOUS
<1>4. SumOf(Append(head, x)) = SumOf(head) + x
  BY SumOfAppend
<1>5. QED
  BY <1>1, <1>2, <1>3, <1>4, SumOfBoth

LEMMA AssembledFits ==
    ASSUME NEW head, NEW files, NEW lines \in Seq(Int), NEW omitted, NEW g \in Int, NEW r \in Nat,
           Room(head, files, r, g), Summarised(omitted, r)
    PROVE  /\ Assembled(head, files, omitted, lines, g).why \in {"none", "omitted"}
           /\ Assembled(head, files, omitted, lines, g).why = "none" =>
                 Assembled(head, files, omitted, lines, g).chars <= g
<1>0. head \in Seq(Int) /\ Len(head) = 4 /\ files \in Seq(Int)
  BY DEF Room
<1>1. PICK h \in Int, f \in Int, m \in Nat : h = SumOf(head) /\ f = SumOf(files) /\ m = Len(files)
  <2>1. SumOf(head) \in Int /\ SumOf(files) \in Int
    BY <1>0, SumRuns
  <2>2. Len(files) \in Nat
    BY <1>0
  <2>3. QED
    BY <2>1, <2>2
<1>24. h + (f + 2 * m) + r + 28 <= g /\ (m = 0 => h + r + 34 <= g)
  BY <1>1 DEF Room
<1>25. files = <<>> <=> m = 0
  BY <1>0, <1>1
<1>26. /\ head \o files \in Seq(Int) /\ Len(head \o files) = Len(head) + Len(files)
       /\ SumOf(head \o files) = SumOf(head) + SumOf(files)
       /\ Append(head, 5) \in Seq(Int) /\ Len(Append(head, 5)) = Len(head) + 1
       /\ SumOf(Append(head, 5)) = SumOf(head) + 5
  BY <1>0, SumsOfSections
<1>3. PICK both, five : both = head \o files /\ five = Append(head, 5)
  OBVIOUS
<1>2. both \in Seq(Int) /\ SumOf(both) = h + f /\ Len(both) = 4 + m
  BY <1>0, <1>1, <1>3, <1>26
<1>4. five \in Seq(Int) /\ SumOf(five) = h + 5 /\ Len(five) = 5
  BY <1>0, <1>1, <1>3, <1>26
<1>5. PICK body : body = IF files # <<>> THEN head \o files
                         ELSE IF Joined(Append(head, 5)) <= g THEN Append(head, 5) ELSE head
  OBVIOUS
<1>6. body \in Seq(Int) /\ SumOf(body) + 2 * Len(body) + r + 19 <= g
  <2>1. CASE files # <<>>
    <3>1. body = both
      BY <1>3, <1>5, <2>1
    <3>2. (h + f) + 2 * (4 + m) + r + 19 <= g
      BY <1>24
    <3>3. QED
      BY <1>2, <3>1, <3>2
  <2>2. CASE files = <<>> /\ body = five
    <3>1. (h + 5) + 2 * 5 + r + 19 <= g
      BY <1>24, <1>25, <2>2
    <3>2. QED
      BY <1>4, <2>2, <3>1
  <2>3. CASE files = <<>> /\ body = head
    <3>1. h + 2 * 4 + r + 19 <= g
      BY <1>24, <1>25, <2>3
    <3>2. QED
      BY <1>0, <1>1, <2>3, <3>1
  <2>4. QED
    BY <1>3, <1>5, <2>1, <2>2, <2>3
<1>7. PICK b \in Int, l \in Nat, c \in Int : b = SumOf(body) /\ l = Len(body) /\ c = omitted.chars
  <2>1. SumOf(body) \in Int /\ Len(body) \in Nat
    BY <1>6, SumRuns
  <2>2. QED
    BY <2>1 DEF Summarised
<1>8. b + 2 * l + r + 19 <= g
  BY <1>6, <1>7
<1>9. PICK issues : issues = IF lines = <<>> THEN Footer ELSE 8 + SumOf(lines) + Len(lines) - 1
  OBVIOUS
<1>10. issues \in Int
  BY <1>9, SumRuns DEF Footer
<1>11. PICK full : full = Joined(IF omitted.none THEN body ELSE Append(body, omitted.chars))
  OBVIOUS
<1>12. full = IF omitted.none THEN b + 2 * l - 1 ELSE b + c + 2 * l + 1
  BY <1>6, <1>7, <1>11, JoinedOf
<1>13. full \in Int
  BY <1>12
<1>14. PICK chars : chars = IF full + 2 + issues <= g THEN full + 2 + issues ELSE full
  OBVIOUS
<1>15. Assembled(head, files, omitted, lines, g)
         = [why |-> IF files # <<>> /\ Joined(Append(head \o files, Footer)) > g THEN "section"
                    ELSE IF ~omitted.none /\ ~(omitted.detailFits /\ omitted.fits) THEN "omitted"
                    ELSE IF ~omitted.none /\ full + 2 + Footer > g THEN "summary"
                    ELSE IF chars > g THEN "total" ELSE "none",
            chars |-> chars]
  BY <1>5, <1>9, <1>11, <1>14 DEF Assembled
<1>16. files # <<>> => ~(Joined(Append(head \o files, Footer)) > g)
  <2>1. 18 \in Int
    OBVIOUS
  <2>2. Joined(Append(both, 18)) = SumOf(both) + 18 + 2 * Len(both) + 1
    BY <1>2, <2>1, JoinedOf
  <2>3. (h + f) + 18 + 2 * (4 + m) + 1 <= g
    BY <1>24
  <2>4. QED
    BY <1>2, <1>3, <2>2, <2>3 DEF Footer
<1>17. ~omitted.none /\ omitted.fits => full + 2 + Footer <= g /\ full <= g
  <2>1. ASSUME ~omitted.none, omitted.fits PROVE full + 2 + 18 <= g /\ full <= g
    <3>1. full = b + c + 2 * l + 1 /\ c + 2 <= r
      BY <1>7, <1>12, <2>1 DEF Summarised
    <3>2. QED
      BY <1>8, <3>1
  <2>2. QED
    BY <2>1 DEF Footer
<1>18. omitted.none => full <= g
  <2>1. ASSUME omitted.none PROVE full <= g
    <3>1. full = b + 2 * l - 1
      BY <1>12, <2>1
    <3>2. QED
      BY <1>8, <3>1
  <2>2. QED
    BY <2>1
<1>19. full <= g => chars <= g /\ chars \in Int
  BY <1>10, <1>13, <1>14
<1>20. PICK a : a = Assembled(head, files, omitted, lines, g)
  OBVIOUS
<1>21. CASE ~omitted.none /\ ~(omitted.detailFits /\ omitted.fits)
  <2>1. a.why = "omitted"
    BY <1>15, <1>16, <1>20, <1>21
  <2>2. QED
    BY <1>20, <2>1
<1>22. CASE omitted.none \/ (omitted.detailFits /\ omitted.fits)
  <2>1. full <= g
    BY <1>17, <1>18, <1>22
  <2>2. ~(~omitted.none /\ full + 2 + Footer > g)
    BY <1>13, <1>17, <1>22 DEF Footer
  <2>3. chars <= g /\ ~(chars > g)
    BY <1>19, <2>1
  <2>4. a.why = "none" /\ a.chars = chars
    BY <1>15, <1>16, <1>20, <1>22, <2>2, <2>3
  <2>5. QED
    BY <1>20, <2>3, <2>4
<1>23. QED
  BY <1>21, <1>22

LEMMA EmptyIs ==
    ASSUME NEW s \in Seq(Int), NEW m, m = Len(s), m = 0
    PROVE  s = <<>>
<1>1. Len(s) = 0 => s = <<>>
  OBVIOUS
<1>2. QED
  BY <1>1

(* A context without sections has no file to show.                           *)
LEMMA NoSections ==
    ASSUME NEW fs, Len(fs) \in Nat, NEW es, NEW S, Len(Sections(fs, es, S)) = 0,
           \A k \in 1 .. Len(fs) : es[k].status \in S => RenderedChars(fs[k], es[k]) \in Int
    PROVE  \A k \in 1 .. Len(fs) : es[k].status \notin S
<1>1. PICK n \in Nat : n = Len(fs)
  OBVIOUS
<1>2. PICK q : Collected(q, n, fs, es, S) /\ Sections(fs, es, S) = q[n]
  BY <1>1, SectionsOf
<1>3. /\ q[0] = <<>> /\ \A k \in 0 .. n : q[k] \in Seq(Int)
      /\ \A k \in 1 .. n : q[k] = IF es[k].status \in S THEN Append(q[k - 1], RenderedChars(fs[k], es[k]))
                                  ELSE q[k - 1]
  BY <1>2 DEF Collected
<1>. DEFINE Good == {k \in 0 .. n : Len(q[k]) = 0 => \A j \in 1 .. k : es[j].status \notin S}
<1>4. 0 \in Good
  OBVIOUS
<1>5. ASSUME NEW k \in 0 .. n, k \in Good, k < n PROVE k + 1 \in Good
  <2>1. k + 1 \in 1 .. n /\ (k + 1) - 1 = k /\ k + 1 \in 0 .. n
    BY <1>5
  <2>2. PICK s : s = q[k]
    OBVIOUS
  <2>3. s \in Seq(Int)
    BY <1>3, <2>2
  <2>4. CASE es[k + 1].status \in S
    <3>1. PICK x : x = RenderedChars(fs[k + 1], es[k + 1])
      OBVIOUS
    <3>2. q[k + 1] = Append(s, x) /\ x \in Int
      BY <1>1, <1>3, <2>1, <2>2, <2>4, <3>1
    <3>3. Len(Append(s, x)) = Len(s) + 1 /\ Len(s) \in Nat
      BY <2>3, <3>2
    <3>4. Len(q[k + 1]) # 0
      BY <3>2, <3>3
    <3>5. QED
      BY <2>1, <3>4
  <2>5. CASE es[k + 1].status \notin S
    <3>1. q[k + 1] = q[k]
      BY <1>3, <2>1, <2>5
    <3>2. \A j \in 1 .. k + 1 : j \in 1 .. k \/ j = k + 1
      BY <1>5
    <3>3. QED
      BY <1>5, <2>1, <2>5, <3>1, <3>2
  <2>6. QED
    BY <2>4, <2>5
<1>. HIDE DEF Good
<1>6. \A k \in 0 .. n : k \in Good
  BY <1>4, <1>5, UpTo
<1>7. n \in Good /\ n \in 0 .. n
  BY <1>6
<1>8. QED
  BY <1>1, <1>2, <1>7 DEF Good

(* What is shown of every file fits what is kept for it.                     *)
Kept(fs, es, r) ==
    \A k \in 1 .. Len(fs) :
        /\ fs[k] \in Source /\ es[k].status \in {"success", "error", "timeout", "not_parsed"}
        /\ es[k].status = "not_parsed" => Omits(es[k])
        /\ es[k].status \in {"success", "error", "timeout"} => RenderedChars(fs[k], es[k]) \in Int
        /\ IF es[k].status = "success" THEN RenderedChars(fs[k], es[k]) + 2 <= r[k] ELSE 0 <= r[k]

LEMMA BuiltWithin ==
    ASSUME NEW fs, Len(fs) \in Nat, NEW es, NEW g \in Nat, NEW r \in Seq(Int), Len(r) = Len(fs),
           Kept(fs, es, r), BaseChars(Len(fs), <<>>, g) + SumOf(r) <= g
    PROVE  /\ BuildContext(fs, es, g).why \in {"none", "omitted"}
           /\ BuildContext(fs, es, g).why = "none" => BuildContext(fs, es, g).chars <= g
<1>1. PICK n \in Nat : n = Len(fs)
  OBVIOUS
<1>2. PICK files, errors : files = Sections(fs, es, {"success"}) /\ errors = Sections(fs, es, {"error", "timeout"})
  OBVIOUS
<1>3. files \in Seq(Int) /\ SumOf(files) + 2 * Len(files) <= SumOf(r)
  <2>1. \A k \in 1 .. Len(fs) :
           IF es[k].status \in {"success"}
           THEN RenderedChars(fs[k], es[k]) \in Int /\ RenderedChars(fs[k], es[k]) + 2 <= r[k]
           ELSE 0 <= r[k]
    BY DEF Kept
  <2>2. QED
    BY <1>2, <2>1, SectionsWithin
<1>4. errors \in Seq(Int)
  <2>1. \A k \in 1 .. Len(fs) : es[k].status \in {"error", "timeout"} => RenderedChars(fs[k], es[k]) \in Int
    BY DEF Kept
  <2>2. PICK q : Collected(q, n, fs, es, {"error", "timeout"}) /\ Sections(fs, es, {"error", "timeout"}) = q[n]
    BY <1>1, <2>1, SectionsOf
  <2>3. n \in 0 .. n
    OBVIOUS
  <2>4. QED
    BY <1>2, <2>2, <2>3 DEF Collected
<1>5. PICK lines : lines = [k \in DOMAIN errors |-> errors[k] - 1]
  OBVIOUS
<1>6. lines \in Seq(Int)
  <2>1. PICK m : m = Len(errors)
    OBVIOUS
  <2>2. m \in Nat /\ DOMAIN errors = 1 .. m /\ \A k \in 1 .. m : errors[k] \in Int
    BY <1>4, <2>1
  <2>3. lines \in [1 .. m -> Int]
    BY <1>5, <2>2
  <2>4. QED
    BY <2>2, <2>3
<1>7. PICK x, y : /\ x = Digits(Cardinality({i \in 1 .. n : es[i].status \in {"success"}}))
                  /\ y = Digits(Cardinality({i \in 1 .. n : es[i].status \in {"error", "timeout"}}))
  OBVIOUS
<1>8. x \in Int /\ y \in Int /\ x <= 10 /\ y <= 10
  BY <1>7, DigitsNat
<1>9. PICK head, omitted : head = FixedSections(n, x, y, g) /\ omitted = OmittedSummary(fs, es, g)
  OBVIOUS
<1>10. PICK room \in Nat : room = OmittedReservation(g)
  BY ReservationNat
<1>11. /\ head \in Seq(Int) /\ Len(head) = 4 /\ SumOf(head) \in Int
       /\ BaseChars(n, <<>>, g) = SumOf(head) + (40 - x - y) + 8 + room
  BY <1>8, <1>9, <1>10, FixedOf
<1>12. PICK h \in Int, f \in Int, m \in Nat, t \in Int : h = SumOf(head) /\ f = SumOf(files) /\ m = Len(files) /\ t = SumOf(r)
  <2>1. SumOf(files) \in Int /\ SumOf(r) \in Int
    BY <1>3, SumRuns
  <2>2. Len(files) \in Nat
    BY <1>3
  <2>3. QED
    BY <1>11, <2>1, <2>2
<1>13. h + (40 - x - y) + 8 + room + t <= g /\ f + 2 * m <= t
  BY <1>1, <1>3, <1>11, <1>12
<1>14. m = 0 => x = 1 /\ f = 0
  <2>1. ASSUME m = 0 PROVE x = 1 /\ f = 0
    <3>1. \A k \in 1 .. Len(fs) : es[k].status \in {"success"} => RenderedChars(fs[k], es[k]) \in Int
      BY DEF Kept
    <3>2. Len(Sections(fs, es, {"success"})) = 0
      BY <1>2, <1>12, <2>1
    <3>3. \A k \in 1 .. n : es[k].status \notin {"success"}
      BY <1>1, <3>1, <3>2, NoSections
    <3>4. {i \in 1 .. n : es[i].status \in {"success"}} = {}
      BY <3>3
    <3>5. x = 1
      BY <1>7, <3>4, FS_EmptySet, DigitsOfNone
    <3>6. files = <<>>
      BY <1>3, <1>12, <2>1, EmptyIs
    <3>7. QED
      BY <1>12, <3>5, <3>6, SumOfNone
  <2>2. QED
    BY <2>1
<1>15. h + (f + 2 * m) + room + 28 <= g
  BY <1>8, <1>13
<1>16. m = 0 => h + room + 34 <= g
  <2>1. ASSUME m = 0 PROVE h + room + 34 <= g
    BY <1>8, <1>13, <1>14, <2>1
  <2>2. QED
    BY <2>1
<1>17. Room(head, files, room, g)
  BY <1>3, <1>11, <1>12, <1>15, <1>16 DEF Room
<1>18. Summarised(omitted, room)
  <2>1. \A i \in 1 .. Len(fs) : fs[i] \in Source /\ (es[i].status = "not_parsed" => Omits(es[i]))
    BY DEF Kept
  <2>2. QED
    BY <1>9, <1>10, <2>1, OmittedSummaryOf DEF Summarised
<1>19. PICK a : a = Assembled(head, files, omitted, lines, g)
  OBVIOUS
<1>20. a.why \in {"none", "omitted"} /\ (a.why = "none" => a.chars <= g)
  BY <1>6, <1>17, <1>18, <1>19, AssembledFits
<1>21. BuildContext(fs, es, g).why = a.why /\ BuildContext(fs, es, g).chars = a.chars
  BY <1>1, <1>2, <1>5, <1>7, <1>9, <1>19 DEF BuildContext
<1>22. QED
  BY <1>20, <1>21

-----------------------------------------------------------------------------
(* The room of the files.  An admitted file holds the widest section of its  *)
(* route, or two more than the section of the text or of the page without    *)
(* text that it turned out to have; what is not admitted holds nothing.  Once *)
(* the admission of a round has been priced, the fixed sections and all that  *)
(* is held fit the budget, and nothing that happens later makes a file hold   *)
(* more.                                                                     *)
Spare(i) ==
    \/ adm[i].reserved >= ReservedDelta(Files[i], Verdict(Files[i]))
    \/ result[i].status = "success" /\ adm[i].reserved >= RenderedChars(Files[i], TextOf(Files[i])) + 2
    \/ cls[i].s = "no_text" /\ adm[i].reserved >= RenderedChars(Files[i], Blank) + 2
Roomy(i) == IF adm[i].act = "admit" THEN adm[i].reserved >= 0 /\ Spare(i) ELSE adm[i].reserved = 0
FixedChars == BaseChars(Len(Files), <<>>, scan.global)
Priced == round > 0 \/ pc \in {"parse", "refill", "finish"}
RoomInv ==
    pc # "done" =>
        /\ \A i \in Index : Roomy(i)
        /\ Priced => FixedChars + Reserved(adm) <= scan.global

(* Between the rounds every file is final.                                   *)
LEMMA ClosedBetween ==
    ASSUME ScanInv, pc \in {"parse", "refill", "finish"}, pc = "parse" => Waiting = {}, NEW i \in Index
    PROVE  Closed(i)
BY DEF ScanInv, Types, PlanInv, SettledInv, AuditInv, ResultInv, TaintInv, StopInv, Closed

LEMMA RouteOf ==
    ASSUME NEW i, Closed(i), adm[i].act = "admit"
    PROVE  Verdict(Files[i]) \in Routes
<1>1. plan[i].act = "admit"
  BY DEF Closed, Settled, Decided
<1>2. QED
  BY <1>1 DEF Closed, PlanOf

(* What a final file shows fits what is held for it.                         *)
LEMMA FileKept ==
    ASSUME scan \in Scans, NEW i \in Index, Closed(i), Roomy(i), NEW e, Shows(i, e), NEW r, r = adm[i].reserved
    PROVE  /\ Files[i] \in Source /\ e.status \in {"success", "error", "timeout", "not_parsed"}
           /\ e.status = "not_parsed" => Omits(e)
           /\ e.status \in {"success", "error", "timeout"} => RenderedChars(Files[i], e) \in Int
           /\ IF e.status = "success" THEN RenderedChars(Files[i], e) + 2 <= r ELSE 0 <= r
           /\ adm[i].act = "admit" => RenderedChars(Files[i], e) <= r
<1>1. Files[i] \in Source /\ Bounded(Files[i]) /\ r \in Int
  BY FilesBounded DEF Closed, Decisions
<1>2. 0 <= r
  BY <1>1 DEF Roomy
<1>3. PICK f : f = Files[i]
  OBVIOUS
<1>4. CASE Omits(e)
  <2>1. RenderedChars(f, e) = 0 /\ e.status = "not_parsed"
    BY <1>4, OmissionWritesNothing DEF Omits
  <2>2. QED
    BY <1>1, <1>2, <1>3, <1>4, <2>1
<1>5. CASE Fails(e) /\ (adm[i].act = "admit" => result[i].status # "success" /\ cls[i].s # "no_text")
  <2>1. PICK x, w : x = RenderedChars(f, e) /\ w = ReservedDelta(f, Verdict(f))
    OBVIOUS
  <2>2. x \in Int /\ x + 2 <= w /\ w \in Int
    BY <1>1, <1>3, <1>5, <2>1, FailureFits, ReservedDeltaOf
  <2>3. adm[i].act = "admit" => r >= w
    BY <1>3, <1>5, <2>1 DEF Roomy, Spare
  <2>4. adm[i].act = "admit" => x <= r
    BY <1>1, <2>2, <2>3
  <2>5. e.status \in {"error", "timeout"}
    BY <1>5 DEF Fails
  <2>6. QED
    BY <1>1, <1>2, <1>3, <2>1, <2>2, <2>4, <2>5
<1>6. CASE e = TextOf(f) /\ adm[i].act = "admit" /\ result[i].status = "success" /\ cls[i].s # "no_text"
  <2>1. PICK x, w : x = RenderedChars(f, e) /\ w = ReservedDelta(f, Verdict(f))
    OBVIOUS
  <2>2. x \in Int /\ x + 2 <= w /\ w \in Int
    BY <1>1, <1>3, <1>6, <2>1, TextFits, RouteOf, ReservedDeltaOf
  <2>3. r >= w \/ r >= x + 2
    BY <1>3, <1>6, <2>1 DEF Roomy, Spare
  <2>4. x + 2 <= r /\ x <= r
    BY <1>1, <2>2, <2>3
  <2>5. e.status = "success"
    BY <1>6 DEF TextOf
  <2>6. QED
    BY <1>1, <1>3, <2>1, <2>2, <2>4, <2>5
<1>7. CASE e = Blank /\ adm[i].act = "admit" /\ result[i].status # "success" /\ cls[i].s = "no_text"
  <2>1. PICK x, w : x = RenderedChars(f, e) /\ w = ReservedDelta(f, Verdict(f))
    OBVIOUS
  <2>2. x \in Int /\ x + 2 <= w /\ w \in Int
    BY <1>1, <1>3, <1>7, <2>1, BlankFits, ReservedDeltaOf
  <2>3. r >= w \/ r >= x + 2
    BY <1>3, <1>7, <2>1 DEF Roomy, Spare
  <2>4. x + 2 <= r /\ x <= r
    BY <1>1, <2>2, <2>3
  <2>5. e.status = "success"
    BY <1>7 DEF Blank
  <2>6. QED
    BY <1>1, <1>3, <2>1, <2>2, <2>4, <2>5
<1>8. QED
  BY <1>3, <1>4, <1>5, <1>6, <1>7 DEF Shows

Holdings(a) == [i \in Index |-> a[i].reserved]
LEMMA HeldSeq ==
    ASSUME scan \in Scans, NEW a \in [Index -> Decisions]
    PROVE  /\ Holdings(a) \in Seq(Int) /\ Len(Holdings(a)) = Len(Files) /\ \A i \in Index : Holdings(a)[i] = a[i].reserved
           /\ Reserved(a) = SumOf(Holdings(a)) /\ Reserved(a) \in Int
<1>1. PICK n \in Nat : n = Len(Files) /\ Index = 1 .. n
  BY FilesTyped DEF Index
<1>2. \A i \in Index : a[i].reserved \in Int
  BY DEF Decisions
<1>3. PICK r : r = Holdings(a)
  OBVIOUS
<1>4. r \in [1 .. n -> Int] /\ \A i \in 1 .. n : r[i] = a[i].reserved
  BY <1>1, <1>2, <1>3 DEF Holdings
<1>5. r \in Seq(Int) /\ Len(r) = n
  BY <1>4
<1>6. Reserved(a) = SumOf(r)
  BY <1>3 DEF Reserved, Holdings
<1>7. QED
  BY <1>1, <1>3, <1>4, <1>5, <1>6, SumRuns

(* So a rendering between the rounds, and the last one, fits.                *)
FinalAre(res) == \A i \in Index : res[i] = result[i] \/ res[i] = FinalResult(i)
LEMMA ContextFits ==
    ASSUME scan \in Scans, adm \in [Index -> Decisions], \A i \in Index : Closed(i) /\ Roomy(i),
           FixedChars + Reserved(adm) <= scan.global, NEW res, FinalAre(res), NEW built, built = Context(res)
    PROVE  /\ Mismatch(built) \in {"none", "omitted"}
           /\ Mismatch(built) = "none" => built.chars <= scan.global
           /\ \A i \in Index : Shows(i, Evidence(i, res))
<1>1. PICK es : es = EvidenceOf(res) /\ built = BuildContext(Files, es, scan.global)
  BY DEF Context
<1>2. PICK r : r = Holdings(adm)
  OBVIOUS
<1>3. /\ r \in Seq(Int) /\ Len(r) = Len(Files) /\ \A i \in Index : r[i] = adm[i].reserved
      /\ Reserved(adm) = SumOf(r)
  BY <1>2, HeldSeq
<1>4. ASSUME NEW i \in Index PROVE es[i] = Evidence(i, res) /\ Shows(i, es[i])
  <2>1. es[i] = Evidence(i, res)
    BY <1>1 DEF EvidenceOf
  <2>2. QED
    BY <2>1, EvidenceShows DEF FinalAre
<1>5. Len(Files) \in Nat /\ Index = 1 .. Len(Files) /\ scan.global \in Nat
  BY FilesTyped, SchedulerAssumption DEF Index
<1>6. Kept(Files, es, r)
  <2>1. ASSUME NEW k \in 1 .. Len(Files)
        PROVE  /\ Files[k] \in Source /\ es[k].status \in {"success", "error", "timeout", "not_parsed"}
               /\ es[k].status = "not_parsed" => Omits(es[k])
               /\ es[k].status \in {"success", "error", "timeout"} => RenderedChars(Files[k], es[k]) \in Int
               /\ IF es[k].status = "success" THEN RenderedChars(Files[k], es[k]) + 2 <= r[k] ELSE 0 <= r[k]
    <3>1. k \in Index /\ Closed(k) /\ Roomy(k) /\ Shows(k, es[k]) /\ r[k] = adm[k].reserved
      BY <1>3, <1>4, <1>5
    <3>2. QED
      BY <3>1, FileKept
  <2>2. QED
    BY <2>1 DEF Kept
<1>7. built.why \in {"none", "omitted"} /\ (built.why = "none" => built.chars <= scan.global)
  BY <1>1, <1>3, <1>5, <1>6, BuiltWithin DEF FixedChars
<1>8. ASSUME NEW i \in Index, adm[i].act = "admit" PROVE built.rendered[i] <= adm[i].reserved
  <2>1. Closed(i) /\ Roomy(i) /\ Shows(i, es[i])
    BY <1>4
  <2>2. RenderedChars(Files[i], es[i]) <= adm[i].reserved
    BY <1>8, <2>1, FileKept
  <2>3. QED
    BY <1>1, <1>5, <2>2, RenderedIs
<1>9. Mismatch(built) = built.why
  BY <1>8 DEF Mismatch
<1>10. QED
  BY <1>4, <1>7, <1>9

-----------------------------------------------------------------------------
(* The admission hands out no more than there is.                            *)

LEMMA SumOfNats ==
    ASSUME NEW s \in Seq(Int), \A k \in 1 .. Len(s) : s[k] >= 0
    PROVE  SumOf(s) \in Int /\ SumOf(s) >= 0
<1>1. PICK n \in Nat : n = Len(s)
  OBVIOUS
<1>2. PICK z : z = [k \in 1 .. n |-> 0]
  OBVIOUS
<1>3. z \in Seq(Int) /\ Len(z) = n /\ \A k \in 1 .. n : z[k] = 0
  BY <1>2
<1>4. PICK h : h = [k \in 0 .. n |-> 0]
  OBVIOUS
<1>5. Runs(h, z)
  BY <1>3, <1>4 DEF Runs
<1>6. SumOf(z) = h[n]
  BY <1>3, <1>5, SumIs
<1>7. SumOf(z) = 0
  BY <1>4, <1>6
<1>8. SumOf(z) <= SumOf(s)
  BY <1>1, <1>3, SumOfLess
<1>9. QED
  BY <1>7, <1>8, SumRuns

LEMMA BaseAtLeast ==
    ASSUME NEW n, NEW g \in Nat, NEW e \in Seq(Int), \A k \in 1 .. Len(e) : e[k] >= 0
    PROVE  /\ BaseChars(n, e, g) \in Int /\ BaseChars(n, <<>>, g) \in Int
           /\ BaseChars(n, <<>>, g) <= BaseChars(n, e, g)
<1>1. PICK f : f = FixedSections(n, WidestNumber, WidestNumber, g)
  OBVIOUS
<1>2. WidestNumber \in Int
  BY DEF WidestNumber
<1>3. f \in Seq(Int)
  BY <1>1, <1>2, FixedOf
<1>4. PICK room \in Nat : room = OmittedReservation(g)
  BY ReservationNat
<1>5. PICK a \in Int, m \in Nat : a = SumOf(f) /\ m = Len(f)
  BY <1>3, SumRuns
<1>6. PICK x \in Int, l \in Nat : x = SumOf(e) /\ l = Len(e)
  BY SumRuns
<1>7. x >= 0
  BY <1>6, SumOfNats
<1>8. SumOf(f \o e) = a + x /\ Len(f \o e) = m + l
  BY <1>3, <1>5, <1>6, SumOfBoth
<1>9. f \o <<>> = f
  BY <1>3
<1>10. BaseChars(n, e, g) = (a + x) + 2 * (m + l) + room
  BY <1>1, <1>4, <1>8 DEF BaseChars
<1>11. BaseChars(n, <<>>, g) = a + 2 * m + room
  BY <1>1, <1>4, <1>5, <1>9 DEF BaseChars
<1>12. QED
  BY <1>7, <1>10, <1>11

LEMMA ErrorLinesNat ==
    ASSUME scan \in Scans
    PROVE  ErrorLines \in Seq(Int) /\ \A k \in 1 .. Len(ErrorLines) : ErrorLines[k] >= 0
<1>. DEFINE failed == {i \in Index \ runtime : plan[i].classify = "classify" /\ cls[i].s \in {"unknown", "error"}}
            code(i) == CASE cls[i].s = "unknown" /\ cls[i].code = "PARSER_TIMEOUT" -> "PARSER_TIMEOUT"
                         [] cls[i].s = "error" /\ cls[i].code = "PDF_PROTECTED" -> "PDF_PROTECTED"
                         [] OTHER -> "PARSER_FAILED"
<1>1. failed \subseteq Index
  OBVIOUS
<1>2. PICK seq : seq = InOrder(failed)
  OBVIOUS
<1>3. seq \in Seq(Index) /\ Elems(seq) \subseteq Index
  BY <1>1, <1>2, InOrderOf
<1>4. PICK n \in Nat : n = Len(seq)
  BY <1>3
<1>5. ErrorLines = [k \in 1 .. n |-> 32 + Files[seq[k]].abs + Chars[code(seq[k])]]
  BY <1>2, <1>4 DEF ErrorLines
<1>6. ASSUME NEW k \in 1 .. n
      PROVE  /\ 32 + Files[seq[k]].abs + Chars[code(seq[k])] \in Int
             /\ 32 + Files[seq[k]].abs + Chars[code(seq[k])] >= 0
  <2>1. seq[k] \in Index
    BY <1>3, <1>4
  <2>2. Files[seq[k]].abs \in Nat
    BY <2>1, FilesTyped, Types7
  <2>3. code(seq[k]) \in {"PARSER_TIMEOUT", "PDF_PROTECTED", "PARSER_FAILED"}
    OBVIOUS
  <2>. HIDE DEF code
  <2>4. \A w \in {"PARSER_TIMEOUT", "PDF_PROTECTED", "PARSER_FAILED"} : Chars[w] \in Nat
    BY DEF Chars
  <2>5. PICK x \in Nat, y \in Nat : x = Files[seq[k]].abs /\ y = Chars[code(seq[k])]
    BY <2>2, <2>3, <2>4
  <2>6. 32 + x + y \in Int /\ 32 + x + y >= 0
    OBVIOUS
  <2>7. QED
    BY <2>5, <2>6
<1>7. PICK q : q = ErrorLines
  OBVIOUS
<1>. HIDE DEF code, failed
<1>8. q \in [1 .. n -> Int] /\ \A k \in 1 .. n : q[k] >= 0
  BY <1>5, <1>6, <1>7
<1>9. q \in Seq(Int) /\ Len(q) = n
  BY <1>8
<1>10. QED
  BY <1>7, <1>8, <1>9

LEMMA SameSeq ==
    ASSUME NEW n, NEW u \in Seq(Int), NEW r \in Seq(Int), Len(u) = n, Len(r) = n, \A i \in 1 .. n : u[i] = r[i]
    PROVE  u = r
OBVIOUS

(* What the files hold when the first of them have been decided on.          *)
Part(a, new, seq, k) ==
    [i \in Index |-> IF \E l \in 1 .. k : seq[l] = i THEN new[i].reserved ELSE a[i].reserved]

Parted(p, a, new, seq, k) ==
    /\ p \in Seq(Int) /\ Len(p) = Len(Files)
    /\ \A i \in Index : p[i] = IF \E l \in 1 .. k : seq[l] = i THEN new[i].reserved ELSE a[i].reserved

LEMMA PartOf ==
    ASSUME scan \in Scans, NEW a \in [Index -> Decisions], NEW new, NEW seq \in Seq(Index), NEW k \in Nat,
           k <= Len(seq), \A l \in 1 .. Len(seq) : new[seq[l]].reserved \in Int
    PROVE  Parted(Part(a, new, seq, k), a, new, seq, k)
<1>1. PICK n \in Nat : n = Len(Files) /\ Index = 1 .. n
  BY FilesTyped
<1>2. PICK p : p = Part(a, new, seq, k)
  OBVIOUS
<1>3. \A i \in Index : p[i] = IF \E l \in 1 .. k : seq[l] = i THEN new[i].reserved ELSE a[i].reserved
  BY <1>2 DEF Part
<1>4. p = [i \in 1 .. n |-> p[i]]
  BY <1>1, <1>2 DEF Part
<1>5. \A i \in Index : p[i] \in Int
  <2>1. ASSUME NEW i \in Index PROVE p[i] \in Int
    <3>1. CASE \E l \in 1 .. k : seq[l] = i
      <4>1. PICK l \in 1 .. k : seq[l] = i
        BY <3>1
      <4>2. l \in 1 .. Len(seq)
        OBVIOUS
      <4>3. QED
        BY <1>3, <3>1, <4>1, <4>2
    <3>2. CASE ~\E l \in 1 .. k : seq[l] = i
      <4>1. a[i].reserved \in Int
        BY DEF Decisions
      <4>2. QED
        BY <1>3, <3>2, <4>1
    <3>3. QED
      BY <3>1, <3>2
  <2>2. QED
    BY <2>1
<1>6. p \in [1 .. n -> Int]
  BY <1>1, <1>4, <1>5
<1>7. p \in Seq(Int) /\ Len(p) = n
  BY <1>6
<1>8. QED
  BY <1>1, <1>2, <1>3, <1>7 DEF Parted

(* What the files S are let hold, and that it is within the budget.          *)
HoldsWithin(S, new, next, c) ==
    /\ c + Reserved(next) <= scan.global
    /\ \A i \in S : IF new[i].act = "admit" THEN new[i].reserved = ReservedDelta(Files[i], plan[i].why)
                    ELSE new[i].reserved = 0

LEMMA AdmissionHolds ==
    ASSUME scan \in Scans, PlanInv, adm \in [Index -> Decisions], NEW S, S \subseteq Index,
           \A i \in S : adm[i].reserved = 0, NEW b \in Int, NEW c \in Int, c <= b,
           c + Reserved(adm) <= scan.global, NEW new, new = Admission(S, b, Reserved(adm)),
           NEW next \in [Index -> Decisions],
           \A i \in Index : next[i] = IF i \in S THEN new[i] ELSE adm[i]
    PROVE  HoldsWithin(S, new, next, c)
<1>1. PICK g \in Nat : g = scan.global
  BY FilesTyped
<1>2. PICK h \in Int : h = Reserved(adm) /\ c + h <= g
  BY <1>1, HeldSeq
<1>3. new = Admission(S, b, h)
  BY <1>2
<1>4. PICK seq, run, left : AdmissionTrace(S, b, h, seq, run, left)
  BY AdmissionCharges
<1>5. /\ seq \in Seq(Index) /\ Distinct(seq) /\ Elems(seq) = S /\ run[0] = h
      /\ \A k \in 1 .. Len(seq) :
            Charged(Files[seq[k]], plan[seq[k]], cls[seq[k]].s, b, g, run[k - 1], left[k - 1], new[seq[k]],
                    run[k], left[k])
  BY <1>1, <1>3, <1>4 DEF AdmissionTrace
<1>6. PICK m \in Nat : m = Len(seq)
  BY <1>5
<1>7. \A k \in 1 .. m : seq[k] \in S /\ seq[k] \in Index /\ new[seq[k]].reserved \in Int
  <2>1. ASSUME NEW k \in 1 .. m PROVE seq[k] \in S /\ seq[k] \in Index /\ new[seq[k]].reserved \in Int
    <3>1. seq[k] \in S
      BY <1>5, <1>6 DEF Elems
    <3>2. next[seq[k]] = new[seq[k]] /\ next[seq[k]] \in Decisions
      BY <3>1
    <3>3. QED
      BY <3>1, <3>2 DEF Decisions
  <2>2. QED
    BY <2>1
<1>8. PICK q : q = [k \in 0 .. m |-> Part(adm, new, seq, k)]
  OBVIOUS
<1>9. ASSUME NEW k \in 0 .. m
      PROVE  /\ q[k] \in Seq(Int) /\ Len(q[k]) = Len(Files)
             /\ \A i \in Index : q[k][i] = IF \E l \in 1 .. k : seq[l] = i THEN new[i].reserved ELSE adm[i].reserved
  <2>1. q[k] = Part(adm, new, seq, k)
    BY <1>8
  <2>2. k \in Nat /\ k <= Len(seq) /\ \A l \in 1 .. Len(seq) : new[seq[l]].reserved \in Int
    BY <1>6, <1>7
  <2>3. seq \in Seq(Index)
    BY <1>5
  <2>4. Parted(Part(adm, new, seq, k), adm, new, seq, k)
    BY <2>2, <2>3, PartOf
  <2>5. QED
    BY <2>1, <2>4 DEF Parted
<1>10. Index = 1 .. Len(Files)
  BY FilesTyped
<1>. DEFINE Good == {k \in 0 .. m : SumOf(q[k]) = run[k] /\ run[k] \in Int /\ c + run[k] <= g}
<1>11. 0 \in Good
  <2>1. PICK r : r = Holdings(adm)
    OBVIOUS
  <2>2. r \in Seq(Int) /\ Len(r) = Len(Files) /\ SumOf(r) = h /\ \A i \in Index : r[i] = adm[i].reserved
    BY <1>2, <2>1, HeldSeq
  <2>3. 0 \in 0 .. m
    OBVIOUS
  <2>4. q[0] \in Seq(Int) /\ Len(q[0]) = Len(Files) /\ \A i \in Index : q[0][i] = adm[i].reserved
    <3>1. ~\E l \in 1 .. 0 : TRUE
      OBVIOUS
    <3>2. QED
      BY <1>9, <2>3, <3>1
  <2>5. q[0] = r
    <3>1. PICK u : u = q[0]
      OBVIOUS
    <3>2. u \in Seq(Int) /\ Len(u) = Len(r) /\ \A i \in 1 .. Len(r) : u[i] = r[i]
      BY <1>10, <2>2, <2>4, <3>1
    <3>3. u = r
      BY <2>2, <3>2, SameSeq
    <3>4. QED
      BY <3>1, <3>3
  <2>6. QED
    BY <1>2, <1>5, <2>2, <2>3, <2>5
<1>12. ASSUME NEW k \in 0 .. m, k \in Good, k < m PROVE k + 1 \in Good
  <2>1. k + 1 \in 1 .. m /\ (k + 1) - 1 = k /\ k + 1 \in 0 .. m
    BY <1>12
  <2>2. PICK p : p = seq[k + 1]
    OBVIOUS
  <2>3. p \in S /\ p \in Index /\ new[p].reserved \in Int
    BY <1>7, <2>1, <2>2
  <2>4. PICK s, t : s = q[k] /\ t = q[k + 1]
    OBVIOUS
  <2>5. s \in Seq(Int) /\ Len(s) = Len(Files) /\ t \in Seq(Int) /\ Len(t) = Len(Files)
    BY <1>9, <2>1, <2>4
  <2>6. /\ \A i \in Index : s[i] = IF \E l \in 1 .. k : seq[l] = i THEN new[i].reserved ELSE adm[i].reserved
        /\ \A i \in Index : t[i] = IF \E l \in 1 .. k + 1 : seq[l] = i THEN new[i].reserved ELSE adm[i].reserved
    BY <1>9, <2>1, <2>4
  <2>7. ~\E l \in 1 .. k : seq[l] = p
    <3>1. ASSUME NEW l \in 1 .. k, seq[l] = p PROVE FALSE
      <4>1. l \in 1 .. Len(seq) /\ k + 1 \in 1 .. Len(seq)
        BY <1>6, <2>1
      <4>2. l = k + 1
        BY <1>5, <2>2, <3>1, <4>1 DEF Distinct
      <4>3. QED
        BY <4>2
    <3>2. QED
      BY <3>1
  <2>8. s[p] = 0 /\ t[p] = new[p].reserved
    <3>1. adm[p].reserved = 0
      BY <2>3
    <3>2. \E l \in 1 .. k + 1 : seq[l] = p
      BY <2>1, <2>2
    <3>3. QED
      BY <2>3, <2>6, <2>7, <3>1, <3>2
  <2>9. \A i \in 1 .. Len(s) : i # p => t[i] = s[i]
    <3>1. ASSUME NEW i \in Index, i # p PROVE t[i] = s[i]
      <4>1. (\E l \in 1 .. k + 1 : seq[l] = i) <=> (\E l \in 1 .. k : seq[l] = i)
        <5>1. \A l \in 1 .. k + 1 : l \in 1 .. k \/ l = k + 1
          BY <1>12
        <5>2. \A l \in 1 .. k : l \in 1 .. k + 1
          BY <1>12
        <5>3. QED
          BY <2>2, <3>1, <5>1, <5>2
      <4>2. QED
        BY <2>6, <4>1
    <3>2. QED
      BY <1>10, <2>5, <3>1
  <2>10. SumOf(t) = SumOf(s) + (t[p] - s[p])
    BY <1>10, <2>3, <2>5, <2>9, SumOfChange
  <2>11. PICK x \in Int, w \in Int : x = run[k] /\ w = new[p].reserved
    BY <1>12, <2>3
  <2>12. SumOf(t) = x + w
    BY <1>12, <2>4, <2>8, <2>10, <2>11
  <2>13. Charged(Files[p], plan[p], cls[p].s, b, g, run[k], left[k], new[p], run[k + 1], left[k + 1])
    BY <1>5, <1>6, <2>1, <2>2
  <2>14. run[k + 1] = x + w /\ c + (x + w) <= g
    <3>1. CASE new[p].act = "admit"
      <4>1. b + x + w <= g /\ run[k + 1] = x + w
        BY <2>11, <2>13, <3>1 DEF Charged
      <4>2. QED
        BY <4>1
    <3>2. CASE new[p].act # "admit"
      <4>1. w = 0 /\ run[k + 1] = x
        BY <2>11, <2>13, <3>2 DEF Charged
      <4>2. QED
        BY <1>12, <2>11, <4>1
    <3>3. QED
      BY <3>1, <3>2
  <2>15. QED
    BY <2>1, <2>4, <2>12, <2>14
<1>. HIDE DEF Good
<1>13. \A k \in 0 .. m : k \in Good
  BY <1>11, <1>12, UpTo
<1>14. m \in 0 .. m /\ m \in Good
  BY <1>13
<1>15. SumOf(q[m]) = run[m] /\ c + run[m] <= g
  BY <1>14 DEF Good
<1>16. Reserved(next) = SumOf(q[m])
  <2>1. PICK u, r : u = q[m] /\ r = Holdings(next)
    OBVIOUS
  <2>2. r \in Seq(Int) /\ Len(r) = Len(Files) /\ SumOf(r) = Reserved(next) /\ \A i \in Index : r[i] = next[i].reserved
    BY <2>1, HeldSeq
  <2>3. u \in Seq(Int) /\ Len(u) = Len(Files)
    BY <1>9, <1>14, <2>1
  <2>4. \A i \in Index : u[i] = next[i].reserved
    <3>1. ASSUME NEW i \in Index PROVE u[i] = next[i].reserved
      <4>1. (\E l \in 1 .. m : seq[l] = i) <=> i \in S
        BY <1>5, <1>6 DEF Elems
      <4>2. QED
        BY <1>9, <1>14, <2>1, <4>1
    <3>2. QED
      BY <3>1
  <2>5. u = r
    BY <1>10, <2>2, <2>3, <2>4
  <2>6. QED
    BY <2>1, <2>2, <2>5
<1>17. ASSUME NEW i \in S
       PROVE  IF new[i].act = "admit" THEN new[i].reserved = ReservedDelta(Files[i], plan[i].why)
              ELSE new[i].reserved = 0
  <2>1. PICK k \in 1 .. m : seq[k] = i
    BY <1>5, <1>6 DEF Elems
  <2>2. Charged(Files[i], plan[i], cls[i].s, b, g, run[k - 1], left[k - 1], new[i], run[k], left[k])
    BY <1>5, <1>6, <2>1
  <2>3. QED
    BY <2>2 DEF Charged
<1>18. QED
  BY <1>1, <1>15, <1>16, <1>17 DEF HoldsWithin

-----------------------------------------------------------------------------
(* Every step keeps the room of the files.                                   *)

Fitting == {"none", "omitted", "store", "fixed_over_budget", "ledger"}

LEMMA RunningFits == ScanInv /\ pc # "done" => AdmittedFits
<1>. SUFFICES ASSUME ScanInv, pc # "done" PROVE AdmittedFits
  OBVIOUS
<1>1. outcome = NoOutcome /\ scan.global \in Nat
  BY FilesTyped DEF ScanInv, OutcomeInv, Types
<1>2. outcome.why = "none" /\ outcome.chars = 0
  BY <1>1 DEF NoOutcome, OutcomeOf
<1>3. QED
  BY <1>1, <1>2 DEF AdmittedFits

LEMMA NextFits == ScanInv' /\ pc' # "done" => AdmittedFits'
<1>1. (ScanInv /\ pc # "done" => AdmittedFits)'
  BY RunningFits, PTL
<1>2. QED
  BY <1>1

LEMMA FailFits ==
    ASSUME ScanInv, NEW kind, NEW why \in Fitting, outcome' = FailedScan(kind, why), scan' = scan
    PROVE  AdmittedFits'
<1>1. outcome'.why = why /\ outcome'.chars = 0
  BY DEF FailedScan, OutcomeOf
<1>2. scan'.global \in Nat
  BY FilesTyped DEF ScanInv, Types
<1>3. QED
  BY <1>1, <1>2 DEF AdmittedFits, Fitting

(* A step that neither decides nor lets a file go on to hold more.           *)
LEMMA OtherRoom ==
    ASSUME ScanInv, RoomInv, pc # "done", UNCHANGED <<scan, adm>>, Priced' => Priced, ResultsKept,
           \A i \in Index : adm[i].act = "admit" => cls'[i] = cls[i]
    PROVE  RoomInv'
<1>1. Files' = Files /\ Index' = Index
  BY SameFiles
<1>2. ASSUME NEW i \in Index PROVE Roomy(i)'
  <2>1. Roomy(i)
    BY DEF RoomInv
  <2>2. CASE adm[i].act # "admit"
    BY <2>1, <2>2 DEF Roomy
  <2>3. CASE adm[i].act = "admit"
    <3>1. cls'[i] = cls[i] /\ (result[i].status = "success" => result'[i].status = "success")
      BY <2>3 DEF ResultsKept
    <3>2. Spare(i)'
      BY <1>1, <2>1, <2>3, <3>1 DEF Roomy, Spare
    <3>3. QED
      BY <2>1, <2>3, <3>2 DEF Roomy
  <2>4. QED
    BY <2>2, <2>3
<1>3. Reserved(adm)' = Reserved(adm) /\ FixedChars' = FixedChars
  BY <1>1 DEF Reserved, FixedChars
<1>4. Priced' => FixedChars' + Reserved(adm)' <= scan'.global
  BY <1>3 DEF RoomInv
<1>5. QED
  BY <1>1, <1>2, <1>4 DEF RoomInv

LEMMA WaveRoom ==
    ASSUME ScanInv, RoomInv, ResultsKept,
           \/ DispatchClassifications \/ ReturnVerdict \/ LookupParse \/ DispatchParses \/ SettleText \/ ReturnText
           \/ ChangeSource \/ PassDeadline
    PROVE  RoomInv'
<1>1. UNCHANGED <<scan, cls, adm, pc, round>> /\ pc # "done"
  BY DEF DispatchClassifications, ReturnVerdict, LookupParse, DispatchParses, SettleText, ReturnText, ChangeSource,
         PassDeadline, pdfState, roundState
<1>2. Priced' => Priced
  BY <1>1 DEF Priced
<1>3. QED
  BY <1>1, <1>2, OtherRoom

(* A file that is being classified is not admitted.                          *)
LEMMA VerdictRoom ==
    ASSUME ScanInv, RoomInv, ResultsKept, LookupClassification \/ SettleVerdict
    PROVE  RoomInv'
<1>1. UNCHANGED <<scan, adm, pc, round>> /\ pc = "classify"
  BY DEF LookupClassification, SettleVerdict, roundState
<1>2. Priced' => Priced
  BY <1>1 DEF Priced
<1>3. \A i \in Waiting : adm[i].act # "admit"
  BY <1>1 DEF ScanInv, ClassifyInv
<1>4. \E i \in Waiting : \A j \in Index : j # i => cls'[j] = cls[j]
  <2>1. Index = DOMAIN cls
    BY DEF ScanInv, Types
  <2>2. CASE LookupClassification
    <3>1. Head(queue) \in Waiting
      <4>1. queue # <<>> /\ queue \in Seq(Index)
        BY <2>2 DEF LookupClassification, ScanInv, Types
      <4>2. Head(queue) = queue[1] /\ 1 \in 1 .. Len(queue)
        BY <4>1
      <4>3. QED
        BY <4>2 DEF Waiting, Queued, Elems
    <3>2. \A j \in Index : j # Head(queue) => cls'[j] = cls[j]
      <4>1. PICK i : i = Head(queue)
        OBVIOUS
      <4>2. cls' = cls \/ \E v : cls' = [cls EXCEPT ![i] = v]
        BY <2>2, <4>1, Zenon DEF LookupClassification
      <4>3. QED
        BY <2>1, <4>1, <4>2
    <3>3. QED
      BY <3>1, <3>2
  <2>3. CASE SettleVerdict
    <3>1. Head(wave).i \in Waiting
      <4>1. wave # <<>> /\ wave \in Seq(WaveItems(Len(Files)))
        BY <2>3 DEF SettleVerdict, ScanInv, Types
      <4>2. Head(wave) = wave[1] /\ 1 \in 1 .. Len(wave)
        BY <4>1
      <4>3. QED
        BY <4>2 DEF Waiting, Flying
    <3>2. \A j \in Index : j # Head(wave).i => cls'[j] = cls[j]
      <4>1. PICK i : i = Head(wave).i
        OBVIOUS
      <4>2. cls' = cls \/ \E v : cls' = [cls EXCEPT ![i] = v]
        BY <2>3, <4>1, Zenon DEF SettleVerdict
      <4>3. QED
        BY <2>1, <4>1, <4>2
    <3>3. QED
      BY <3>1, <3>2
  <2>4. QED
    BY <2>2, <2>3
<1>5. \A i \in Index : adm[i].act = "admit" => cls'[i] = cls[i]
  BY <1>3, <1>4
<1>6. QED
  BY <1>1, <1>2, <1>5, OtherRoom

LEMMA SumOfZeros ==
    ASSUME NEW s \in Seq(Int), \A k \in 1 .. Len(s) : s[k] = 0
    PROVE  SumOf(s) = 0
<1>1. PICK n \in Nat : n = Len(s)
  OBVIOUS
<1>2. PICK h : h = [k \in 0 .. n |-> 0]
  OBVIOUS
<1>3. Runs(h, s)
  BY <1>1, <1>2 DEF Runs
<1>4. SumOf(s) = h[n]
  BY <1>1, <1>3, SumIs
<1>5. QED
  BY <1>2, <1>4

(* What the admission of a round hands out.                                  *)
LEMMA PriceRoom ==
    ASSUME ScanInv, RoomInv, ScanInv', Price
    PROVE  RoomInv' /\ AdmittedFits'
<1>1. /\ Types /\ Types' /\ DraftInv /\ PlanInv /\ ClassifyInv /\ scan \in Scans /\ pc = "classify"
      /\ UNCHANGED <<scan, wave, plan, cls, audit, result, round, draft>>
  BY DEF ScanInv, Price, Types
<1>2. Files' = Files /\ Index' = Index /\ scan.global \in Nat
  BY <1>1, SameFiles, FilesTyped
<1>3. \/ Fail("fixed_over_budget")
      \/ /\ pc' = "parse" /\ base' <= scan.global
         /\ \E next : next = Admission(Considered, base', Reserved(adm)) /\ adm' = Amended(adm, next)
  BY Zenon DEF Price
<1>4. CASE Fail("fixed_over_budget")
  <2>1. pc' = "done" /\ outcome' = FailedScan("failed", "fixed_over_budget")
    BY <1>4 DEF Fail
  <2>2. QED
    BY <1>1, <2>1, FailFits DEF RoomInv, Fitting
<1>5. ASSUME pc' = "parse", base' <= scan.global, NEW next, next = Admission(Considered, base', Reserved(adm)),
             adm' = Amended(adm, next)
      PROVE  RoomInv' /\ AdmittedFits'
  <2>1. Considered \subseteq draft /\ Considered \subseteq Index
    BY <1>1 DEF Considered, DraftInv, Types
  <2>2. DOMAIN next = Considered /\ \A i \in Considered : Decided(plan[i], cls[i].s, next[i])
    BY <1>1, <1>5, <2>1, AdmissionOf
  <2>3. \A i \in Index : adm'[i] = IF i \in Considered THEN next[i] ELSE adm[i]
    BY <1>5, <2>2, AmendedOf
  <2>4. PICK S : S = Considered
    OBVIOUS
  <2>5. \A i \in S : adm[i].act # "admit" /\ adm[i].reserved = 0
    <3>1. \A i \in draft : adm[i].act # "admit"
      BY <1>1 DEF ClassifyInv
    <3>2. \A i \in Index : Roomy(i)
      BY <1>1 DEF RoomInv
    <3>3. QED
      BY <2>1, <2>4, <3>1, <3>2 DEF Roomy
  <2>6. PICK b : b = base'
    OBVIOUS
  <2>7. PICK c : c = FixedChars
    OBVIOUS
  <2>8. b \in Int /\ c \in Int /\ c <= b
    <3>1. b = BaseChars(Len(Files), ErrorLines, scan.global)
      BY <2>6 DEF Price
    <3>2. QED
      BY <1>1, <1>2, <2>7, <3>1, ErrorLinesNat, BaseAtLeast DEF FixedChars
  <2>9. adm \in [Index -> Decisions] /\ adm' \in [Index -> Decisions]
    BY <1>1, <1>2 DEF Types
  <2>10. c + Reserved(adm) <= scan.global
    <3>1. CASE round > 0
      BY <1>1, <2>7, <3>1 DEF RoomInv, Priced
    <3>2. CASE ~(round > 0)
      <4>1. round = 0
        BY <1>1, <3>2 DEF Types
      <4>2. \A i \in Index : adm[i].act = "none" /\ Roomy(i)
        BY <1>1, <4>1 DEF DraftInv, RoomInv
      <4>3. \A i \in Index : adm[i].reserved = 0
        BY <4>2 DEF Roomy
      <4>4. PICK r : r = Holdings(adm)
        OBVIOUS
      <4>5. r \in Seq(Int) /\ \A k \in 1 .. Len(r) : r[k] = 0
        BY <1>1, <2>9, <4>3, <4>4, HeldSeq, FilesTyped
      <4>6. Reserved(adm) = 0
        BY <1>1, <2>9, <4>4, <4>5, HeldSeq, SumOfZeros
      <4>7. QED
        BY <1>2, <1>5, <2>6, <2>8, <4>6
    <3>3. QED
      BY <3>1, <3>2
  <2>11. PICK a : a = adm'
    OBVIOUS
  <2>12. /\ c + Reserved(a) <= scan.global
         /\ \A i \in S : IF next[i].act = "admit" THEN next[i].reserved = ReservedDelta(Files[i], plan[i].why)
                         ELSE next[i].reserved = 0
    <3>1. next = Admission(S, b, Reserved(adm)) /\ S \subseteq Index
      BY <1>5, <2>1, <2>4, <2>6
    <3>2. a \in [Index -> Decisions] /\ \A i \in Index : a[i] = IF i \in S THEN next[i] ELSE adm[i]
      BY <2>3, <2>4, <2>9, <2>11
    <3>3. scan \in Scans /\ PlanInv /\ (\A i \in S : adm[i].reserved = 0) /\ adm \in [Index -> Decisions]
      BY <1>1, <2>5, <2>9
    <3>4. HoldsWithin(S, next, a, c)
      BY <2>8, <2>10, <3>1, <3>2, <3>3, AdmissionHolds
    <3>5. QED
      BY <3>4 DEF HoldsWithin
  <2>13. ASSUME NEW i \in Index PROVE Roomy(i)'
    <3>1. CASE i \in S
      <4>1. adm'[i] = next[i] /\ Decided(plan[i], cls[i].s, next[i]) /\ PlanOf(Files[i], plan[i]) /\ Files[i] \in Source
        BY <1>1, <2>2, <2>3, <2>4, <3>1, FilesTyped DEF PlanInv
      <4>2. CASE next[i].act = "admit"
        <5>1. plan[i].why = Verdict(Files[i])
          BY <4>1, <4>2 DEF Decided, PlanOf
        <5>2. adm'[i].reserved = ReservedDelta(Files[i], Verdict(Files[i]))
          BY <2>12, <3>1, <4>1, <4>2, <5>1
        <5>3. PICK w \in Int : w = ReservedDelta(Files[i], Verdict(Files[i])) /\ w >= 0
          <6>1. Files[i].abs \in Nat
            BY <4>1, Types7
          <6>2. QED
            BY <4>1, <6>1, ReservedDeltaOf
        <5>4. adm'[i].reserved >= 0 /\ adm'[i].reserved >= ReservedDelta(Files'[i], Verdict(Files'[i]))
          BY <1>2, <5>2, <5>3
        <5>5. QED
          BY <4>1, <4>2, <5>4 DEF Roomy, Spare
      <4>3. CASE next[i].act # "admit"
        BY <2>12, <3>1, <4>1, <4>3 DEF Roomy
      <4>4. QED
        BY <4>2, <4>3
    <3>2. CASE i \notin S
      <4>1. adm'[i] = adm[i] /\ Roomy(i)
        BY <1>1, <2>3, <2>4, <3>2 DEF RoomInv
      <4>2. QED
        BY <1>1, <1>2, <4>1 DEF Roomy, Spare
    <3>3. QED
      BY <3>1, <3>2
  <2>14. FixedChars' = c /\ Reserved(adm)' = Reserved(a) /\ scan' = scan
    BY <1>1, <1>2, <2>7, <2>11 DEF FixedChars, Reserved
  <2>15. RoomInv'
    BY <1>2, <2>12, <2>13, <2>14 DEF RoomInv
  <2>16. QED
    BY <1>5, <2>15, NextFits
<1>6. QED
  BY <1>3, <1>4, <1>5

(* What is reclaimed leaves each file as much as its section takes.          *)
LEMMA ReclaimedRoom ==
    ASSUME ScanInv, RoomInv, pc \in {"parse", "refill"}, pc = "parse" => Waiting = {},
           adm' = Reclaimed(Context(result)), UNCHANGED <<scan, cls, result>>
    PROVE  RoomInv'
<1>1. /\ Types /\ scan \in Scans /\ Files' = Files /\ Index' = Index /\ adm \in [Index -> Decisions]
      /\ scan.global \in Nat
  BY SameFiles, FilesTyped DEF ScanInv, Types
<1>2. \A i \in Index : Roomy(i) /\ Closed(i)
  BY ClosedBetween DEF RoomInv
<1>3. FixedChars + Reserved(adm) <= scan.global
  BY DEF RoomInv, Priced
<1>4. PICK a : a = adm'
  OBVIOUS
<1>5. /\ a \in [Index -> Decisions]
      /\ \A i \in Index : a[i].act = adm[i].act /\ a[i].why = adm[i].why /\ a[i].reserved <= adm[i].reserved
  BY <1>4, ReclaimedOf DEF Shrinks
<1>6. PICK built : built = Context(result) /\ a = Reclaimed(built)
  BY <1>4
<1>7. PICK es : es = EvidenceOf(result) /\ built = BuildContext(Files, es, scan.global)
  BY <1>6 DEF Context
<1>8. ASSUME NEW i \in Index PROVE Roomy(i)'
  <2>1. PICK d : d = adm[i] /\ d \in Decisions
    BY <1>1
  <2>2. d.reserved \in Int
    BY <2>1 DEF Decisions
  <2>3. a[i] = IF /\ adm[i].act = "admit" /\ i \notin runtime
                  /\ result[i].status = "success" \/ cls[i].s = "no_text"
                  /\ built.rendered[i] > 0
               THEN [d EXCEPT !.reserved = Least(@, built.rendered[i] + 2)]
               ELSE d
    BY <1>6, <2>1 DEF Reclaimed
  <2>4. CASE a[i] = d
    BY <1>1, <1>2, <1>4, <2>1, <2>4 DEF Roomy, Spare
  <2>5. CASE a[i] # d
    <3>1. /\ adm[i].act = "admit" /\ i \notin runtime /\ (result[i].status = "success" \/ cls[i].s = "no_text")
          /\ built.rendered[i] > 0 /\ a[i] = [d EXCEPT !.reserved = Least(@, built.rendered[i] + 2)]
      BY <2>3, <2>5
    <3>2. es[i] = Evidence(i, result) /\ built.rendered[i] = RenderedChars(Files[i], es[i])
      BY <1>1, <1>7, FilesTyped, RenderedIs DEF EvidenceOf
    <3>3. es[i].status = "success" /\ Shows(i, es[i])
      BY <1>2, <3>1, <3>2, UsedEvidence, EvidenceShows
    <3>4. \/ es[i] = TextOf(Files[i]) /\ result[i].status = "success"
          \/ es[i] = Blank /\ cls[i].s = "no_text"
      BY <3>3 DEF Shows, Omits, Fails
    <3>5. PICK x \in Int : x = RenderedChars(Files[i], es[i])
      <4>1. RenderedChars(Files[i], es[i]) \in Int
        BY <1>1, <1>2, <3>3, FileKept
      <4>2. QED
        BY <4>1
    <3>6. x > 0 /\ a[i].act = "admit" /\ a[i].reserved = Least(d.reserved, x + 2)
      <4>1. a[i].reserved = Least(d.reserved, built.rendered[i] + 2)
        <5>1. PICK n : n = Least(d.reserved, built.rendered[i] + 2)
          OBVIOUS
        <5>2. a[i] = [d EXCEPT !.reserved = n]
          BY <3>1, <5>1
        <5>3. a[i].reserved = n
          BY <2>1, <5>2 DEF Decisions
        <5>4. QED
          BY <5>1, <5>3
      <4>2. QED
        BY <1>5, <3>1, <3>2, <3>5, <4>1
    <3>7. CASE a[i].reserved = d.reserved
      <4>1. d.reserved >= 0 /\ Spare(i)
        BY <1>2, <2>1, <3>1 DEF Roomy
      <4>2. Spare(i)'
        BY <1>1, <1>4, <2>1, <3>7, <4>1 DEF Spare
      <4>3. QED
        BY <1>4, <3>6, <3>7, <4>1, <4>2 DEF Roomy
    <3>8. CASE a[i].reserved # d.reserved
      <4>1. a[i].reserved = x + 2
        BY <3>6, <3>8 DEF Least
      <4>2. a[i].reserved >= 0 /\ a[i].reserved >= RenderedChars(Files[i], es[i]) + 2
        BY <3>5, <3>6, <4>1
      <4>3. Spare(i)'
        BY <1>1, <1>4, <3>4, <4>2 DEF Spare
      <4>4. QED
        BY <1>4, <3>6, <4>2, <4>3 DEF Roomy
    <3>9. QED
      BY <3>7, <3>8
  <2>6. QED
    BY <2>4, <2>5
<1>9. Reserved(a) <= Reserved(adm)
  <2>1. PICK r, t : r = Holdings(adm) /\ t = Holdings(a)
    OBVIOUS
  <2>2. /\ r \in Seq(Int) /\ Len(r) = Len(Files) /\ SumOf(r) = Reserved(adm)
        /\ \A i \in Index : r[i] = adm[i].reserved
    BY <1>1, <2>1, HeldSeq
  <2>3. /\ t \in Seq(Int) /\ Len(t) = Len(Files) /\ SumOf(t) = Reserved(a)
        /\ \A i \in Index : t[i] = a[i].reserved
    BY <1>1, <1>5, <2>1, HeldSeq
  <2>4. \A k \in 1 .. Len(r) : t[k] <= r[k]
    BY <1>1, <1>5, <2>2, <2>3, FilesTyped
  <2>5. SumOf(t) <= SumOf(r)
    BY <2>2, <2>3, <2>4, SumOfLess
  <2>6. QED
    BY <2>2, <2>3, <2>5
<1>10. FixedChars' = FixedChars /\ Reserved(adm)' = Reserved(a) /\ scan' = scan
  BY <1>1, <1>4 DEF FixedChars, Reserved
<1>11. FixedChars + Reserved(a) <= scan.global
  <2>1. PICK y \in Int, z \in Int : y = Reserved(a) /\ z = Reserved(adm)
    BY <1>1, <1>5, HeldSeq
  <2>2. FixedChars \in Int
    <3>1. PICK e \in Seq(Int) : \A k \in 1 .. Len(e) : e[k] >= 0
      BY <1>1, ErrorLinesNat
    <3>2. QED
      BY <1>1, <3>1, BaseAtLeast DEF FixedChars
  <2>3. QED
    BY <1>1, <1>3, <1>9, <2>1, <2>2
<1>12. QED
  BY <1>1, <1>8, <1>10, <1>11 DEF RoomInv

(* A rendering between the rounds ends in no error of an admitted file.      *)
LEMMA BetweenFits ==
    ASSUME ScanInv, RoomInv, pc \in {"parse", "refill", "finish"}, pc = "parse" => Waiting = {},
           NEW res, FinalAre(res), NEW built, built = Context(res)
    PROVE  /\ Mismatch(built) \in {"none", "omitted"}
           /\ Mismatch(built) = "none" => built.chars <= scan.global
<1>1. scan \in Scans /\ adm \in [Index -> Decisions]
  BY DEF ScanInv, Types
<1>2. \A i \in Index : Closed(i) /\ Roomy(i)
  BY ClosedBetween DEF RoomInv
<1>3. FixedChars + Reserved(adm) <= scan.global
  BY DEF RoomInv, Priced
<1>4. QED
  BY <1>1, <1>2, <1>3, ContextFits

LEMMA EndRoundRoom ==
    ASSUME ScanInv, RoomInv, ScanInv', ResultsKept, EndRound
    PROVE  RoomInv' /\ AdmittedFits'
<1>1. /\ pc = "parse" /\ queue = <<>> /\ tasks = <<>> /\ wave = <<>>
      /\ UNCHANGED <<scan, cls, result>>
  BY DEF EndRound, pdfState
<1>2. Waiting = {}
  BY <1>1, NothingWaits
<1>3. PICK built \in {Context(result)} :
          \/ /\ pc' = IF scan.refill THEN "refill" ELSE "finish"
             /\ UNCHANGED <<adm, ledger, outcome>>
          \/ Fail(Mismatch(built))
          \/ /\ adm' = Reclaimed(built)
             /\ pc' = IF Progress = before \/ round = 2 THEN "finish" ELSE "refill"
  BY DEF EndRound
<1>4. CASE /\ pc' = IF scan.refill THEN "refill" ELSE "finish"
           /\ UNCHANGED <<adm, ledger, outcome>>
  <2>1. RoomInv'
    BY <1>1, <1>4, OtherRoom DEF Priced
  <2>2. pc' # "done"
    BY <1>4
  <2>3. QED
    BY <2>1, <2>2, NextFits
<1>5. CASE Fail(Mismatch(built))
  <2>1. \A i \in Index : result[i] = result[i]
    OBVIOUS
  <2>2. Mismatch(built) \in {"none", "omitted"}
    BY <1>1, <1>2, BetweenFits DEF FinalAre
  <2>3. pc' = "done" /\ outcome' = FailedScan("failed", Mismatch(built))
    BY <1>5 DEF Fail
  <2>4. QED
    BY <1>1, <2>2, <2>3, FailFits DEF RoomInv, Fitting
<1>6. CASE /\ adm' = Reclaimed(built)
           /\ pc' = IF Progress = before \/ round = 2 THEN "finish" ELSE "refill"
  <2>1. RoomInv'
    BY <1>1, <1>2, <1>3, <1>6, ReclaimedRoom
  <2>2. pc' # "done"
    BY <1>6
  <2>3. QED
    BY <2>1, <2>2, NextFits
<1>7. QED
  BY <1>3, <1>4, <1>5, <1>6

LEMMA BeginRefillRoom ==
    ASSUME ScanInv, RoomInv, ScanInv', ResultsKept, BeginRefill
    PROVE  RoomInv' /\ AdmittedFits'
<1>1. pc = "refill" /\ UNCHANGED <<scan, cls, result>>
  BY DEF BeginRefill, pdfState
<1>2. \/ adm' = adm /\ pc' = "finish"
      \/ \E built \in {Context(result)} : \E bad \in {Mismatch(built)} : Fail(bad)
      \/ adm' = Reclaimed(Context(result)) /\ pc' \in {"classify", "finish"}
  BY Zenon DEF BeginRefill, EndRefill
<1>3. CASE adm' = adm /\ pc' = "finish"
  <2>1. RoomInv'
    BY <1>1, <1>3, OtherRoom DEF Priced
  <2>2. QED
    BY <1>3, <2>1, NextFits
<1>4. ASSUME NEW built \in {Context(result)}, Fail(Mismatch(built)) PROVE RoomInv' /\ AdmittedFits'
  <2>1. Mismatch(built) \in {"none", "omitted"}
    BY <1>1, BetweenFits DEF FinalAre
  <2>2. pc' = "done" /\ outcome' = FailedScan("failed", Mismatch(built))
    BY <1>4 DEF Fail
  <2>3. QED
    BY <1>1, <2>1, <2>2, FailFits DEF RoomInv, Fitting
<1>5. CASE adm' = Reclaimed(Context(result)) /\ pc' \in {"classify", "finish"}
  <2>1. RoomInv'
    BY <1>1, <1>5, ReclaimedRoom
  <2>2. QED
    BY <1>5, <2>1, NextFits
<1>6. QED
  BY <1>2, <1>3, <1>4, <1>5

LEMMA FinishFits ==
    ASSUME ScanInv, RoomInv, Finish
    PROVE  RoomInv' /\ AdmittedFits'
<1>1. pc = "finish" /\ pc' = "done" /\ scan' = scan
  BY DEF Finish
<1>2. PICK touch, built : built = Context(FinalResults) /\ FinishMoves(touch, FinalResults, EvidenceOf(FinalResults), built)
  BY FinishOf
<1>3. FinalAre(FinalResults)
  BY DEF FinalAre, FinalResults
<1>4. /\ Mismatch(built) \in {"none", "omitted"}
      /\ Mismatch(built) = "none" => built.chars <= scan.global
  BY <1>1, <1>2, <1>3, BetweenFits
<1>5. PICK es, rows, warning, cut : outcome' = FinalOutcome(es, built, rows, warning, cut)
  BY <1>2 DEF FinishMoves
<1>6. CASE scan.refill /\ ~LedgerValid
  <2>1. outcome' = FailedScan("failed", "ledger")
    BY <1>5, <1>6 DEF FinalOutcome
  <2>2. QED
    BY <1>1, <2>1, FailFits DEF RoomInv, Fitting
<1>7. CASE ~(scan.refill /\ ~LedgerValid) /\ Mismatch(built) # "none"
  <2>1. outcome' = FailedScan("error", Mismatch(built))
    BY <1>5, <1>7 DEF FinalOutcome
  <2>2. QED
    BY <1>1, <1>4, <2>1, FailFits DEF RoomInv, Fitting
<1>8. CASE ~(scan.refill /\ ~LedgerValid) /\ Mismatch(built) = "none"
  <2>1. outcome' = Terminal(built, es, rows, warning, cut)
    BY <1>5, <1>8 DEF FinalOutcome
  <2>2. \E k, x, y : outcome' = OutcomeOf(k, "none", x, y, rows, es, built.chars)
    BY <2>1, Zenon DEF Terminal
  <2>3. outcome'.why = "none" /\ outcome'.chars = built.chars
    BY <2>2 DEF OutcomeOf
  <2>4. QED
    BY <1>1, <1>4, <1>8, <2>3 DEF RoomInv, AdmittedFits
<1>9. QED
  BY <1>6, <1>7, <1>8

LEMMA FirstRoom ==
    ASSUME Init
    PROVE  RoomInv /\ AdmittedFits
<1>1. ScanInv /\ pc = "classify" /\ round = 0 /\ adm = [i \in Index |-> NoDecision]
  BY Starts DEF Init, Files
<1>2. \A i \in Index : adm[i].act = "none" /\ adm[i].reserved = 0
  BY <1>1 DEF NoDecision, Decision
<1>3. RoomInv
  BY <1>1, <1>2 DEF RoomInv, Roomy, Priced
<1>4. QED
  BY <1>1, <1>3, RunningFits

LEMMA RoomStays ==
    ASSUME ScanInv, RoomInv, AdmittedFits, [Next]_vars
    PROVE  RoomInv' /\ AdmittedFits'
<1>1. ScanInv' /\ ResultsKept
  BY Stays, StepAdds
<1>2. CASE LookupFails
  <2>1. pc' = "done" /\ scan' = scan /\ outcome' = FailedScan("failed", "store")
    BY <1>2 DEF LookupFails, Fail
  <2>2. QED
    BY <2>1, FailFits DEF RoomInv, Fitting
<1>3. CASE LookupClassification \/ SettleVerdict
  <2>1. pc' # "done"
    BY <1>3 DEF LookupClassification, SettleVerdict
  <2>2. QED
    BY <1>1, <1>3, <2>1, VerdictRoom, NextFits
<1>4. CASE \/ DispatchClassifications \/ ReturnVerdict \/ LookupParse \/ DispatchParses \/ SettleText \/ ReturnText
           \/ ChangeSource \/ PassDeadline
  <2>1. pc' # "done"
    BY <1>4 DEF DispatchClassifications, ReturnVerdict, LookupParse, DispatchParses, SettleText, ReturnText,
                ChangeSource, PassDeadline
  <2>2. QED
    BY <1>1, <1>4, <2>1, WaveRoom, NextFits
<1>5. CASE Price \/ BeginRefill \/ EndRound \/ Finish
  BY <1>1, <1>5, PriceRoom, BeginRefillRoom, EndRoundRoom, FinishFits
<1>6. CASE Done \/ UNCHANGED vars
  <2>1. UNCHANGED <<scan, pc, outcome, round, adm, cls, result>>
    BY <1>6 DEF Done, vars
  <2>2. AdmittedFits'
    BY <2>1 DEF AdmittedFits
  <2>3. CASE pc = "done"
    BY <2>1, <2>2, <2>3 DEF RoomInv
  <2>4. CASE pc # "done"
    <3>1. RoomInv'
      BY <1>1, <2>1, <2>4, OtherRoom DEF Priced
    <3>2. QED
      BY <2>2, <3>1
  <2>5. QED
    BY <2>3, <2>4
<1>7. QED
  BY <1>2, <1>3, <1>4, <1>5, <1>6 DEF Next, Step, Answer

(* What is admitted always fits.  However many rounds a scan takes and        *)
(* whatever its files turn out to hold, no rendering outgrows a reservation  *)
(* or the global budget, and with the quotas every budget of the profile     *)
(* holds in every round: a reservation bounds the section that is written,   *)
(* whichever of its forms it takes, and a refill takes back only what that   *)
(* section leaves.                                                          *)
THEOREM BudgetsAlwaysHold == Spec => []BudgetsHold
<1>1. Init => RoomInv /\ AdmittedFits
  BY FirstRoom
<1>2. ScanInv /\ RoomInv /\ AdmittedFits /\ [Next]_vars => (RoomInv' /\ AdmittedFits')
  BY RoomStays
<1>3. QuotasHold /\ AdmittedFits => BudgetsHold
  BY DEF BudgetsHold
<1>4. QED
  BY <1>1, <1>2, <1>3, Always, QuotasAlwaysHold, PTL DEF Spec
=============================================================================
