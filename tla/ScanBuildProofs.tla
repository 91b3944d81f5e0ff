--------------------------- MODULE ScanBuildProofs ---------------------------
(***************************************************************************)
(* What build_context promises, for any number of engines, requests, files *)
(* and rewrites: the texts it reports are of the files it names, only      *)
(* clean results are reused, the sources handed out are the answer's own,  *)
(* a commit shows what its run saw, and what a writer makes is refused for  *)
(* two reasons only.                                                        *)
(*                                                                         *)
(* Three facts carry the argument.  A run that ended is never written      *)
(* again, so what an engine looked up stays what it was until its commit,  *)
(* although it holds no lock in between.  Guards only grow: a cache row    *)
(* whose text is not that of its key belongs to a version of the file that *)
(* nobody can verify any more.  And the three writers of a result derive   *)
(* the same summary, although they count differently.                      *)
(***************************************************************************)
EXTENDS ScanBuild, FiniteSetTheorems, WellFoundedInduction, TLAPS

RowStatuses == {"none", "success", "error", "timeout", "not_parsed"}
Outcomes == {"none", "success", "partial", "error"}

Sightings == [Names -> [version : Nat, guard : Int]]
Row == [status : RowStatuses, text : Int]
Source == [status : RowStatuses, text : Int, hash : Int, by : Nat \X Nat]

(* Every file that was found has a result.                                  *)
Complete(found, rows) == \A f \in found : rows[f].status # "none"

Contexts == {ScanContext(found, rows) : found \in SUBSET Names, rows \in [Names -> Row]}

Durations == [stages : Nat, total : Nat]

Batches ==
    {b \in [status : Outcomes, found : SUBSET Names, rows : [Names -> Row], context : Contexts,
             time : Durations] :
        Complete(b.found, b.rows) /\ b.context = ScanContext(b.found, b.rows)}

Run == [request : Requests, status : Outcomes \cup {"running", "abandoned"}, attempt : Nat,
        seen : Sightings, batch : Batches, artifact : Nat, eligible : BOOLEAN,
        warned : BOOLEAN, from : Nat]

Early == {"preflight", "discover", "guards", "inventory", "lookup", "reuse", "scan"}
Late == {"print", "hash", "printed"}

Command == [pc : Early \cup Late \cup {"idle", "fail", "evidence"}, request : Requests \cup {"none"},
            run : Nat, attempt : Nat, found : SUBSET Names, seen : Sightings,
            rows : [Names -> Row], from : Nat, time : [lookup : Nat, other : Nat],
            kind : Outcomes, warned : BOOLEAN, refused : BOOLEAN, at : Names \cup {"none"}]

Types ==
    /\ disk \in [Names -> [version : Nat, guard : Nat]]
    /\ parse \subseteq [key : Names \X Nat \X Int, text : Int]
    /\ runs \in Seq(Run)
    /\ lease \in Nat \X Nat
    /\ eng \in [Engines -> Command]
    /\ kept \in [Engines -> [Names -> Source]]
    /\ answer = [e \in Engines |-> answer[e]]

(* The holder of the lease works on a run that has not ended.               *)
LeaseInv ==
    lease # NoAttempt => lease[1] \in DOMAIN runs /\ runs[lease[1]].status = "running"

(* A row that is not of the version it is filed under is filed under a      *)
(* version that is gone for ever.                                           *)
ParseInv ==
    \A x \in parse : x.text = x.key[3] \/ x.key[3] < disk[x.key[1]].guard

(* The texts of a windowed request.                                         *)
TextsMatch(found, rows, seen) ==
    \A f \in found : rows[f].status = "success" => rows[f].text = seen[f].guard

Clean(found, rows) == found = Names /\ With(Names, rows, Failing) = {}

(* What a run in the store is like.                                         *)
RunHolds(x) ==
    /\ IF x.status \in {"success", "partial", "error"}
       THEN /\ x.batch.status = x.status /\ ProvenanceHolds(x)
            /\ x.batch.time.stages <= x.batch.time.total
       ELSE x.batch = NoBatch /\ x.from = 0
    /\ x.status = "success" => Clean(x.batch.found, x.batch.rows)
    /\ x.eligible => x.status = "success" /\ ~x.warned
    /\ x.status \in {"success", "partial"} /\ x.request \in Windowed =>
          TextsMatch(x.batch.found, x.batch.rows, x.seen)
    /\ x.from # 0 => x.status = "success"

RefersTo(x) ==
    /\ x.artifact # 0 => x.artifact \in DOMAIN runs
    /\ x.from # 0 => runs[x.artifact].eligible

RunsInv == \A r \in DOMAIN runs : RunHolds(runs[r]) /\ RefersTo(runs[r])

(* Run r answers what c asks, and what an engine has looked up.             *)
Matches(c, r) ==
    /\ r \in DOMAIN runs /\ runs[r].status = "success" /\ runs[runs[r].artifact].eligible
    /\ c.found = runs[r].batch.found /\ c.seen = runs[r].seen
    /\ (c.request \in Windowed) <=> (runs[r].request \in Windowed)

Reused(c) ==
    Matches(c, c.from) /\ c.kind = "success" /\ c.rows = runs[c.from].batch.rows

(* Only a scan in which a file failed has a row that is refused.            *)
Judged(c) == c.refused => c.from = 0 /\ With(c.found, c.rows, Failing) # {}

(* What an engine knows.                                                    *)
Knows(c) ==
    /\ c.pc # "idle" => c.run \in DOMAIN runs /\ runs[c.run].request = c.request
    /\ \A f \in Names : c.seen[f].guard <= disk[f].guard
    /\ c.pc \in Early => ~c.refused
    /\ c.pc \in Early \ {"reuse"} => c.from = 0
    /\ c.pc = "reuse" => Matches(c, c.from)
    /\ c.pc \in Late /\ c.from # 0 => Reused(c)
    /\ c.pc \in Late /\ c.from = 0 => c.kind = Outcome(c.found, c.rows)
    /\ c.pc \in Late => Complete(c.found, c.rows) /\ Judged(c)
    /\ c.pc \in Late /\ c.request \in Windowed => TextsMatch(c.found, c.rows, c.seen)
    /\ c.pc \in {"hash", "printed"} => c.at \in Names

(* The hash of an excerpt: right, to come, or to be checked.                *)
Printed(c, f, s) ==
    /\ s.text = c.seen[f].guard
    /\ \/ s.hash = s.text
       \/ s.hash = NoText /\ c.pc \in Late
       \/ c.pc = "printed" /\ c.at = f /\ s.hash \in c.seen[f].guard .. disk[f].guard

(* What an engine keeps: k.                                                 *)
Keeps(c, k) ==
    /\ c.pc \in Early => k = NoSources
    /\ c.pc # "idle" => \A f \in Names : k[f] # NoSource => k[f].by = Attempt(c)
    /\ c.pc \in {"hash", "printed"} => k[c.at].by = Attempt(c)
    /\ c.pc # "idle" /\ c.request \in Windowed =>
          \A f \in Names : Excerpt(k[f]) => Printed(c, f, k[f])

(* What an engine has answered: a.                                          *)
Sound(a) ==
    /\ a.request \in Windowed =>
          \A f \in Names : Excerpt(a.sources[f]) => a.sources[f].hash = a.sources[f].text
    /\ \A f \in Names : a.sources[f] # NoSource => a.sources[f].by = Attempt(a)

EngineInv == \A e \in Engines : Knows(eng[e]) /\ Keeps(eng[e], kept[e]) /\ Sound(answer[e])

IInv == Types /\ LeaseInv /\ ParseInv /\ RunsInv /\ EngineInv

---------------------------------------------------------------------------
(* Induction over finite sets.                                              *)

LEMMA LeastElement ==
    ASSUME NEW R, NEW F, NEW B, IsWellFoundedOn(R, F), B \subseteq F, B # {}
    PROVE  \E s \in B : \A u \in B : ~(<<u, s>> \in R)
BY WFMin, Zenon

(* Induction over the subsets of a finite set, with a set of good ones in   *)
(* the place of a predicate.                                                *)
LEMMA SubsetInduction ==
    ASSUME NEW S, IsFiniteSet(S), NEW Good,
           \A s \in SUBSET S : (\A u \in SUBSET s : u # s => u \in Good) => s \in Good
    PROVE  S \in Good
<1>. SUFFICES ASSUME S \notin Good
              PROVE  FALSE
  OBVIOUS
<1>1. PICK R, F : IsWellFoundedOn(R, F) /\ R = StrictSubsetOrdering(S) /\ F = SUBSET S
  <2>1. IsWellFoundedOn(StrictSubsetOrdering(S), FiniteSubsetsOf(S))
    BY FS_StrictSubsetOrderingWellFounded
  <2>. QED
    BY <2>1, FS_FiniteSubsetsOfFinite
<1>2. PICK B : B = {s \in SUBSET S : s \notin Good}
  OBVIOUS
<1>3. B # {} /\ B \subseteq F
  BY <1>1, <1>2
<1>4. PICK s \in B : \A u \in B : ~(<<u, s>> \in R)
  <2>1. IsWellFoundedOn(R, F)
    BY <1>1
  <2>. QED
    BY <2>1, <1>3, LeastElement
<1>5. \A u \in SUBSET s : u # s => u \in Good
  BY <1>1, <1>2, <1>4 DEF StrictSubsetOrdering
<1>. QED
  BY <1>2, <1>4, <1>5

(* Maxima, minima and counts.                                               *)

LEMMA MaxExists ==
    ASSUME NEW S \in SUBSET Int, IsFiniteSet(S), S # {}
    PROVE  Max(S) \in S
<1>. DEFINE Good == {s \in SUBSET S : s = {} \/ \E x \in s : \A y \in s : x >= y}
<1>1. ASSUME NEW s \in SUBSET S, \A u \in SUBSET s : u # s => u \in Good
      PROVE  s \in Good
  <2>1. CASE s = {}
    BY <2>1
  <2>2. CASE s # {}
    <3>1. PICK a \in s : TRUE
      BY <2>2
    <3>2. s \ {a} \in Good
      BY <1>1, <3>1
    <3>3. CASE s \ {a} = {}
      BY <3>1, <3>3
    <3>4. CASE s \ {a} # {}
      <4>1. PICK x \in s \ {a} : \A y \in s \ {a} : x >= y
        BY <3>2, <3>4
      <4>. QED
        BY <3>1, <4>1
    <3>. QED
      BY <3>3, <3>4
  <2>. QED
    BY <2>1, <2>2
<1>. HIDE DEF Good
<1>2. S \in Good
  BY <1>1, SubsetInduction
<1>3. \E x \in S : \A y \in S : x >= y
  BY <1>2 DEF Good
<1>. QED
  BY <1>3 DEF Max

LEMMA MinExists ==
    ASSUME NEW S \in SUBSET Int, IsFiniteSet(S), S # {}
    PROVE  Min(S) \in S
<1>. DEFINE Good == {s \in SUBSET S : s = {} \/ \E x \in s : \A y \in s : x <= y}
<1>1. ASSUME NEW s \in SUBSET S, \A u \in SUBSET s : u # s => u \in Good
      PROVE  s \in Good
  <2>1. CASE s = {}
    BY <2>1
  <2>2. CASE s # {}
    <3>1. PICK a \in s : TRUE
      BY <2>2
    <3>2. s \ {a} \in Good
      BY <1>1, <3>1
    <3>3. CASE s \ {a} = {}
      BY <3>1, <3>3
    <3>4. CASE s \ {a} # {}
      <4>1. PICK x \in s \ {a} : \A y \in s \ {a} : x <= y
        BY <3>2, <3>4
      <4>. QED
        BY <3>1, <4>1
    <3>. QED
      BY <3>3, <3>4
  <2>. QED
    BY <2>1, <2>2
<1>. HIDE DEF Good
<1>2. S \in Good
  BY <1>1, SubsetInduction
<1>3. \E x \in S : \A y \in S : x <= y
  BY <1>2 DEF Good
<1>. QED
  BY <1>3 DEF Min

(* Two counts of disjoint sets.                                             *)
LEMMA Disjoint ==
    ASSUME NEW S, NEW T, IsFiniteSet(S), IsFiniteSet(T), S \cap T = {}
    PROVE  IsFiniteSet(S \cup T) /\ Cardinality(S \cup T) = Cardinality(S) + Cardinality(T)
<1>1. Cardinality({}) = 0
  BY FS_EmptySet
<1>2. Cardinality(S) \in Nat /\ Cardinality(T) \in Nat
  BY FS_CardinalityType
<1>3. /\ IsFiniteSet(S \cup T)
      /\ Cardinality(S \cup T) = Cardinality(S) + Cardinality(T) - Cardinality(S \cap T)
  BY FS_Union
<1>4. Cardinality(S \cup T) = Cardinality(S) + Cardinality(T) - 0
  BY <1>1, <1>3, Zenon
<1>. QED
  BY <1>2, <1>3, <1>4

LEMMA NamesFinite == IsFiniteSet(Names)
<1>1. PICK n : n = Len(Files) /\ n \in Nat /\ DOMAIN Files = 1 .. n
  BY BuildAssumption
<1>2. IsFiniteSet(1 .. n)
  BY <1>1, FS_Interval
<1>3. Files \in Surjection(1 .. n, Names)
  BY <1>1, BuildAssumption DEF Names, Range, Surjection
<1>. QED
  BY <1>2, <1>3, FS_Surjection

(* The counts of a scan, of its decisions and of what is derived from them. *)
LEMMA Counts ==
    ASSUME NEW found \in SUBSET Names, NEW rows \in [Names -> Row], Complete(found, rows)
    PROVE  /\ DOMAIN Decisions(found, rows) = found
           /\ Having(Decisions(found, rows), "keep") = Tally(found, rows).success
           /\ Having(Decisions(found, rows), "omit") = Left(Tally(found, rows))
           /\ Having(Decisions(found, rows), "error")
                = Tally(found, rows).error + Tally(found, rows).timeout
<1>. DEFINE d == Decisions(found, rows)
            S == With(found, rows, {"success"})
            T == With(found, rows, {"timeout"})
            E == With(found, rows, {"error"})
            N == With(found, rows, {"not_parsed"})
<1>1. DOMAIN d = found /\ \A f \in found : d[f] = Action(rows[f])
  BY DEF Decisions
<1>2. \A f \in found : \/ f \in S /\ Action(rows[f]) = "keep"
                       \/ f \in T /\ Action(rows[f]) = "error"
                       \/ f \in E /\ Action(rows[f]) = "error"
                       \/ f \in N /\ Action(rows[f]) = "omit"
  <2>. SUFFICES ASSUME NEW f \in found
                PROVE  \/ f \in S /\ Action(rows[f]) = "keep"
                       \/ f \in T /\ Action(rows[f]) = "error"
                       \/ f \in E /\ Action(rows[f]) = "error"
                       \/ f \in N /\ Action(rows[f]) = "omit"
    OBVIOUS
  <2>1. rows[f].status \in RowStatuses \ {"none"}
    BY DEF Row, Complete
  <2>2. CASE rows[f].status = "success"
    BY <2>2 DEF Action, With, Failing
  <2>3. CASE rows[f].status = "timeout"
    BY <2>3 DEF Action, With, Failing
  <2>4. CASE rows[f].status = "error"
    BY <2>4 DEF Action, With, Failing
  <2>5. CASE rows[f].status = "not_parsed"
    BY <2>5 DEF Action, With, Failing
  <2>. QED
    BY <2>1, <2>2, <2>3, <2>4, <2>5 DEF RowStatuses
<1>3. /\ \A f \in S : rows[f].status = "success" /\ f \in found
      /\ \A f \in T : rows[f].status = "timeout" /\ f \in found
      /\ \A f \in E : rows[f].status = "error" /\ f \in found
      /\ \A f \in N : rows[f].status = "not_parsed" /\ f \in found
  BY DEF With
<1>4. /\ {f \in DOMAIN d : d[f] = "keep"} = S
      /\ {f \in DOMAIN d : d[f] = "omit"} = N
      /\ {f \in DOMAIN d : d[f] = "error"} = E \cup T
  <2>. HIDE DEF d, S, T, E, N
  <2>1. \A f \in S : f \notin T /\ f \notin E /\ f \notin N
    BY <1>3
  <2>2. \A f \in N : f \notin T /\ f \notin E
    BY <1>3
  <2>. QED
    BY <1>1, <1>2, <1>3, <2>1, <2>2
<1>5. IsFiniteSet(S) /\ IsFiniteSet(T) /\ IsFiniteSet(E) /\ IsFiniteSet(N)
  BY NamesFinite, FS_Subset DEF With
<1>6. /\ Cardinality(S) \in Nat /\ Cardinality(T) \in Nat
      /\ Cardinality(E) \in Nat /\ Cardinality(N) \in Nat
  BY <1>5, FS_CardinalityType
<1>7. E \cap T = {} /\ S \cap N = {} /\ (S \cup N) \cap (E \cup T) = {}
  BY <1>3
<1>8. found = (S \cup N) \cup (E \cup T)
  BY <1>2, <1>3
<1>9. /\ Cardinality(E \cup T) = Cardinality(E) + Cardinality(T) /\ IsFiniteSet(E \cup T)
      /\ Cardinality(S \cup N) = Cardinality(S) + Cardinality(N) /\ IsFiniteSet(S \cup N)
  BY <1>5, <1>7, Disjoint
<1>10. Cardinality(found) = Cardinality(S \cup N) + Cardinality(E \cup T)
  BY <1>7, <1>8, <1>9, Disjoint
<1>11. /\ Tally(found, rows).files = Cardinality(found)
       /\ Tally(found, rows).success = Cardinality(S)
       /\ Tally(found, rows).timeout = Cardinality(T)
       /\ Tally(found, rows).error = Cardinality(E)
  BY DEF Tally
<1>12. /\ Having(d, "keep") = Cardinality(S)
       /\ Having(d, "omit") = Cardinality(N)
       /\ Having(d, "error") = Cardinality(E \cup T)
  BY <1>4 DEF Having
<1>. HIDE DEF d, S, T, E, N
<1>13. Left(Tally(found, rows)) = Cardinality(N)
  BY <1>6, <1>9, <1>10, <1>11 DEF Left
<1>. QED
  BY <1>1, <1>9, <1>11, <1>12, <1>13 DEF d

(* build_error_context_record derives what the scheduler renders.           *)
LEMMA ContextsAgree ==
    ASSUME NEW found \in SUBSET Names, NEW rows \in [Names -> Row], Complete(found, rows)
    PROVE  ErrorContext(found, rows) = ScanContext(found, rows)
BY Counts DEF ErrorContext, ScanContext

LEMMA BatchChecks ==
    ASSUME NEW b \in Batches
    PROVE  CountsHold(b) /\ (DurationsHold(b) => SummaryHolds(b))
<1>1. /\ b.found \in SUBSET Names /\ b.rows \in [Names -> Row] /\ Complete(b.found, b.rows)
      /\ b.context = ScanContext(b.found, b.rows)
  BY DEF Batches
<1>2. PICK d, t : d = Decisions(b.found, b.rows) /\ t = Tally(b.found, b.rows)
  OBVIOUS
<1>3. /\ DOMAIN d = b.found /\ Having(d, "keep") = t.success
      /\ Having(d, "omit") = Left(t) /\ Having(d, "error") = t.error + t.timeout
  BY <1>1, <1>2, Counts
<1>4. /\ b.context.decisions = d
      /\ b.context.summary = Summary(t, Having(d, "keep"), Having(d, "omit"))
  BY <1>1, <1>2 DEF ScanContext
<1>5. CountsHold(b)
  BY <1>2, <1>3, <1>4 DEF CountsHold
<1>6. /\ DOMAIN d \subseteq b.found /\ Cardinality(DOMAIN d) = t.files
      /\ \A f \in DOMAIN d : d[f] = Action(b.rows[f])
  BY <1>2, <1>3 DEF Tally, Decisions
<1>7. DurationsHold(b) => SummaryHolds(b)
  BY <1>2, <1>3, <1>4, <1>6 DEF SummaryHolds
<1>. QED
  BY <1>5, <1>7

LEMMA NewBatch ==
    ASSUME NEW s \in Outcomes, NEW found \in SUBSET Names, NEW rows \in [Names -> Row],
           Complete(found, rows), NEW t \in Durations
    PROVE  BatchOf(s, found, rows, ScanContext(found, rows), t) \in Batches
BY DEF BatchOf, Batches, Contexts

LEMMA NoBatches == NoBatch \in Batches /\ FailedBatch \in Batches /\ FailedBatch.found = {}
<1>1. NoRows \in [Names -> Row] /\ Complete({}, NoRows) /\ SummedTime \in Durations
  BY DEF NoRows, NoRow, Row, RowStatuses, NoText, Complete, SummedTime, Durations
<1>2. NoBatch \in Batches
  BY <1>1, NewBatch DEF NoBatch, Outcomes
<1>3. FailedBatch = BatchOf("error", {}, NoRows, ScanContext({}, NoRows), SummedTime)
  BY DEF FailedBatch, NoBatch, BatchOf
<1>4. FailedBatch \in Batches
  BY <1>1, <1>3, NewBatch DEF Outcomes
<1>. QED
  BY <1>2, <1>3, <1>4 DEF BatchOf

---------------------------------------------------------------------------
(* The world only grows: guards go up, and a run that ended stays.          *)

Grows ==
    /\ \A f \in Names : disk[f].guard <= disk'[f].guard
    /\ \A r \in DOMAIN runs :
          /\ r \in DOMAIN runs' /\ runs'[r].request = runs[r].request
          /\ Terminal(r) => runs'[r] = runs[r]

LEMMA IdleType == Idle \in Command /\ NoSources \in [Names -> Source]
<1>1. Unseen \in Sightings /\ NoRows \in [Names -> Row]
  BY DEF Unseen, Sightings, NoText, NoRows, NoRow, Row, RowStatuses
<1>2. Idle \in Command
  BY <1>1 DEF Idle, NoTime, Command, Outcomes
<1>3. NoSource \in Source
  BY DEF NoSource, Source, NoText, NoAttempt, RowStatuses
<1>. QED
  BY <1>2, <1>3 DEF NoSources

LEMMA CommandNow ==
    ASSUME IInv, NEW e \in Engines, NEW c, c = eng[e], NEW k, k = kept[e], NEW a, a = answer[e]
    PROVE  c \in Command /\ k \in [Names -> Source] /\ Knows(c) /\ Keeps(c, k) /\ Sound(a)
<1>1. c \in Command /\ k \in [Names -> Source]
  BY DEF IInv, Types
<1>2. Knows(eng[e]) /\ Keeps(eng[e], kept[e]) /\ Sound(answer[e])
  BY DEF IInv, EngineInv
<1>3. Knows(c)
  BY <1>2 DEF Knows, Judged, Reused, Matches
<1>4. Keeps(c, k)
  BY <1>2 DEF Keeps, Printed, Attempt
<1>5. Sound(a)
  BY <1>2 DEF Sound, Attempt
<1>. QED
  BY <1>1, <1>3, <1>4, <1>5

LEMMA MatchesStays ==
    ASSUME Types, RunsInv, Grows, NEW c, NEW r, Matches(c, r)
    PROVE  Matches(c, r)' /\ runs'[r] = runs[r]
<1>1. r \in DOMAIN runs
  BY DEF Matches
<1>2. PICK n : n = runs[r].artifact
  OBVIOUS
<1>3. runs[r].status = "success" /\ runs[n].eligible
  BY <1>1, <1>2 DEF Matches
<1>4. n \in DOMAIN runs
  <2>1. RunHolds(runs[r]) /\ RefersTo(runs[r])
    BY <1>1 DEF RunsInv
  <2>. QED
    BY <1>2, <1>3, <2>1 DEF RunHolds, RefersTo, ProvenanceHolds
<1>5. runs[n].status = "success"
  <2>1. RunHolds(runs[n])
    BY <1>4 DEF RunsInv
  <2>. QED
    BY <1>3, <2>1 DEF RunHolds
<1>6. runs'[r] = runs[r] /\ runs'[n] = runs[n] /\ r \in DOMAIN runs'
  BY <1>1, <1>3, <1>4, <1>5 DEF Grows, Terminal
<1>. QED
  BY <1>1, <1>2, <1>3, <1>6 DEF Matches

LEMMA KnowsStays ==
    ASSUME Types, RunsInv, Grows, NEW c \in Command, Knows(c),
           disk' \in [Names -> [version : Nat, guard : Nat]]
    PROVE  Knows(c)'
<1>1. c.pc # "idle" => c.run \in DOMAIN runs' /\ runs'[c.run].request = c.request
  BY DEF Knows, Grows
<1>2. \A f \in Names : c.seen[f].guard <= disk'[f].guard
  <2>. TAKE f \in Names
  <2>1. /\ c.seen[f].guard \in Int /\ disk[f].guard \in Int /\ disk'[f].guard \in Int
        /\ c.seen[f].guard <= disk[f].guard /\ disk[f].guard <= disk'[f].guard
    BY DEF Knows, Grows, Types, Command, Sightings
  <2>. QED
    BY <2>1
<1>3. c.pc \in Late /\ c.from # 0 => Reused(c)'
  <2>. HAVE c.pc \in Late /\ c.from # 0
  <2>1. Reused(c)
    BY DEF Knows
  <2>2. Matches(c, c.from)' /\ runs'[c.from] = runs[c.from]
    BY <2>1, MatchesStays DEF Reused
  <2>. QED
    BY <2>1, <2>2 DEF Reused
<1>4. c.pc = "reuse" => Matches(c, c.from)'
  BY MatchesStays DEF Knows
<1>. QED
  BY <1>1, <1>2, <1>3, <1>4 DEF Knows, Judged

LEMMA KeepsStays ==
    ASSUME Types, Grows, NEW c \in Command, NEW k \in [Names -> Source], Keeps(c, k),
           disk' \in [Names -> [version : Nat, guard : Nat]]
    PROVE  Keeps(c, k)'
<1>1. ASSUME NEW f \in Names, Printed(c, f, k[f])
      PROVE  Printed(c, f, k[f])'
  <2>1. c.seen[f].guard \in Int
    BY DEF Command, Sightings
  <2>2. k[f].hash \in Int
    BY DEF Source
  <2>3. disk[f].guard \in Int /\ disk'[f].guard \in Int /\ disk[f].guard <= disk'[f].guard
    BY DEF Grows, Types
  <2>. QED
    BY <1>1, <2>1, <2>2, <2>3 DEF Printed
<1>. QED
  BY <1>1 DEF Keeps

(* A step of e, as the new command, sources and answer of e.                *)
Moves(e, y, l, a) ==
    /\ eng' = [eng EXCEPT ![e] = y]
    /\ kept' = [kept EXCEPT ![e] = l]
    /\ answer' = [answer EXCEPT ![e] = a]

Advances(e) ==
    \E y \in Command, l \in [Names -> Source] : \E a :
        Moves(e, y, l, a) /\ Knows(y)' /\ Keeps(y, l)' /\ Sound(a)

(* It is enough that the engine which takes a step knows what it says.      *)
LEMMA EnginesNext ==
    ASSUME IInv, NEW e \in Engines, Advances(e), Grows,
           disk' \in [Names -> [version : Nat, guard : Nat]]
    PROVE  /\ eng' \in [Engines -> Command] /\ kept' \in [Engines -> [Names -> Source]]
           /\ answer' = [d \in Engines |-> answer'[d]]
           /\ EngineInv'
<1>1. PICK y \in Command, l \in [Names -> Source] : \E a :
          Moves(e, y, l, a) /\ Knows(y)' /\ Keeps(y, l)' /\ Sound(a)
  BY DEF Advances
<1>2. PICK a : Moves(e, y, l, a) /\ Knows(y)' /\ Keeps(y, l)' /\ Sound(a)
  BY <1>1
<1>3. /\ eng' \in [Engines -> Command] /\ kept' \in [Engines -> [Names -> Source]]
      /\ answer' = [d \in Engines |-> answer'[d]]
  BY <1>2 DEF Moves, IInv, Types
<1>4. ASSUME NEW d \in Engines
      PROVE  Knows(eng[d])' /\ Keeps(eng[d], kept[d])' /\ Sound(answer[d])'
  <2>1. PICK x \in Command, k \in [Names -> Source] :
          x = eng'[d] /\ k = kept'[d] /\ Knows(x)' /\ Keeps(x, k)'
    <3>1. CASE d = e
      BY <1>2, <3>1 DEF Moves, IInv, Types
    <3>2. CASE d # e
      <4>1. PICK x, k : x = eng[d] /\ k = kept[d]
        OBVIOUS
      <4>2. x \in Command /\ k \in [Names -> Source] /\ Knows(x) /\ Keeps(x, k)
        BY <4>1, CommandNow
      <4>3. Knows(x)' /\ Keeps(x, k)'
        BY <4>2, KnowsStays, KeepsStays DEF IInv
      <4>4. x = eng'[d] /\ k = kept'[d]
        BY <1>2, <3>2, <4>1 DEF Moves, IInv, Types
      <4>. QED
        BY <4>2, <4>3, <4>4
    <3>. QED
      BY <3>1, <3>2
  <2>2. Knows(eng[d])'
    BY <2>1 DEF Knows, Judged, Reused, Matches
  <2>3. Keeps(eng[d], kept[d])'
    BY <2>1 DEF Keeps, Printed, Attempt
  <2>4. PICK b : b = answer'[d] /\ Sound(b)
    <3>1. CASE d = e
      BY <1>2, <3>1 DEF Moves, IInv, Types
    <3>2. CASE d # e
      <4>1. PICK b, z, m : b = answer[d] /\ z = eng[d] /\ m = kept[d]
        OBVIOUS
      <4>2. Sound(b) /\ b = answer'[d]
        BY <1>2, <3>2, <4>1, CommandNow DEF Moves, IInv, Types
      <4>. QED
        BY <4>2
    <3>. QED
      BY <3>1, <3>2
  <2>5. Sound(answer[d])'
    BY <2>4 DEF Sound, Attempt
  <2>. QED
    BY <2>2, <2>3, <2>5
<1>. QED
  BY <1>3, <1>4 DEF EngineInv

---------------------------------------------------------------------------
(* The runs.                                                                *)

LEMMA RefersStays ==
    ASSUME Types, RunsInv, Grows, NEW x, RunHolds(x), RefersTo(x)
    PROVE  RefersTo(x)'
<1>1. PICK n : n = x.artifact
  OBVIOUS
<1>2. ASSUME x.from # 0
      PROVE  runs'[n].eligible
  <2>1. n \in DOMAIN runs /\ runs[n].eligible
    BY <1>1, <1>2 DEF RunHolds, RefersTo, ProvenanceHolds
  <2>2. RunHolds(runs[n])
    BY <2>1 DEF RunsInv
  <2>3. runs'[n] = runs[n]
    BY <2>1, <2>2 DEF RunHolds, Grows, Terminal
  <2>. QED
    BY <2>1, <2>3
<1>. QED
  BY <1>1, <1>2 DEF RefersTo, Grows

(* A run as it was is as sound as it was.                                   *)
LEMMA RunStays ==
    ASSUME Types, RunsInv, Grows, NEW r \in DOMAIN runs, runs'[r] = runs[r]
    PROVE  RunHolds(runs[r])' /\ RefersTo(runs[r])'
<1>1. PICK x : x = runs[r]
  OBVIOUS
<1>2. RunHolds(x) /\ RefersTo(x)
  <2>1. RunHolds(runs[r]) /\ RefersTo(runs[r])
    BY DEF RunsInv
  <2>. QED
    BY <1>1, <2>1 DEF RunHolds, RefersTo, ProvenanceHolds, TextsMatch, Clean, With
<1>3. RunHolds(x)' /\ RefersTo(x)'
  BY <1>2, RefersStays DEF RunHolds, ProvenanceHolds, TextsMatch, Clean, With
<1>. QED
  BY <1>1, <1>3 DEF RunHolds, RefersTo, ProvenanceHolds, TextsMatch, Clean, With

LEMMA SameRuns ==
    ASSUME Types, LeaseInv, RunsInv, UNCHANGED <<runs, lease>>,
           \A f \in Names : disk[f].guard <= disk'[f].guard
    PROVE  Grows /\ RunsInv' /\ LeaseInv'
<1>1. Grows
  BY DEF Grows
<1>2. LeaseInv'
  BY DEF LeaseInv
<1>3. RunsInv'
  BY <1>1, RunStays DEF RunsInv
<1>. QED
  BY <1>1, <1>2, <1>3

(* reclaim_expired_lease and abandon_active_run write a run that has not     *)
(* ended, and only its status.                                              *)
LEMMA AbandonedHolds ==
    ASSUME NEW x \in Run, RunHolds(x), x.status = "running",
           NEW y, y = [x EXCEPT !.status = "abandoned"]
    PROVE  /\ y \in Run /\ RunHolds(y) /\ y.request = x.request
           /\ y.artifact = x.artifact /\ y.from = x.from
<1>1. /\ y \in Run /\ y.request = x.request /\ y.artifact = x.artifact /\ y.from = x.from
      /\ y.status = "abandoned" /\ y.batch = x.batch /\ y.eligible = x.eligible
  BY DEF Run
<1>. QED
  BY <1>1 DEF RunHolds

LEMMA ReclaimedHolds ==
    ASSUME Types, LeaseInv, RunsInv, NEW t, t = Reclaimed
    PROVE  /\ t \in Seq(Run) /\ Len(t) = Len(runs) /\ DOMAIN t = DOMAIN runs
           /\ \A r \in DOMAIN runs :
                 /\ Terminal(r) => t[r] = runs[r]
                 /\ RunHolds(t[r]) /\ t[r].request = runs[r].request
                 /\ t[r].artifact = runs[r].artifact /\ t[r].from = runs[r].from
<1>1. ASSUME NEW r \in DOMAIN runs
      PROVE  /\ t[r] \in Run
             /\ Terminal(r) => t[r] = runs[r]
             /\ RunHolds(t[r]) /\ t[r].request = runs[r].request
             /\ t[r].artifact = runs[r].artifact /\ t[r].from = runs[r].from
  <2>1. PICK x \in Run : x = runs[r] /\ RunHolds(x)
    <3>1. RunHolds(runs[r]) /\ runs[r] \in Run
      BY DEF RunsInv, Types
    <3>. QED
      BY <3>1
  <2>2. CASE r # lease[1]
    <3>1. t[r] = x
      BY <2>1, <2>2 DEF Reclaimed
    <3>. QED
      BY <2>1, <3>1
  <2>3. CASE r = lease[1]
    <3>1. x.status = "running"
      BY <2>1, <2>3 DEF LeaseInv, NoAttempt, Types
    <3>2. PICK y : y = [x EXCEPT !.status = "abandoned"]
      OBVIOUS
    <3>3. t[r] = y
      BY <2>1, <2>3, <3>2 DEF Reclaimed
    <3>4. /\ y \in Run /\ RunHolds(y) /\ y.request = x.request
          /\ y.artifact = x.artifact /\ y.from = x.from
      BY <2>1, <3>1, <3>2, AbandonedHolds
    <3>5. ~Terminal(r)
      BY <2>1, <3>1 DEF Terminal
    <3>. QED
      BY <2>1, <3>3, <3>4, <3>5
  <2>. QED
    BY <2>2, <2>3
<1>2. DOMAIN t = DOMAIN runs /\ DOMAIN runs = 1 .. Len(runs) /\ Len(runs) \in Nat
  BY DEF Reclaimed, Types
<1>3. t \in [1 .. Len(runs) -> Run]
  BY <1>1, <1>2 DEF Reclaimed
<1>4. t \in Seq(Run) /\ Len(t) = Len(runs)
  BY <1>2, <1>3
<1>. QED
  BY <1>1, <1>2, <1>4

Fresh(q, n) == [NewRun EXCEPT !.request = q, !.attempt = n]

LEMMA NewRunHolds ==
    ASSUME NEW q \in Requests, NEW n \in Nat, NEW x, x = Fresh(q, n)
    PROVE  /\ x \in Run /\ RunHolds(x) /\ x.request = q /\ x.status = "running" /\ x.attempt = n
           /\ x.artifact = 0 /\ x.from = 0
<1>1. Unseen \in Sightings
  BY DEF Unseen, Sightings, NoText
<1>2. /\ x \in Run /\ x.request = q /\ x.status = "running" /\ x.attempt = n
      /\ x.artifact = 0 /\ x.from = 0 /\ x.batch = NoBatch /\ ~x.eligible
  BY <1>1, NoBatches DEF Fresh, NewRun, Run
<1>3. x.status \notin {"success", "partial", "error"}
  BY <1>2
<1>4. RunHolds(x)
  BY <1>2, <1>3, Zenon DEF RunHolds
<1>. QED
  BY <1>2, <1>4, Zenon

(* The row begin_run writes: r, now x.                                      *)
Begins(e, q, t, r, x) ==
    /\ RunHolds(x) /\ x.request = q /\ x.status = "running"
    /\ x.artifact = 0 /\ x.from = 0
    /\ r > 0 /\ (r \in DOMAIN runs => runs[r].request = q /\ ~Terminal(r))
    /\ runs' \in Seq(Run) /\ DOMAIN runs' = DOMAIN runs \cup {r}
    /\ runs'[r] = x /\ \A s \in DOMAIN runs \ {r} : runs'[s] = t[s]
    /\ lease' = <<r, x.attempt>>
    /\ eng' = [eng EXCEPT ![e] = [Idle EXCEPT !.pc = "preflight", !.request = q,
                                               !.run = r, !.attempt = x.attempt]]

LEMMA StartWrites ==
    ASSUME IInv, NEW e \in Engines, NEW q \in Requests, Start(e, q), NEW t, t = Reclaimed
    PROVE  \E r \in Nat, x \in Run : Begins(e, q, t, r, x)
<1>1. /\ runs \in Seq(Run) /\ t \in Seq(Run) /\ Len(t) = Len(runs) /\ DOMAIN t = DOMAIN runs
      /\ Len(runs) \in Nat /\ DOMAIN runs = 1 .. Len(runs)
  BY ReclaimedHolds DEF IInv, Types
<1>2. PICK again : again = {r \in DOMAIN runs : runs[r].request = q}
  OBVIOUS
<1>3. PICK r : r = IF again = {} THEN Len(runs) + 1 ELSE Max(again)
  OBVIOUS
<1>4. again # {} => r \in again
  <2>. HAVE again # {}
  <2>1. again \in SUBSET (1 .. Len(runs)) /\ again \in SUBSET Int /\ IsFiniteSet(1 .. Len(runs))
    BY <1>1, <1>2, FS_Interval
  <2>2. IsFiniteSet(again)
    BY <2>1, FS_Subset
  <2>. QED
    BY <1>3, <2>1, <2>2, MaxExists
<1>5. PICK n : n = IF again = {} THEN 1 ELSE runs[r].attempt + 1
  OBVIOUS
<1>6. n \in Nat
  <2>1. CASE again = {}
    BY <1>5, <2>1
  <2>2. CASE again # {}
    <3>1. runs[r] \in Run
      BY <1>1, <1>2, <1>4, <2>2
    <3>. QED
      BY <1>5, <2>2, <3>1 DEF Run
  <2>. QED
    BY <2>1, <2>2
<1>7. PICK x : x = Fresh(q, n)
  OBVIOUS
<1>8. /\ x \in Run /\ RunHolds(x) /\ x.request = q /\ x.status = "running" /\ x.attempt = n
      /\ x.artifact = 0 /\ x.from = 0
  BY <1>6, <1>7, NewRunHolds
<1>9. /\ runs' = IF again = {} THEN Append(t, x) ELSE [t EXCEPT ![r] = x]
      /\ lease' = <<r, x.attempt>>
      /\ eng' = [eng EXCEPT ![e] = [Idle EXCEPT !.pc = "preflight", !.request = q,
                                                 !.run = r, !.attempt = x.attempt]]
  BY <1>2, <1>3, <1>5, <1>7 DEF Start, Attempt, Fresh
<1>10. r \in Nat /\ r > 0 /\ (r \in DOMAIN runs => runs[r].request = q)
  BY <1>1, <1>2, <1>3, <1>4
<1>11. r \in DOMAIN runs => ~Terminal(r)
  BY <1>10 DEF Start, Stored
<1>12. /\ runs' \in Seq(Run) /\ DOMAIN runs' = DOMAIN runs \cup {r}
       /\ runs'[r] = x /\ \A s \in DOMAIN runs \ {r} : runs'[s] = t[s]
  <2>1. CASE again = {}
    BY <1>1, <1>3, <1>8, <1>9, <2>1
  <2>2. CASE again # {}
    <3>1. r \in DOMAIN t /\ runs' = [t EXCEPT ![r] = x]
      BY <1>1, <1>2, <1>4, <1>9, <2>2
    <3>. QED
      BY <1>1, <1>8, <3>1
  <2>. QED
    BY <2>1, <2>2
<1>13. Begins(e, q, t, r, x)
  BY <1>8, <1>9, <1>10, <1>11, <1>12 DEF Begins
<1>. QED
  BY <1>8, <1>10, <1>13

LEMMA Nothing == Sound(NoAnswer)
BY DEF Sound, NoAnswer, NoSources, NoSource, Excerpt

(* A command that has just begun, from a run it replays or works on.        *)
LEMMA BegunKnows ==
    ASSUME NEW y \in Command, y.pc \in (Early \ {"reuse"}) \cup {"evidence"}, y.from = 0, ~y.refused, y.seen = Unseen,
           y.run \in DOMAIN runs', runs'[y.run].request = y.request,
           disk' \in [Names -> [version : Nat, guard : Nat]]
    PROVE  Knows(y)' /\ Keeps(y, NoSources)'
<1>1. \A f \in Names : y.seen[f].guard <= disk'[f].guard
  <2>. TAKE f \in Names
  <2>1. y.seen[f].guard = -1 /\ disk'[f].guard \in Nat
    BY DEF Unseen, NoText
  <2>. QED
    BY <2>1
<1>2. Knows(y)'
  BY <1>1 DEF Knows, Early, Late
<1>3. \A f \in Names : NoSources[f] = NoSource /\ ~Excerpt(NoSources[f])
  BY DEF NoSources, NoSource, Excerpt
<1>4. Keeps(y, NoSources)'
  BY <1>3 DEF Keeps, Early
<1>. QED
  BY <1>2, <1>4

LEMMA StartNext ==
    ASSUME IInv, NEW e \in Engines, NEW q \in Requests, Start(e, q)
    PROVE  /\ runs' \in Seq(Run) /\ lease' \in Nat \X Nat
           /\ Grows /\ RunsInv' /\ LeaseInv' /\ Advances(e)
<1>1. PICK t : t = Reclaimed
  OBVIOUS
<1>0. PICK r \in Nat, x \in Run : Begins(e, q, t, r, x)
  BY <1>1, StartWrites
<1>2. /\ RunHolds(x) /\ x.request = q /\ x.status = "running" /\ x.artifact = 0 /\ x.from = 0
      /\ r > 0 /\ (r \in DOMAIN runs => runs[r].request = q /\ ~Terminal(r))
      /\ runs' \in Seq(Run) /\ DOMAIN runs' = DOMAIN runs \cup {r}
      /\ runs'[r] = x /\ \A s \in DOMAIN runs \ {r} : runs'[s] = t[s]
      /\ lease' = <<r, x.attempt>>
      /\ eng' = [eng EXCEPT ![e] = [Idle EXCEPT !.pc = "preflight", !.request = q,
                                                 !.run = r, !.attempt = x.attempt]]
  BY <1>0 DEF Begins
<1>3. /\ DOMAIN t = DOMAIN runs
      /\ \A s \in DOMAIN runs :
            /\ Terminal(s) => t[s] = runs[s]
            /\ RunHolds(t[s]) /\ t[s].request = runs[s].request
            /\ t[s].artifact = runs[s].artifact /\ t[s].from = runs[s].from
  BY <1>1, ReclaimedHolds DEF IInv
<1>4. disk' = disk /\ disk' \in [Names -> [version : Nat, guard : Nat]]
  BY DEF Start, IInv, Types
<1>5. Grows
  <2>1. \A f \in Names : disk[f].guard <= disk'[f].guard
    BY <1>4
  <2>2. ASSUME NEW s \in DOMAIN runs
        PROVE  /\ s \in DOMAIN runs' /\ runs'[s].request = runs[s].request
               /\ Terminal(s) => runs'[s] = runs[s]
    BY <1>2, <1>3, <2>2
  <2>. QED
    BY <2>1, <2>2 DEF Grows
<1>6. RunsInv'
  <2>. SUFFICES ASSUME NEW s \in DOMAIN runs'
                PROVE  RunHolds(runs[s])' /\ RefersTo(runs[s])'
    BY DEF RunsInv
  <2>1. CASE s = r
    <3>1. RunHolds(x)' /\ RefersTo(x)'
      BY <1>2 DEF RunHolds, RefersTo, ProvenanceHolds, TextsMatch, Clean, With
    <3>. QED
      BY <1>2, <2>1, <3>1 DEF RunHolds, RefersTo, ProvenanceHolds, TextsMatch, Clean, With
  <2>2. CASE s # r
    <3>1. s \in DOMAIN runs
      BY <1>2, <2>2
    <3>2. PICK y : y = t[s] /\ y = runs'[s]
      BY <1>2, <2>2, <3>1
    <3>3. RunHolds(y)
      <4>1. RunHolds(t[s])
        BY <1>3, <3>1
      <4>. QED
        BY <3>2, <4>1 DEF RunHolds, ProvenanceHolds, TextsMatch, Clean, With
    <3>4. RefersTo(y)
      <4>1. RefersTo(runs[s])
        BY <3>1 DEF IInv, RunsInv
      <4>. QED
        BY <1>3, <3>1, <3>2, <4>1 DEF RefersTo
    <3>5. RunHolds(y)' /\ RefersTo(y)'
      BY <1>5, <3>3, <3>4, RefersStays DEF IInv, RunHolds, ProvenanceHolds, TextsMatch, Clean, With
    <3>. QED
      BY <3>2, <3>5 DEF RunHolds, RefersTo, ProvenanceHolds, TextsMatch, Clean, With
  <2>. QED
    BY <2>1, <2>2
<1>7. lease' \in Nat \X Nat /\ LeaseInv'
  BY <1>2 DEF LeaseInv, Run
<1>8. Advances(e)
  <2>1. PICK y : y = [Idle EXCEPT !.pc = "preflight", !.request = q, !.run = r,
                                  !.attempt = x.attempt]
    OBVIOUS
  <2>2. /\ y \in Command /\ y.pc \in (Early \ {"reuse"}) \cup {"evidence"} /\ y.from = 0 /\ ~y.refused
        /\ y.seen = Unseen /\ y.run = r /\ y.request = q
    <3>1. /\ y.pc = "preflight" /\ y.from = 0 /\ ~y.refused /\ y.seen = Unseen /\ y.run = r /\ y.request = q
      BY <2>1 DEF Idle
    <3>2. y \in Command
      BY <2>1, IdleType DEF Command, Early, Run
    <3>. QED
      BY <3>1, <3>2 DEF Early
  <2>3. Knows(y)' /\ Keeps(y, NoSources)'
    BY <1>2, <1>4, <2>2, BegunKnows
  <2>4. Moves(e, y, NoSources, NoAnswer)
    BY <1>2, <2>1 DEF Moves, Start, Cleared
  <2>. QED
    BY <2>2, <2>3, <2>4, IdleType, Nothing DEF Advances
<1>. QED
  BY <1>2, <1>5, <1>6, <1>7, <1>8

---------------------------------------------------------------------------
(* The steps that only move an engine on.                                   *)

LEMMA ReadyIsPrinted ==
    ASSUME IInv, NEW e \in Engines, NEW c, c = eng[e], NEW k, k = kept[e],
           c.pc \in Early \/ Ready(e), c.request \in Windowed, NEW f \in Names, Excerpt(k[f])
    PROVE  k[f].text = c.seen[f].guard /\ k[f].hash = k[f].text
<1>1. Keeps(c, k) /\ c \in Command
  <2>1. PICK a : a = answer[e]
    OBVIOUS
  <2>. QED
    BY <2>1, CommandNow
<1>2. CASE c.pc \in Early
  BY <1>1, <1>2 DEF Keeps, NoSources, NoSource, Excerpt
<1>3. CASE Ready(e)
  <2>1. c.pc \in {"fail", "print"}
    BY <1>3 DEF Ready
  <2>2. Printed(c, f, k[f])
    BY <1>1, <2>1 DEF Keeps
  <2>3. CASE c.pc = "fail"
    BY <2>2, <2>3 DEF Printed, Late
  <2>4. CASE c.pc = "print"
    <3>1. PICK i \in DOMAIN Files : Files[i] = f
      BY DEF Names, Range
    <3>2. i \notin Unprinted(e)
      BY <1>3, <2>4 DEF Ready
    <3>3. k[f].hash # NoText
      BY <3>1, <3>2 DEF Unprinted
    <3>. QED
      BY <2>2, <2>4, <3>3 DEF Printed
  <2>. QED
    BY <2>1, <2>3, <2>4
<1>. QED
  BY <1>2, <1>3

(* A command that ends, or goes on to its error.                            *)
LEMMA EndsKnows ==
    ASSUME IInv, Grows, disk' \in [Names -> [version : Nat, guard : Nat]],
           NEW e \in Engines, NEW c, c = eng[e], NEW k, k = kept[e],
           c.pc \in Early \/ Ready(e), NEW p \in {"fail", "evidence"},
           NEW y, y = [c EXCEPT !.pc = p]
    PROVE  y \in Command /\ Knows(y)' /\ Keeps(y, k)'
<1>1. PICK a : a = answer[e]
  OBVIOUS
<1>2. c \in Command /\ k \in [Names -> Source] /\ Knows(c) /\ Keeps(c, k)
  BY <1>1, CommandNow
<1>3. Knows(c)'
  BY <1>2, KnowsStays DEF IInv
<1>4. /\ y \in Command /\ y.pc = p /\ y.run = c.run /\ y.attempt = c.attempt
      /\ y.request = c.request /\ y.seen = c.seen
  BY <1>2 DEF Command
<1>5. /\ c.pc # "idle" /\ p # "idle" /\ p \notin Early /\ p \notin Late /\ p # "hash" /\ p # "printed"
      /\ p # "reuse"
  BY DEF Ready, Early, Late
<1>6. Knows(y)'
  BY <1>3, <1>4, <1>5 DEF Knows
<1>7. Keeps(y, k)'
  <2>1. \A f \in Names : k[f] # NoSource => k[f].by = Attempt(y)
    BY <1>2, <1>4, <1>5 DEF Keeps, Attempt
  <2>2. ASSUME y.request \in Windowed, NEW f \in Names, Excerpt(k[f])
        PROVE  Printed(y, f, k[f])'
    <3>1. k[f].text = c.seen[f].guard /\ k[f].hash = k[f].text
      BY <1>4, <2>2, ReadyIsPrinted
    <3>. QED
      BY <1>4, <3>1 DEF Printed
  <2>. QED
    BY <1>4, <1>5, <2>1, <2>2 DEF Keeps
<1>. QED
  BY <1>4, <1>6, <1>7

(* A command that goes on before it has anything.                           *)
LEMMA EarlyKnows ==
    ASSUME IInv, Grows, disk' \in [Names -> [version : Nat, guard : Nat]],
           NEW e \in Engines, NEW c, c = eng[e], NEW k, k = kept[e], c.pc \in Early,
           NEW y \in Command, y.pc \in Early, y.run = c.run, y.attempt = c.attempt,
           y.request = c.request, ~y.refused, y.pc # "reuse" => y.from = 0,
           \A f \in Names : y.seen[f].guard <= disk'[f].guard,
           y.pc = "reuse" => Matches(y, y.from)'
    PROVE  Knows(y)' /\ Keeps(y, k)'
<1>1. PICK a : a = answer[e]
  OBVIOUS
<1>2. c \in Command /\ k \in [Names -> Source] /\ Knows(c) /\ Keeps(c, k)
  BY <1>1, CommandNow
<1>3. Knows(c)'
  BY <1>2, KnowsStays DEF IInv
<1>4. c.pc # "idle" /\ y.pc # "idle" /\ y.pc \notin Late /\ y.pc # "hash" /\ y.pc # "printed"
  BY DEF Early, Late
<1>5. Knows(y)'
  BY <1>3, <1>4 DEF Knows
<1>6. k = NoSources
  BY <1>2 DEF Keeps
<1>7. \A f \in Names : k[f] = NoSource /\ ~Excerpt(k[f])
  BY <1>6 DEF NoSources, NoSource, Excerpt
<1>8. Keeps(y, k)'
  BY <1>4, <1>6, <1>7 DEF Keeps
<1>. QED
  BY <1>5, <1>8

---------------------------------------------------------------------------
(* The terminal commit.                                                     *)

(* What each of the writers makes: b.                                       *)
Writes(c, b) ==
    /\ b \in Batches /\ b.status \in {"success", "partial", "error"}
    /\ c.pc = "fail" => b.status = "error"
    /\ b.status # "error" => b.found = c.found /\ b.rows = c.rows
    /\ b.status = "success" => Clean(b.found, b.rows)
    /\ c.pc = "print" /\ c.from # 0 => b.status = "success"
    /\ c.pc = "print" /\ c.kind = "success" => b.status = "success"

LEMMA OutcomeKinds ==
    ASSUME NEW found \in SUBSET Names, NEW rows \in [Names -> Row]
    PROVE  /\ Outcome(found, rows) \in {"success", "partial", "error"}
           /\ Outcome(found, rows) = "success" => Clean(found, rows)
BY DEF Outcome, Clean

LEMMA BatchHolds ==
    ASSUME IInv, NEW c \in Command, Knows(c), c.pc \in {"print", "fail"}, NEW b, b = Batch(c)
    PROVE  Writes(c, b)
<1>1. CASE c.pc = "fail"
  <2>1. b = FailedBatch
    BY <1>1 DEF Batch
  <2>2. b \in Batches /\ b.status = "error"
    BY <2>1, NoBatches DEF FailedBatch, NoBatch, BatchOf
  <2>. QED
    BY <1>1, <2>2 DEF Writes
<1>2. CASE c.pc = "print" /\ c.from # 0
  <2>1. Reused(c) /\ Complete(c.found, c.rows)
    BY <1>2 DEF Knows, Late
  <2>2. PICK x \in Run : x = runs[c.from] /\ RunHolds(x)
    <3>1. c.from \in DOMAIN runs /\ RunHolds(runs[c.from])
      BY <2>1 DEF Reused, Matches, IInv, RunsInv
    <3>2. runs[c.from] \in Run
      BY <3>1 DEF IInv, Types
    <3>. QED
      BY <3>1, <3>2
  <2>3. /\ x.status = "success" /\ x.batch \in Batches
        /\ c.rows = x.batch.rows /\ c.found = x.batch.found
    BY <2>1, <2>2 DEF Reused, Matches, Run
  <2>4. b = BatchOf("success", c.found, c.rows, x.batch.context, HitTime(c))
    BY <1>2, <2>2 DEF Batch, SnapshotBatch
  <2>5. x.batch.context = ScanContext(c.found, c.rows)
    BY <2>3 DEF Batches
  <2>6. c.found \in SUBSET Names /\ c.rows \in [Names -> Row] /\ HitTime(c) \in Durations
    BY DEF Command, HitTime, Durations
  <2>7. b = BatchOf("success", c.found, c.rows, ScanContext(c.found, c.rows), HitTime(c))
    BY <2>4, <2>5
  <2>8. b \in Batches
    BY <2>1, <2>6, <2>7, NewBatch DEF Outcomes
  <2>9. b.status = "success" /\ b.found = c.found /\ b.rows = c.rows
    BY <2>7 DEF BatchOf
  <2>10. Clean(b.found, b.rows)
    BY <2>2, <2>3, <2>9 DEF RunHolds
  <2>. QED
    BY <1>2, <2>8, <2>9, <2>10 DEF Writes
<1>3. CASE c.pc = "print" /\ c.from = 0
  <2>1. Complete(c.found, c.rows) /\ c.kind = Outcome(c.found, c.rows)
    BY <1>3 DEF Knows, Late
  <2>2. c.found \in SUBSET Names /\ c.rows \in [Names -> Row] /\ SummedTime \in Durations
    BY DEF Command, SummedTime, Durations
  <2>3. ErrorContext(c.found, c.rows) = ScanContext(c.found, c.rows)
    BY <2>1, <2>2, ContextsAgree
  <2>4. b = ScanBatch(c)
    BY <1>3 DEF Batch
  <2>5. b = BatchOf(c.kind, c.found, c.rows, ScanContext(c.found, c.rows), SummedTime)
    BY <2>3, <2>4 DEF ScanBatch
  <2>6. /\ c.kind \in {"success", "partial", "error"}
        /\ c.kind = "success" => Clean(c.found, c.rows)
    BY <2>1, <2>2, OutcomeKinds
  <2>7. b \in Batches
    BY <2>1, <2>2, <2>5, <2>6, NewBatch DEF Outcomes
  <2>8. b.status = c.kind /\ b.found = c.found /\ b.rows = c.rows
    BY <2>5 DEF BatchOf
  <2>. QED
    BY <1>3, <2>6, <2>7, <2>8 DEF Writes
<1>. QED
  BY <1>1, <1>2, <1>3

(* What the commands are about to write passes every check of the store, but *)
(* for a hit with a long lookup and a scan with a row of a foreign audit.    *)
LEMMA BatchIsValid ==
    ASSUME IInv, NEW c \in Command, Knows(c), c.pc \in {"print", "fail"}
    PROVE  CountsHold(Batch(c)) /\ (BatchValid(c) \/ RefusedHit(c) \/ RefusedScan(c))
<1>1. PICK b : b = Batch(c) /\ Writes(c, b)
  BY BatchHolds
<1>2. CountsHold(b)
  BY <1>1, BatchChecks DEF Writes
<1>3. CountsHold(Batch(c))
  BY <1>1, <1>2 DEF CountsHold
<1>4. c.pc = "print" /\ c.from # 0 => With(b.found, b.rows, Failing) = {}
  BY <1>1 DEF Writes, Clean
<1>5. CASE c.pc = "fail"
  <2>1. b.time = SummedTime
    BY <1>1, <1>5 DEF Batch, FailedBatch, NoBatch, BatchOf
  <2>2. DurationsHold(b)
    BY <2>1 DEF DurationsHold, SummedTime
  <2>. QED
    BY <1>1, <1>3, <1>5, <2>2 DEF BatchValid, DurationsHold
<1>6. CASE c.pc = "print" /\ c.from # 0
  <2>1. ~c.refused
    BY <1>6 DEF Knows, Judged, Late
  <2>2. b.time = HitTime(c)
    BY <1>1, <1>6 DEF Batch, SnapshotBatch, BatchOf
  <2>3. c.time.lookup \in Nat /\ c.time.other \in Nat
    BY DEF Command
  <2>4. DurationsHold(b) \/ RefusedHit(c)
    BY <1>6, <2>2, <2>3 DEF DurationsHold, HitTime, RefusedHit
  <2>. QED
    BY <1>1, <1>3, <1>4, <2>1, <2>4 DEF BatchValid, DurationsHold
<1>7. CASE c.pc = "print" /\ c.from = 0
  <2>1. b.time = SummedTime
    BY <1>1, <1>7 DEF Batch, ScanBatch, BatchOf
  <2>2. DurationsHold(b)
    BY <2>1 DEF DurationsHold, SummedTime
  <2>3. ~c.refused \/ RefusedScan(c)
    BY <1>7 DEF Knows, Judged, Late, RefusedScan
  <2>. QED
    BY <1>1, <1>3, <1>7, <2>2, <2>3 DEF BatchValid, DurationsHold
<1>. QED
  BY <1>3, <1>5, <1>6, <1>7

(* The row x after the transaction, for a batch b and an artifact n.        *)
Ended(c, b, n, x) ==
    [x EXCEPT !.status = b.status, !.batch = b,
              !.seen = IF b.found = {} THEN Unseen ELSE c.seen,
              !.artifact = n,
              !.eligible = n = c.run /\ Eligible(c),
              !.warned = c.warned,
              !.from = IF b.status = "error" THEN 0 ELSE c.from]

(* The artifact it refers to.                                               *)
Artifact(c, b, n) ==
    /\ n \in Nat
    /\ b.status = "error" <=> n = 0
    /\ b.status # "error" => n \in DOMAIN runs
    /\ b.status # "error" /\ c.from # 0 => runs[n].eligible

LEMMA ArtifactHolds ==
    ASSUME IInv, NEW c \in Command, Knows(c), c.pc \in {"print", "fail"},
           NEW b, b = Batch(c), NEW n, n = ArtifactOf(c)
    PROVE  Artifact(c, b, n)
<1>1. Writes(c, b)
  BY BatchHolds
<1>2. CASE b.status = "error"
  <2>1. n = 0
    BY <1>2 DEF ArtifactOf
  <2>. QED
    BY <1>2, <2>1 DEF Artifact
<1>3. CASE b.status # "error" /\ c.from # 0
  <2>1. Reused(c)
    BY <1>1, <1>3 DEF Writes, Knows, Late
  <2>2. c.from \in DOMAIN runs /\ runs[c.from].status = "success" /\ runs[n].eligible
        /\ n = runs[c.from].artifact
    BY <1>3, <2>1 DEF Reused, Matches, ArtifactOf
  <2>3. RunHolds(runs[c.from]) /\ RefersTo(runs[c.from]) /\ runs[c.from] \in Run
    BY <2>2 DEF IInv, RunsInv, Types
  <2>4. n \in DOMAIN runs /\ n # 0 /\ n \in Nat
    BY <2>2, <2>3 DEF RunHolds, RefersTo, ProvenanceHolds, Run
  <2>. QED
    BY <1>3, <2>2, <2>4 DEF Artifact
<1>4. CASE b.status # "error" /\ c.from = 0
  <2>1. n = c.run
    BY <1>4 DEF ArtifactOf
  <2>2. c.run \in DOMAIN runs /\ runs \in Seq(Run)
    BY <1>1, <1>4 DEF Knows, IInv, Types
  <2>. QED
    BY <1>4, <2>1, <2>2 DEF Artifact
<1>. QED
  BY <1>2, <1>3, <1>4

LEMMA EndedHolds ==
    ASSUME IInv, NEW c \in Command, Knows(c), c.pc \in {"print", "fail"}, NEW b, Writes(c, b),
           DurationsHold(b), NEW n, Artifact(c, b, n), NEW x \in Run, x.request = c.request,
           NEW z, z = Ended(c, b, n, x)
    PROVE  /\ z \in Run /\ RunHolds(z) /\ RefersTo(z)
           /\ z.request = x.request
<1>1. Unseen \in Sightings
  BY DEF Unseen, Sightings, NoText
<1>2. PICK s : s = IF b.found = {} THEN Unseen ELSE c.seen
  OBVIOUS
<1>3. PICK m : m = IF b.status = "error" THEN 0 ELSE c.from
  OBVIOUS
<1>4. PICK g \in BOOLEAN : g = (n = c.run /\ Eligible(c))
  BY DEF Eligible
<1>5. s \in Sightings /\ m \in Nat /\ n \in Nat /\ b \in Batches /\ c.warned \in BOOLEAN
  BY <1>1, <1>2, <1>3 DEF Command, Artifact, Writes
<1>6. b.status \in Outcomes
  BY DEF Writes, Outcomes
<1>7. z = [x EXCEPT !.status = b.status, !.batch = b, !.seen = s, !.artifact = n,
                    !.eligible = g, !.warned = c.warned, !.from = m]
  BY <1>2, <1>3, <1>4 DEF Ended
<1>8. /\ z \in Run /\ z.request = x.request /\ z.status = b.status /\ z.batch = b
      /\ z.seen = s /\ z.artifact = n /\ z.eligible = g /\ z.warned = c.warned /\ z.from = m
  BY <1>5, <1>6, <1>7 DEF Run
<1>9. m # 0 => b.status = "success" /\ runs[n].eligible
  <2>. HAVE m # 0
  <2>1. b.status # "error" /\ c.from # 0
    BY <1>3
  <2>. QED
    BY <2>1 DEF Writes, Artifact
<1>10. g => b.status = "success" /\ ~c.warned
  <2>. HAVE g
  <2>1. n = c.run /\ c.kind = "success" /\ ~c.warned
    BY <1>4 DEF Eligible
  <2>2. c.run # 0
    BY DEF Knows, IInv, Types
  <2>3. b.status # "error"
    BY <2>1, <2>2 DEF Artifact
  <2>. QED
    BY <2>1, <2>3 DEF Writes
<1>11. ProvenanceHolds(z)
  BY <1>3, <1>8 DEF ProvenanceHolds, Artifact
<1>12. b.status \in {"success", "partial"} /\ x.request \in Windowed =>
          TextsMatch(b.found, b.rows, s)
  <2>. HAVE b.status \in {"success", "partial"} /\ x.request \in Windowed
  <2>1. c.pc = "print" /\ b.found = c.found /\ b.rows = c.rows
    BY DEF Writes
  <2>2. TextsMatch(c.found, c.rows, c.seen)
    BY <2>1 DEF Knows, Late
  <2>. QED
    BY <1>2, <2>1, <2>2 DEF TextsMatch
<1>13. RunHolds(z)
  <2>1. b.status \in {"success", "partial", "error"} /\ (b.status = "success" => Clean(b.found, b.rows))
    BY DEF Writes
  <2>. QED
    BY <1>8, <1>9, <1>10, <1>11, <1>12, <2>1 DEF RunHolds, DurationsHold
<1>14. RefersTo(z)
  BY <1>8, <1>9 DEF RefersTo, Artifact
<1>. QED
  BY <1>8, <1>13, <1>14

(* One row r of the store, open until now, is rewritten as z.               *)
LEMMA RowWritten ==
    ASSUME IInv, NEW r \in DOMAIN runs, ~Terminal(r), NEW z \in Run, RunHolds(z), RefersTo(z),
           z.request = runs[r].request, runs' = [runs EXCEPT ![r] = z], disk' = disk
    PROVE  runs' \in Seq(Run) /\ Grows /\ RunsInv'
<1>1. runs \in Seq(Run)
  BY DEF IInv, Types
<1>2. /\ runs' \in Seq(Run) /\ DOMAIN runs' = DOMAIN runs /\ runs'[r] = z
      /\ \A s \in DOMAIN runs \ {r} : runs'[s] = runs[s]
  BY <1>1
<1>3. Grows
  <2>1. \A f \in Names : disk[f].guard <= disk'[f].guard
    BY DEF IInv, Types
  <2>2. ASSUME NEW s \in DOMAIN runs
        PROVE  /\ s \in DOMAIN runs' /\ runs'[s].request = runs[s].request
               /\ Terminal(s) => runs'[s] = runs[s]
    BY <1>2
  <2>. QED
    BY <2>1, <2>2 DEF Grows
<1>4. RunsInv'
  <2>. SUFFICES ASSUME NEW s \in DOMAIN runs'
                PROVE  RunHolds(runs[s])' /\ RefersTo(runs[s])'
    BY DEF RunsInv
  <2>1. CASE s = r
    <3>1. RunHolds(z)' /\ RefersTo(z)'
      BY <1>3, RefersStays DEF IInv, RunHolds, ProvenanceHolds, TextsMatch, Clean, With
    <3>. QED
      BY <1>2, <2>1, <3>1 DEF RunHolds, RefersTo, ProvenanceHolds, TextsMatch, Clean, With
  <2>2. CASE s # r
    BY <1>2, <1>3, <2>2, RunStays DEF IInv
  <2>. QED
    BY <2>1, <2>2
<1>. QED
  BY <1>2, <1>3, <1>4

LEMMA FinalizedAs ==
    ASSUME NEW e \in Engines, NEW c, c = eng[e], Finalized(e),
           NEW b, b = Batch(c), NEW n, n = ArtifactOf(c)
    PROVE  runs' = [runs EXCEPT ![c.run] = Ended(c, b, n, runs[c.run])]
<1>1. b = Batch(eng[e])
  BY DEF Batch, SnapshotBatch, ScanBatch, ErrorContext, ScanContext, HitTime
<1>2. n = ArtifactOf(eng[e])
  BY <1>1 DEF ArtifactOf
<1>3. Eligible(c) <=> Eligible(eng[e])
  BY DEF Eligible
<1>. QED
  BY <1>1, <1>2, <1>3 DEF Finalized, Ended

(* The owner of the lease works on a run that has not ended.                *)
LEMMA OwnedIsOpen ==
    ASSUME IInv, NEW e \in Engines, NEW c, c = eng[e], c.pc # "idle", Owned(e)
    PROVE  c.run \in DOMAIN runs /\ ~Terminal(c.run) /\ runs[c.run].status = "running"
<1>1. c.run \in DOMAIN runs
  BY DEF IInv, EngineInv, Knows
<1>2. c.run > 0 /\ lease = <<c.run, c.attempt>>
  BY <1>1 DEF IInv, Types, Owned, Attempt
<1>3. lease # NoAttempt /\ lease[1] = c.run
  BY <1>2 DEF NoAttempt
<1>4. runs[c.run].status = "running"
  BY <1>3 DEF IInv, LeaseInv
<1>. QED
  BY <1>1, <1>4 DEF Terminal

LEMMA NoLease ==
    ASSUME lease' = NoAttempt
    PROVE  lease' \in Nat \X Nat /\ LeaseInv'
BY DEF NoAttempt, LeaseInv

LEMMA AbandonNext ==
    ASSUME IInv, NEW e \in Engines, NEW c, c = eng[e], c.pc # "idle", Abandon(e), disk' = disk
    PROVE  /\ runs' \in Seq(Run) /\ lease' \in Nat \X Nat
           /\ Grows /\ RunsInv' /\ LeaseInv'
<1>1. CASE Owned(e)
  <2>1. c.run \in DOMAIN runs /\ ~Terminal(c.run) /\ runs[c.run].status = "running"
    BY <1>1, OwnedIsOpen
  <2>2. PICK x \in Run : x = runs[c.run] /\ RunHolds(x) /\ RefersTo(x)
    <3>1. runs[c.run] \in Run /\ RunHolds(runs[c.run]) /\ RefersTo(runs[c.run])
      BY <2>1 DEF IInv, Types, RunsInv
    <3>. QED
      BY <3>1 DEF RefersTo
  <2>3. PICK z : z = [x EXCEPT !.status = "abandoned"]
    OBVIOUS
  <2>4. /\ z \in Run /\ RunHolds(z) /\ z.request = x.request
        /\ z.artifact = x.artifact /\ z.from = x.from
    BY <2>1, <2>2, <2>3, AbandonedHolds
  <2>5. RefersTo(z)
    BY <2>2, <2>4 DEF RefersTo
  <2>6. runs' = [runs EXCEPT ![c.run] = z] /\ lease' = NoAttempt
    BY <1>1, <2>2, <2>3 DEF Abandon
  <2>7. z.request = runs[c.run].request
    BY <2>2, <2>4
  <2>. QED
    BY <2>1, <2>4, <2>5, <2>6, <2>7, RowWritten, NoLease
<1>2. CASE ~Owned(e)
  <2>1. UNCHANGED <<runs, lease>> /\ \A f \in Names : disk[f].guard <= disk'[f].guard
    BY <1>2 DEF Abandon, IInv, Types
  <2>. QED
    BY <2>1, SameRuns DEF IInv, Types
<1>. QED
  BY <1>1, <1>2

LEMMA CommitNext ==
    ASSUME IInv, NEW e \in Engines, Commit(e)
    PROVE  /\ runs' \in Seq(Run) /\ lease' \in Nat \X Nat
           /\ Grows /\ RunsInv' /\ LeaseInv' /\ Advances(e)
<1>1. PICK c, k, a : c = eng[e] /\ k = kept[e] /\ a = answer[e]
  OBVIOUS
<1>2. c \in Command /\ k \in [Names -> Source] /\ Knows(c) /\ Sound(a)
  BY <1>1, CommandNow
<1>3. Ready(e) /\ c.pc \in {"print", "fail"} /\ c.pc # "idle" /\ disk' = disk
  BY <1>1 DEF Commit, Ready
<1>4. /\ runs' \in Seq(Run) /\ lease' \in Nat \X Nat
      /\ Grows /\ RunsInv' /\ LeaseInv'
  <2>1. CASE Owned(e) /\ BatchValid(eng[e]) /\ Finalized(e) /\ lease' = NoAttempt
    <3>1. PICK b, n : b = Batch(c) /\ n = ArtifactOf(c)
      OBVIOUS
    <3>2. Writes(c, b) /\ Artifact(c, b, n)
      BY <1>2, <1>3, <3>1, BatchHolds, ArtifactHolds
    <3>3. c.run \in DOMAIN runs /\ ~Terminal(c.run)
      BY <1>1, <1>3, <2>1, OwnedIsOpen
    <3>4. PICK x \in Run : x = runs[c.run] /\ x.request = c.request
      BY <1>2, <1>3, <3>3 DEF IInv, Types, Knows
    <3>5. PICK z : z = Ended(c, b, n, x)
      OBVIOUS
    <3>9. DurationsHold(b)
      <4>1. b = Batch(eng[e])
        BY <1>1, <3>1 DEF Batch, SnapshotBatch, ScanBatch, ErrorContext, ScanContext, HitTime
      <4>. QED
        BY <2>1, <4>1 DEF BatchValid, DurationsHold
    <3>6. z \in Run /\ RunHolds(z) /\ RefersTo(z) /\ z.request = x.request
      BY <1>2, <1>3, <3>2, <3>4, <3>5, <3>9, EndedHolds
    <3>7. runs' = [runs EXCEPT ![c.run] = z]
      BY <1>1, <2>1, <3>1, <3>4, <3>5, FinalizedAs
    <3>8. z.request = runs[c.run].request
      BY <3>4, <3>6
    <3>. QED
      BY <1>3, <2>1, <3>3, <3>6, <3>7, <3>8, RowWritten, NoLease
  <2>2. CASE Abandon(e)
    BY <1>1, <1>3, <2>2, AbandonNext
  <2>. QED
    BY <2>1, <2>2 DEF Commit
<1>5. Advances(e)
  <2>1. PICK y : y = [c EXCEPT !.pc = "evidence"]
    OBVIOUS
  <2>2. disk' \in [Names -> [version : Nat, guard : Nat]]
    BY <1>3 DEF IInv, Types
  <2>3. y \in Command /\ Knows(y)' /\ Keeps(y, k)'
    BY <1>1, <1>3, <1>4, <2>1, <2>2, EndsKnows
  <2>4. Goto(e, "evidence") /\ UNCHANGED <<kept, answer>>
    BY DEF Commit, Abandon
  <2>5. Moves(e, y, k, a)
    BY <1>1, <2>1, <2>4 DEF Goto, Moves, IInv, Types
  <2>. QED
    BY <1>2, <2>3, <2>5 DEF Advances
<1>. QED
  BY <1>4, <1>5

---------------------------------------------------------------------------
(* The other steps of an engine leave the runs and the disk alone.          *)

Quiet == UNCHANGED <<disk, runs, lease>>

LEMMA QuietGrows ==
    ASSUME IInv, Quiet
    PROVE  /\ Grows /\ RunsInv' /\ LeaseInv'
           /\ disk' = disk /\ disk' \in [Names -> [version : Nat, guard : Nat]]
<1>1. \A f \in Names : disk[f].guard <= disk'[f].guard
  BY DEF IInv, Types, Quiet
<1>. QED
  BY <1>1, SameRuns DEF IInv, Types, Quiet

(* Sources and answer stay as they are.                                     *)
LEMMA MovesOn ==
    ASSUME IInv, NEW e \in Engines, NEW y \in Command, eng' = [eng EXCEPT ![e] = y],
           UNCHANGED <<kept, answer>>, NEW k, k = kept[e], Knows(y)', Keeps(y, k)'
    PROVE  Advances(e)
<1>1. PICK c, a : c = eng[e] /\ a = answer[e]
  OBVIOUS
<1>2. k \in [Names -> Source] /\ Sound(a)
  BY <1>1, CommandNow
<1>3. Moves(e, y, k, a)
  BY <1>1 DEF Moves, IInv, Types
<1>. QED
  BY <1>2, <1>3 DEF Advances

LEMMA GoesEarly ==
    ASSUME IInv, Quiet, NEW e \in Engines, eng[e].pc \in Early \ {"reuse"},
           NEW p \in Early \ {"reuse"}, Goto(e, p), UNCHANGED <<kept, answer>>
    PROVE  Advances(e)
<1>1. PICK c, k, y : c = eng[e] /\ k = kept[e] /\ y = [c EXCEPT !.pc = p]
  OBVIOUS
<1>2. c \in Command /\ c.from = 0 /\ ~c.refused
  BY <1>1 DEF IInv, Types, EngineInv, Knows
<1>3. /\ y \in Command /\ y.pc = p /\ y.run = c.run /\ y.attempt = c.attempt
      /\ y.request = c.request /\ y.from = 0 /\ ~y.refused /\ y.seen = c.seen
  BY <1>1, <1>2 DEF Command
<1>4. \A f \in Names : y.seen[f].guard <= disk'[f].guard
  BY <1>1, <1>3 DEF IInv, EngineInv, Knows, Quiet
<1>5. Knows(y)' /\ Keeps(y, k)'
  BY <1>1, <1>3, <1>4, QuietGrows, EarlyKnows
<1>6. eng' = [eng EXCEPT ![e] = y]
  BY <1>1 DEF Goto, IInv, Types
<1>. QED
  BY <1>1, <1>3, <1>5, <1>6, MovesOn

LEMMA GoesToEnd ==
    ASSUME IInv, Quiet, NEW e \in Engines, eng[e].pc \in Early \/ Ready(e),
           NEW p \in {"fail", "evidence"}, Goto(e, p), UNCHANGED <<kept, answer>>
    PROVE  Advances(e)
<1>1. PICK c, k, y : c = eng[e] /\ k = kept[e] /\ y = [c EXCEPT !.pc = p]
  OBVIOUS
<1>2. y \in Command /\ Knows(y)' /\ Keeps(y, k)'
  BY <1>1, QuietGrows, EndsKnows
<1>3. eng' = [eng EXCEPT ![e] = y]
  BY <1>1 DEF Goto, IInv, Types
<1>. QED
  BY <1>1, <1>2, <1>3, MovesOn

LEMMA PlainSteps ==
    ASSUME IInv, NEW e \in Engines,
           \/ Preflight(e) \/ StageFails(e) \/ PrepareInventory(e) \/ Invalid(e) \/ GiveUp(e)
    PROVE  Quiet /\ parse' = parse /\ Advances(e)
<1>1. Quiet /\ UNCHANGED <<parse, kept, answer>>
  BY DEF Preflight, StageFails, PrepareInventory, Invalid, GiveUp, Quiet, tables
<1>2. CASE Preflight(e)
  BY <1>1, <1>2, GoesEarly, GoesToEnd DEF Preflight, Early
<1>3. CASE StageFails(e)
  BY <1>1, <1>3, GoesToEnd DEF StageFails, Early
<1>4. CASE PrepareInventory(e)
  BY <1>1, <1>4, GoesEarly DEF PrepareInventory, Early
<1>6. CASE Invalid(e) \/ GiveUp(e)
  BY <1>1, <1>6, GoesToEnd DEF Invalid, GiveUp
<1>. QED
  BY <1>1, <1>2, <1>3, <1>4, <1>6

LEMMA DiscoverNext ==
    ASSUME IInv, NEW e \in Engines, NEW found \in SUBSET Names, Discover(e, found)
    PROVE  Quiet /\ parse' = parse /\ Advances(e)
<1>1. Quiet /\ UNCHANGED <<parse, kept, answer>>
  BY DEF Discover, Quiet, tables
<1>2. PICK s : s = Report(found)
  OBVIOUS
<1>3. s \in Sightings /\ \A f \in Names : s[f].guard = -1
  BY <1>2 DEF Report, Sightings, Unseen, NoText, IInv, Types
<1>4. PICK c, k, y : /\ c = eng[e] /\ k = kept[e]
                     /\ y = [c EXCEPT !.pc = "guards", !.found = found, !.seen = s]
  OBVIOUS
<1>5. c \in Command /\ c.pc \in Early /\ c.from = 0 /\ ~c.refused
  BY <1>4 DEF IInv, Types, EngineInv, Knows, Discover, Early
<1>6. /\ y \in Command /\ y.pc = "guards" /\ y.run = c.run /\ y.attempt = c.attempt
      /\ y.request = c.request /\ y.from = 0 /\ ~y.refused /\ y.seen = s
  BY <1>3, <1>4, <1>5 DEF Command, Early
<1>7. \A f \in Names : y.seen[f].guard <= disk'[f].guard
  <2>. TAKE f \in Names
  <2>1. y.seen[f].guard = -1 /\ disk'[f].guard \in Nat
    BY <1>1, <1>3, <1>6, QuietGrows
  <2>. QED
    BY <2>1
<1>8. Knows(y)' /\ Keeps(y, k)'
  BY <1>1, <1>4, <1>5, <1>6, <1>7, QuietGrows, EarlyKnows DEF Early
<1>9. eng' = [eng EXCEPT ![e] = y]
  BY <1>2, <1>4 DEF Discover, IInv, Types
<1>. QED
  BY <1>1, <1>4, <1>6, <1>8, <1>9, MovesOn

LEMMA AttachNext ==
    ASSUME IInv, NEW e \in Engines, NEW lost \in SUBSET Names, AttachGuards(e, lost)
    PROVE  Quiet /\ parse' = parse /\ Advances(e)
<1>1. Quiet /\ UNCHANGED <<parse, kept, answer>>
  BY DEF AttachGuards, Quiet, tables
<1>2. PICK c, k : c = eng[e] /\ k = kept[e]
  OBVIOUS
<1>3. PICK s : s = [f \in Names |-> IF f \in c.found \ lost
                        THEN [c.seen[f] EXCEPT !.guard = disk[f].guard] ELSE c.seen[f]]
  OBVIOUS
<1>4. /\ c \in Command /\ c.pc \in Early /\ c.from = 0 /\ ~c.refused
      /\ \A f \in Names : c.seen[f].guard <= disk[f].guard
  BY <1>2 DEF IInv, Types, AttachGuards, Early, EngineInv, Knows
<1>5. \A f \in Names : s[f] \in [version : Nat, guard : Int] /\ s[f].guard <= disk[f].guard
  <2>. TAKE f \in Names
  <2>1. c.seen[f] \in [version : Nat, guard : Int] /\ disk[f].guard \in Nat
    BY <1>4 DEF Command, Sightings, IInv, Types
  <2>2. CASE f \in c.found \ lost
    BY <1>3, <2>1, <2>2
  <2>3. CASE f \notin c.found \ lost
    BY <1>3, <1>4, <2>1, <2>3
  <2>. QED
    BY <2>2, <2>3
<1>6. s \in Sightings
  BY <1>3, <1>5 DEF Sightings
<1>7. PICK y : y = [c EXCEPT !.pc = "inventory", !.seen = s]
  OBVIOUS
<1>8. /\ y \in Command /\ y.pc = "inventory" /\ y.run = c.run /\ y.attempt = c.attempt
      /\ y.request = c.request /\ y.from = 0 /\ ~y.refused /\ y.seen = s
  BY <1>4, <1>6, <1>7 DEF Command, Early
<1>9. \A f \in Names : y.seen[f].guard <= disk'[f].guard
  BY <1>1, <1>5, <1>8 DEF Quiet
<1>10. Knows(y)' /\ Keeps(y, k)'
  BY <1>1, <1>2, <1>4, <1>8, <1>9, QuietGrows, EarlyKnows DEF Early
<1>11. eng' = [eng EXCEPT ![e] = y]
  BY <1>2, <1>3, <1>7 DEF AttachGuards, IInv, Types
<1>. QED
  BY <1>1, <1>2, <1>8, <1>10, <1>11, MovesOn

---------------------------------------------------------------------------
(* The steps that make the sources.                                         *)

LEMMA NewSources ==
    ASSUME NEW c \in Command, NEW y \in Command, NEW rows \in [Names -> Row],
           y.pc = "print", y.run = c.run, y.attempt = c.attempt, y.request = c.request,
           y.seen = c.seen, c.request \in Windowed => TextsMatch(c.found, rows, c.seen),
           NEW l, l = SourcesOf(c, rows)
    PROVE  l \in [Names -> Source] /\ Keeps(y, l)'
<1>1. Attempt(c) \in Nat \X Nat /\ Attempt(c) = Attempt(y)
  BY DEF Attempt, Command
<1>2. ASSUME NEW f \in Names
      PROVE  /\ l[f] \in Source /\ (l[f] # NoSource => l[f].by = Attempt(y))
             /\ y.request \in Windowed /\ Excerpt(l[f]) => Printed(y, f, l[f])'
  <2>1. CASE f \in c.found
    <3>1. PICK s : s = [status |-> rows[f].status, text |-> rows[f].text, hash |-> NoText,
                        by |-> Attempt(c)]
      OBVIOUS
    <3>2. l[f] = s
      BY <2>1, <3>1 DEF SourcesOf
    <3>3. s \in Source /\ s.by = Attempt(y)
      BY <1>1, <3>1 DEF Source, NoText, Row
    <3>4. ASSUME y.request \in Windowed, Excerpt(s)
          PROVE  Printed(y, f, s)'
      <4>1. s.text = y.seen[f].guard
        BY <2>1, <3>1, <3>4 DEF TextsMatch, Excerpt
      <4>. QED
        BY <3>1, <4>1 DEF Printed, Late
    <3>5. y.request \in Windowed /\ Excerpt(l[f]) => Printed(y, f, l[f])'
      BY <3>2, <3>4 DEF Excerpt, Printed
    <3>. QED
      BY <3>2, <3>3, <3>5
  <2>2. CASE f \notin c.found
    <3>1. l[f] = NoSource
      BY <2>2 DEF SourcesOf
    <3>2. NoSource \in Source /\ ~Excerpt(l[f])
      BY <3>1 DEF NoSource, Source, NoText, NoAttempt, RowStatuses, Excerpt
    <3>. QED
      BY <3>1, <3>2
  <2>. QED
    BY <2>1, <2>2
<1>3. l \in [Names -> Source]
  BY <1>2 DEF SourcesOf
<1>4. Keeps(y, l)'
  BY <1>2 DEF Keeps, Early
<1>. QED
  BY <1>3, <1>4

(* The newest run a lookup finds answers what the command asks.             *)
LEMMA LookupFinds ==
    ASSUME IInv, NEW e \in Engines, Matching(e) # {}, NEW c, c = eng[e], NEW r, r = Max(Matching(e))
    PROVE  Matches(c, r) /\ r \in Nat
<1>1. r \in Matching(e)
  <2>1. Matching(e) \in SUBSET (1 .. Len(runs)) /\ Matching(e) \in SUBSET Int /\ Len(runs) \in Nat
    BY DEF Matching, IInv, Types
  <2>2. IsFiniteSet(1 .. Len(runs))
    BY <2>1, FS_Interval
  <2>3. IsFiniteSet(Matching(e))
    BY <2>1, <2>2, FS_Subset
  <2>. QED
    BY <2>1, <2>3, MaxExists
<1>2. /\ r \in DOMAIN runs /\ runs[r].status = "success" /\ runs[runs[r].artifact].eligible
      /\ SnapshotKey(runs[r].request, runs[r].batch.found, runs[r].seen) =
            SnapshotKey(c.request, c.found, c.seen)
  BY <1>1 DEF Matching, SnapshotKey
<1>3. /\ (runs[r].request \in Windowed) = (c.request \in Windowed)
      /\ runs[r].batch.found = c.found /\ runs[r].seen = c.seen
  BY <1>2 DEF SnapshotKey
<1>4. r \in Nat
  BY <1>2 DEF IInv, Types
<1>. QED
  BY <1>2, <1>3, <1>4 DEF Matches

LEMMA LookupNext ==
    ASSUME IInv, NEW e \in Engines, Lookup(e)
    PROVE  Quiet /\ parse' = parse /\ Advances(e)
<1>1. Quiet /\ UNCHANGED <<parse, kept, answer>>
  BY DEF Lookup, Quiet, tables
<1>2. CASE eng' = [eng EXCEPT ![e].pc = "scan"]
  BY <1>1, <1>2, GoesEarly DEF Lookup, Goto, Early
<1>3. CASE /\ Matching(e) # {}
           /\ eng' = [eng EXCEPT ![e].pc = "reuse", ![e].from = Max(Matching(e))]
  <2>1. PICK c, k, r : c = eng[e] /\ k = kept[e] /\ r = Max(Matching(e))
    OBVIOUS
  <2>2. c \in Command /\ Knows(c) /\ c.pc \in Early /\ ~c.refused
    BY <2>1 DEF Lookup, IInv, Types, EngineInv, Knows, Judged, Reused, Matches, Early
  <2>3. Matches(c, r) /\ r \in Nat
    BY <1>3, <2>1, LookupFinds
  <2>4. PICK y : y = [c EXCEPT !.pc = "reuse", !.from = r]
    OBVIOUS
  <2>5. /\ y \in Command /\ y.pc = "reuse" /\ y.run = c.run /\ y.attempt = c.attempt
        /\ y.request = c.request /\ y.from = r /\ ~y.refused /\ y.seen = c.seen /\ y.found = c.found
    BY <2>2, <2>3, <2>4 DEF Command, Early
  <2>6. Matches(y, y.from)'
    <3>1. Matches(y, r)
      BY <2>3, <2>5 DEF Matches
    <3>2. Matches(y, r)'
      BY <1>1, <3>1, QuietGrows, MatchesStays DEF IInv
    <3>. QED
      BY <2>5, <3>2
  <2>7. \A f \in Names : y.seen[f].guard <= disk'[f].guard
    BY <1>1, <2>2, <2>5 DEF Knows, Quiet
  <2>8. Knows(y)' /\ Keeps(y, k)'
    BY <1>1, <2>1, <2>2, <2>5, <2>6, <2>7, QuietGrows, EarlyKnows DEF Early
  <2>9. eng' = [eng EXCEPT ![e] = y]
    BY <1>3, <2>1, <2>4 DEF IInv, Types
  <2>. QED
    BY <1>1, <2>1, <2>5, <2>8, <2>9, MovesOn
<1>. QED
  BY <1>1, <1>2, <1>3 DEF Lookup

LEMMA ReuseNext ==
    ASSUME IInv, NEW e \in Engines, NEW time \in Times, Reuse(e, time)
    PROVE  Quiet /\ parse' = parse /\ Advances(e)
<1>1. Quiet /\ UNCHANGED <<parse, answer>>
  BY DEF Reuse, Quiet, tables
<1>2. PICK c, k, a : c = eng[e] /\ k = kept[e] /\ a = answer[e]
  OBVIOUS
<1>3. /\ c \in Command /\ Knows(c) /\ Keeps(c, k) /\ Sound(a) /\ c.pc = "reuse" /\ c.pc \in Early
      /\ ~c.refused
  BY <1>2, CommandNow DEF Reuse, Early, Knows
<1>4. PICK r, rows : r = c.from /\ rows = ArtifactRows(r)
  OBVIOUS
<1>5. CASE eng' = [eng EXCEPT ![e].pc = "scan", ![e].from = 0] /\ UNCHANGED kept
  <2>1. PICK y : y = [c EXCEPT !.pc = "scan", !.from = 0]
    OBVIOUS
  <2>2. /\ y \in Command /\ y.pc = "scan" /\ y.run = c.run /\ y.attempt = c.attempt
        /\ y.request = c.request /\ y.from = 0 /\ ~y.refused /\ y.seen = c.seen
    BY <1>3, <2>1 DEF Command, Early
  <2>3. \A f \in Names : y.seen[f].guard <= disk'[f].guard
    BY <1>1, <1>3, <2>2 DEF Knows, Quiet
  <2>4. Knows(y)' /\ Keeps(y, k)'
    BY <1>1, <1>2, <1>3, <2>2, <2>3, QuietGrows, EarlyKnows DEF Early
  <2>5. eng' = [eng EXCEPT ![e] = y]
    BY <1>2, <1>5, <2>1 DEF IInv, Types
  <2>. QED
    BY <1>1, <1>2, <1>5, <2>2, <2>4, <2>5, MovesOn
<1>6. CASE /\ eng' = [eng EXCEPT ![e].pc = "print", ![e].rows = rows, ![e].time = time,
                                 ![e].kind = "success"]
           /\ kept' = [kept EXCEPT ![e] = SourcesOf(eng[e], rows)]
  <2>3. Matches(c, r) /\ r \in DOMAIN runs /\ r \in Nat
    BY <1>3, <1>4 DEF Knows, Matches, Command
  <2>4. PICK x \in Run : x = runs[r] /\ RunHolds(x)
    <3>1. runs[r] \in Run /\ RunHolds(runs[r])
      BY <2>3 DEF IInv, Types, RunsInv
    <3>. QED
      BY <3>1
  <2>5. x.status = "success" /\ x.batch \in Batches /\ rows = x.batch.rows /\ c.found = x.batch.found
        /\ c.seen = x.seen /\ (c.request \in Windowed => x.request \in Windowed)
    BY <1>4, <2>3, <2>4 DEF Matches, ArtifactRows, Run
  <2>6. rows \in [Names -> Row] /\ Complete(c.found, rows)
    BY <2>5 DEF Batches
  <2>7. c.request \in Windowed => TextsMatch(c.found, rows, c.seen)
    BY <2>4, <2>5 DEF RunHolds
  <2>8. PICK y : y = [c EXCEPT !.pc = "print", !.rows = rows, !.time = time, !.kind = "success"]
    OBVIOUS
  <2>1. time \in [lookup : Nat, other : Nat]
    BY BuildAssumption DEF Times
  <2>9. /\ y \in Command /\ y.pc = "print" /\ y.run = c.run /\ y.attempt = c.attempt
        /\ y.request = c.request /\ y.seen = c.seen /\ y.found = c.found /\ y.rows = rows
        /\ y.from = r /\ y.kind = "success" /\ ~y.refused
    BY <1>3, <1>4, <2>1, <2>3, <2>6, <2>8 DEF Command, Late, Outcomes
  <2>10. Matches(y, r)' /\ runs'[r] = runs[r]
    <3>1. Matches(y, r)
      BY <2>3, <2>9 DEF Matches
    <3>. QED
      BY <1>1, <3>1, QuietGrows, MatchesStays DEF IInv
  <2>11. Reused(y)'
    BY <2>4, <2>5, <2>9, <2>10 DEF Reused
  <2>12. Knows(y)'
    <3>1. Knows(c)'
      BY <1>1, <1>3, QuietGrows, KnowsStays DEF IInv
    <3>2. r # 0
      BY <2>3 DEF IInv, Types
    <3>. QED
      BY <1>3, <2>6, <2>7, <2>9, <2>11, <3>1, <3>2 DEF Knows, Judged, Early, Late
  <2>13. PICK l : l = SourcesOf(c, rows)
    OBVIOUS
  <2>14. l \in [Names -> Source] /\ Keeps(y, l)'
    BY <1>3, <2>6, <2>7, <2>9, <2>13, NewSources
  <2>15. Moves(e, y, l, a)
    <3>1. eng' = [eng EXCEPT ![e] = y]
      BY <1>2, <1>6, <2>8 DEF IInv, Types
    <3>2. kept' = [kept EXCEPT ![e] = l]
      <4>1. SourcesOf(eng[e], rows) = SourcesOf(c, rows)
        BY <1>2 DEF SourcesOf, Attempt
      <4>. QED
        BY <1>2, <1>6, <2>13, <4>1 DEF IInv, Types
    <3>3. answer' = [answer EXCEPT ![e] = a]
      BY <1>1, <1>2 DEF IInv, Types
    <3>. QED
      BY <3>1, <3>2, <3>3 DEF Moves
  <2>. QED
    BY <1>1, <1>3, <2>9, <2>12, <2>14, <2>15 DEF Advances
<1>. QED
  BY <1>2, <1>4, <1>5, <1>6 DEF Reuse

(* What a scan may make of a file.                                          *)
LEMMA ResultsHold ==
    ASSUME IInv, NEW e \in Engines, NEW c, c = eng[e], NEW f \in Names, NEW x \in Results(e, f)
    PROVE  /\ x \in Row
           /\ f \in c.found => x.status # "none"
           /\ x.status = "success" =>
                 /\ f \in c.found
                 /\ x.text = c.seen[f].guard \/ c.seen[f].guard < disk[f].guard
                 /\ c.request \in Windowed => x.text = c.seen[f].guard
<1>1. c \in Command /\ c.seen[f].guard \in Int /\ c.seen[f].version \in Nat
  BY DEF IInv, Types, Command, Sightings
<1>2. c.seen[f].guard <= disk[f].guard /\ disk[f].guard \in Nat
  BY DEF IInv, Types, EngineInv, Knows
<1>3. ASSUME x.status # "success"
      PROVE  x \in Row /\ (f \in c.found => x.status # "none")
  <2>1. CASE f \notin c.found
    BY <2>1 DEF Results, NoRow, Row, RowStatuses, NoText
  <2>2. CASE f \in c.found
    <3>1. \/ x = [status |-> "error", text |-> NoText]
          \/ x = [status |-> "timeout", text |-> NoText]
          \/ x = [status |-> "not_parsed", text |-> NoText]
      BY <1>3, <2>2 DEF Results
    <3>. QED
      BY <3>1 DEF Row, RowStatuses, NoText
  <2>. QED
    BY <2>1, <2>2
<1>4. ASSUME x.status = "success"
      PROVE  /\ x \in Row /\ f \in c.found
             /\ x.text = c.seen[f].guard \/ c.seen[f].guard < disk[f].guard
             /\ c.request \in Windowed => x.text = c.seen[f].guard
  <2>1. f \in c.found /\ Verified(e, f)
    BY <1>4 DEF Results, NoRow
  <2>2. \/ \E r \in Cached(e, f) : x = [status |-> "success", text |-> r.text]
        \/ x = [status |-> "success", text |-> disk[f].guard]
    BY <1>4, <2>1 DEF Results
  <2>3. c.request \in Windowed => disk[f].guard = c.seen[f].guard
    BY <2>1 DEF Verified, Strict
  <2>4. CASE x = [status |-> "success", text |-> disk[f].guard]
    BY <1>1, <1>2, <2>1, <2>3, <2>4 DEF Row, RowStatuses
  <2>5. CASE \E r \in Cached(e, f) : x = [status |-> "success", text |-> r.text]
    <3>1. PICK r \in parse : r.key = CacheKey(e, f) /\ x = [status |-> "success", text |-> r.text]
      BY <2>5 DEF Cached
    <3>2. r.text \in Int /\ r.key = <<f, c.seen[f].version, c.seen[f].guard>>
      BY <3>1 DEF IInv, Types, CacheKey
    <3>3. r.text = c.seen[f].guard \/ c.seen[f].guard < disk[f].guard
      BY <3>1, <3>2 DEF IInv, ParseInv
    <3>4. x.text = r.text /\ x \in Row
      BY <3>1, <3>2 DEF Row, RowStatuses
    <3>. QED
      BY <1>1, <1>2, <2>1, <2>3, <3>3, <3>4
  <2>. QED
    BY <2>2, <2>4, <2>5
<1>. QED
  BY <1>3, <1>4

LEMMA ScanNext ==
    ASSUME IInv, NEW e \in Engines, NEW rows \in [Names -> UNION {Results(e, f) : f \in Names}],
           NEW warned \in BOOLEAN, NEW refused \in BOOLEAN, Scan(e, rows, warned, refused)
    PROVE  /\ Quiet /\ Advances(e)
           /\ parse' \subseteq [key : Names \X Nat \X Int, text : Int] /\ ParseInv'
<1>1. Quiet /\ UNCHANGED answer
  BY DEF Scan, Quiet
<1>2. PICK c, k, a : c = eng[e] /\ k = kept[e] /\ a = answer[e]
  OBVIOUS
<1>3. c \in Command /\ Knows(c) /\ Sound(a) /\ c.pc = "scan"
  BY <1>2, CommandNow DEF Scan
<1>4. \A f \in Names : rows[f] \in Results(e, f)
  BY DEF Scan
<1>5. \A f \in Names :
        /\ rows[f] \in Row
        /\ f \in c.found => rows[f].status # "none"
        /\ rows[f].status = "success" =>
              /\ f \in c.found
              /\ rows[f].text = c.seen[f].guard \/ c.seen[f].guard < disk[f].guard
              /\ c.request \in Windowed => rows[f].text = c.seen[f].guard
  <2>. TAKE f \in Names
  <2>1. PICK x \in Results(e, f) : x = rows[f]
    BY <1>4
  <2>. QED
    BY <1>2, <2>1, ResultsHold
<1>6. c.found \in SUBSET Names
  BY <1>3 DEF Command
<1>7. rows \in [Names -> Row] /\ Complete(c.found, rows)
  BY <1>5, <1>6 DEF Complete
<1>8. c.request \in Windowed => TextsMatch(c.found, rows, c.seen)
  BY <1>5, <1>6 DEF TextsMatch
<1>9. PICK o : o = Outcome(c.found, rows)
  OBVIOUS
<1>10. o \in Outcomes
  BY <1>6, <1>7, <1>9, OutcomeKinds DEF Outcomes
<1>11. PICK y : y = [c EXCEPT !.pc = "print", !.rows = rows, !.kind = o, !.warned = warned,
                           !.refused = refused]
  OBVIOUS
<1>12. /\ y \in Command /\ y.pc = "print" /\ y.run = c.run /\ y.attempt = c.attempt
       /\ y.request = c.request /\ y.seen = c.seen /\ y.found = c.found /\ y.rows = rows
       /\ y.from = c.from /\ y.kind = o /\ y.refused = refused
  BY <1>3, <1>7, <1>10, <1>11 DEF Command, Late
<1>13. Knows(y)'
  <2>1. Knows(c)'
    BY <1>1, <1>3, QuietGrows, KnowsStays DEF IInv
  <2>2. c.from = 0
    BY <1>3 DEF Knows, Early
  <2>3. Judged(y)
    <3>1. refused => With(c.found, rows, Failing) # {}
      BY <1>2 DEF Scan
    <3>. QED
      BY <1>12, <2>2, <3>1 DEF Judged
  <2>. QED
    BY <1>3, <1>7, <1>8, <1>9, <1>12, <2>1, <2>2, <2>3 DEF Knows, Judged, Early, Late
<1>14. PICK l : l = SourcesOf(c, rows)
  OBVIOUS
<1>15. l \in [Names -> Source] /\ Keeps(y, l)'
  BY <1>3, <1>7, <1>8, <1>12, <1>14, NewSources
<1>16. Moves(e, y, l, a)
  <2>1. eng' = [eng EXCEPT ![e] = y]
    <3>1. Outcome(eng[e].found, rows) = o
      BY <1>2, <1>9
    <3>. QED
      BY <1>2, <1>11, <3>1 DEF Scan, IInv, Types
  <2>2. kept' = [kept EXCEPT ![e] = l]
    <3>1. SourcesOf(eng[e], rows) = SourcesOf(c, rows)
      BY <1>2 DEF SourcesOf, Attempt
    <3>. QED
      BY <1>14, <3>1 DEF Scan
  <2>3. answer' = [answer EXCEPT ![e] = a]
    BY <1>1, <1>2 DEF IInv, Types
  <2>. QED
    BY <2>1, <2>2, <2>3 DEF Moves
<1>17. Advances(e)
  BY <1>3, <1>12, <1>13, <1>15, <1>16 DEF Advances
<1>18. ASSUME NEW x \in parse'
       PROVE  /\ x \in [key : Names \X Nat \X Int, text : Int]
              /\ x.text = x.key[3] \/ x.key[3] < disk'[x.key[1]].guard
  <2>1. CASE x \in parse
    BY <1>1, <2>1 DEF IInv, Types, ParseInv, Quiet
  <2>2. CASE x \notin parse
    <3>1. PICK f \in c.found : /\ rows[f].status = "success"
                               /\ x = [key |-> CacheKey(e, f), text |-> rows[f].text]
      BY <1>2, <1>18, <2>2 DEF Scan
    <3>2. CacheKey(e, f) = <<f, c.seen[f].version, c.seen[f].guard>>
      BY <1>2 DEF CacheKey
    <3>3. c.seen[f].version \in Nat /\ c.seen[f].guard \in Int /\ rows[f].text \in Int /\ f \in Names
      BY <1>3, <1>5, <1>6 DEF Command, Sightings, Row
    <3>4. rows[f].text = c.seen[f].guard \/ c.seen[f].guard < disk[f].guard
      BY <1>5, <3>1, <3>3
    <3>5. /\ x.key = <<f, c.seen[f].version, c.seen[f].guard>> /\ x.text = rows[f].text
          /\ x \in [key : Names \X Nat \X Int, text : Int]
      BY <3>1, <3>2, <3>3
    <3>. QED
      BY <1>1, <3>4, <3>5 DEF Quiet
  <2>. QED
    BY <2>1, <2>2
<1>. QED
  BY <1>1, <1>17, <1>18 DEF ParseInv

---------------------------------------------------------------------------
(* The fingerprints.                                                        *)

(* A command between its sources and its commit.                            *)
Onward(c, y) ==
    /\ c.pc \in Late /\ y \in Command /\ y.pc \in Late
    /\ y.pc \in {"hash", "printed"} => y.at \in Names
    /\ y.request = c.request /\ y.run = c.run /\ y.attempt = c.attempt /\ y.found = c.found
    /\ y.seen = c.seen /\ y.rows = c.rows /\ y.from = c.from /\ y.kind = c.kind
    /\ y.refused = c.refused

LEMMA LateKnows ==
    ASSUME IInv, Quiet, NEW c \in Command, Knows(c), NEW y, Onward(c, y)
    PROVE  Knows(y)'
<1>1. Knows(c)'
  BY QuietGrows, KnowsStays DEF IInv
<1>2. c.from # 0 => Reused(c)'
  BY <1>1 DEF Knows, Onward
<1>3. c.from # 0 => Reused(y)'
  BY <1>2 DEF Onward, Reused, Matches
<1>4. y.pc \notin Early /\ c.pc # "idle" /\ y.pc # "reuse"
  BY DEF Onward, Early, Late
<1>. QED
  BY <1>1, <1>3, <1>4 DEF Knows, Judged, Onward

(* The source of f becomes s.                                               *)
LEMMA SourceChanged ==
    ASSUME NEW c \in Command, NEW y, Onward(c, y), NEW k \in [Names -> Source], Keeps(c, k),
           NEW f \in Names, NEW s \in Source, s.by = Attempt(c), NEW l, l = [k EXCEPT ![f] = s],
           y.pc \in {"hash", "printed"} => y.at = f,
           c.pc = "printed" => c.at = f,
           y.request \in Windowed /\ Excerpt(s) => Printed(y, f, s)'
    PROVE  l \in [Names -> Source] /\ Keeps(y, l)'
<1>1. l \in [Names -> Source] /\ l[f] = s /\ \A g \in Names \ {f} : l[g] = k[g]
  OBVIOUS
<1>2. Attempt(y) = Attempt(c) /\ c.pc # "idle" /\ y.pc \notin Early
  BY DEF Attempt, Onward, Early, Late
<1>3. \A g \in Names : l[g] # NoSource => l[g].by = Attempt(y)
  BY <1>1, <1>2 DEF Keeps
<1>4. y.pc \in {"hash", "printed"} => l[y.at].by = Attempt(y)
  BY <1>1, <1>2
<1>5. ASSUME y.request \in Windowed, NEW g \in Names, Excerpt(l[g])
      PROVE  Printed(y, g, l[g])'
  <2>1. CASE g = f
    BY <1>1, <1>5, <2>1 DEF Excerpt, Printed
  <2>2. CASE g # f
    <3>1. Printed(c, g, k[g])
      BY <1>1, <1>2, <1>5, <2>2 DEF Keeps, Excerpt, Onward
    <3>. QED
      BY <1>1, <2>2, <3>1 DEF Printed, Onward
  <2>. QED
    BY <2>1, <2>2
<1>6. Keeps(y, l)'
  BY <1>2, <1>3, <1>4, <1>5 DEF Keeps
<1>. QED
  BY <1>1, <1>6

LEMMA EmptiedType ==
    ASSUME NEW s \in Source, NEW u, u = Emptied(s)
    PROVE  u \in Source /\ u.by = s.by /\ ~Excerpt(u)
<1>1. NoText \in Int /\ "error" \in RowStatuses
  BY DEF NoText, RowStatuses
<1>2. u \in Source /\ u.by = s.by /\ u.status = "error"
  BY <1>1 DEF Emptied, Source
<1>. QED
  BY <1>2 DEF Excerpt

LEMMA CheckNext ==
    ASSUME IInv, NEW e \in Engines, CheckSource(e)
    PROVE  Quiet /\ parse' = parse /\ Advances(e)
<1>1. Quiet /\ UNCHANGED <<parse, answer>>
  BY DEF CheckSource, Quiet, tables
<1>2. PICK c, k, a : c = eng[e] /\ k = kept[e] /\ a = answer[e]
  OBVIOUS
<1>3. /\ c \in Command /\ Knows(c) /\ k \in [Names -> Source] /\ Keeps(c, k) /\ Sound(a)
      /\ c.pc = "print" /\ c.pc \in Late
  BY <1>2, CommandNow DEF CheckSource, Late
<1>4. PICK i : i = Min(Unprinted(e))
  OBVIOUS
<1>5. i \in Unprinted(e)
  <2>1. /\ Unprinted(e) \in SUBSET (1 .. Len(Files)) /\ Unprinted(e) \in SUBSET Int
        /\ Len(Files) \in Nat /\ Unprinted(e) # {}
    <3>1. Len(Files) \in Nat /\ DOMAIN Files = 1 .. Len(Files)
      BY BuildAssumption
    <3>2. Unprinted(e) \subseteq DOMAIN Files /\ Unprinted(e) # {}
      BY DEF Unprinted, CheckSource
    <3>. QED
      BY <3>1, <3>2
  <2>2. IsFiniteSet(1 .. Len(Files))
    BY <2>1, FS_Interval
  <2>3. IsFiniteSet(Unprinted(e))
    BY <2>1, <2>2, FS_Subset
  <2>. QED
    BY <1>4, <2>1, <2>3, MinExists
<1>6. PICK f \in Names : f = Files[i] /\ Excerpt(k[f])
  BY <1>2, <1>5 DEF Unprinted, Names, Range
<1>7. k[f].by = Attempt(c)
  <2>1. k[f] # NoSource
    BY <1>6 DEF Excerpt, NoSource
  <2>. QED
    BY <1>3, <2>1 DEF Keeps
<1>8. answer' = [answer EXCEPT ![e] = a]
  BY <1>1, <1>2 DEF IInv, Types
<1>9. CASE eng' = [eng EXCEPT ![e].pc = "hash", ![e].at = f] /\ UNCHANGED kept
  <2>1. PICK y : y = [c EXCEPT !.pc = "hash", !.at = f]
    OBVIOUS
  <2>2. Onward(c, y) /\ y.pc = "hash" /\ y.at = f /\ y \in Command
    BY <1>3, <2>1 DEF Onward, Command, Late
  <2>3. Keeps(y, k)'
    <3>1. PICK l : l = [k EXCEPT ![f] = k[f]]
      OBVIOUS
    <3>2. l = k /\ k[f] \in Source
      BY <1>3, <3>1
    <3>3. y.request \in Windowed /\ Excerpt(k[f]) => Printed(y, f, k[f])'
      <4>1. c.request \in Windowed => Printed(c, f, k[f])
        BY <1>3, <1>6 DEF Keeps
      <4>. QED
        BY <1>3, <2>2, <4>1 DEF Printed, Onward
    <3>4. Keeps(y, l)'
      BY <1>3, <1>7, <2>2, <3>1, <3>2, <3>3, SourceChanged
    <3>. QED
      BY <3>2, <3>4 DEF Keeps, Printed
  <2>4. eng' = [eng EXCEPT ![e] = y]
    BY <1>2, <1>9, <2>1 DEF IInv, Types
  <2>. QED
    BY <1>1, <1>2, <1>3, <1>9, <2>2, <2>3, <2>4, LateKnows, MovesOn
<1>10. CASE kept' = [kept EXCEPT ![e][f] = Emptied(@)] /\ UNCHANGED eng
  <2>1. PICK s, l : s = Emptied(k[f]) /\ l = [k EXCEPT ![f] = s]
    OBVIOUS
  <2>2. s \in Source /\ s.by = Attempt(c) /\ ~Excerpt(s)
    BY <1>3, <1>7, <2>1, EmptiedType
  <2>3. Onward(c, c)
    BY <1>3 DEF Onward, Late
  <2>4. l \in [Names -> Source] /\ Keeps(c, l)'
    BY <1>3, <2>1, <2>2, <2>3, SourceChanged
  <2>5. Moves(e, c, l, a)
    BY <1>2, <1>8, <1>10, <2>1 DEF Moves, IInv, Types
  <2>6. Knows(c)'
    BY <1>1, <1>3, <2>3, LateKnows
  <2>. QED
    BY <1>1, <1>3, <2>4, <2>5, <2>6 DEF Advances
<1>. QED
  BY <1>4, <1>6, <1>9, <1>10 DEF CheckSource

LEMMA HashNext ==
    ASSUME IInv, NEW e \in Engines, HashSource(e)
    PROVE  Quiet /\ parse' = parse /\ Advances(e)
<1>1. Quiet /\ UNCHANGED <<parse, answer>>
  BY DEF HashSource, Quiet, tables
<1>2. PICK c, k, a, f : c = eng[e] /\ k = kept[e] /\ a = answer[e] /\ f = c.at
  OBVIOUS
<1>3. /\ c \in Command /\ Knows(c) /\ k \in [Names -> Source] /\ Keeps(c, k) /\ Sound(a)
      /\ c.pc = "hash"
  BY <1>2, CommandNow DEF HashSource
<1>4. f \in Names /\ k[f] \in Source /\ k[f].by = Attempt(c)
  BY <1>2, <1>3 DEF Knows, Keeps
<1>5. answer' = [answer EXCEPT ![e] = a]
  BY <1>1, <1>2 DEF IInv, Types
<1>6. PICK d \in Nat : d = disk[f].guard /\ d = disk'[f].guard
  BY <1>1, <1>4 DEF IInv, Types, Quiet
<1>7. CASE kept' = [kept EXCEPT ![e][f].hash = d] /\ Goto(e, "printed")
  <2>1. PICK y, s, l : /\ y = [c EXCEPT !.pc = "printed"] /\ s = [k[f] EXCEPT !.hash = d]
                       /\ l = [k EXCEPT ![f] = s]
    OBVIOUS
  <2>2. Onward(c, y) /\ y.pc = "printed" /\ y.at = f /\ y \in Command
    BY <1>2, <1>3, <1>4, <2>1 DEF Onward, Command, Late
  <2>3. s \in Source /\ s.by = Attempt(c) /\ s.hash = d /\ s.status = k[f].status /\ s.text = k[f].text
    BY <1>4, <2>1 DEF Source
  <2>4. y.request \in Windowed /\ Excerpt(s) => Printed(y, f, s)'
    <3>. HAVE y.request \in Windowed /\ Excerpt(s)
    <3>1. Printed(c, f, k[f])
      BY <1>3, <1>4, <2>2, <2>3 DEF Keeps, Excerpt, Onward
    <3>2. c.seen[f].guard <= d /\ c.seen[f].guard \in Int /\ y.seen = c.seen
      BY <1>3, <1>4, <1>6, <2>2 DEF Knows, Command, Sightings, Onward
    <3>. QED
      BY <1>6, <2>2, <2>3, <3>1, <3>2 DEF Printed
  <2>5. l \in [Names -> Source] /\ Keeps(y, l)'
    BY <1>2, <1>3, <1>4, <2>1, <2>2, <2>3, <2>4, SourceChanged
  <2>6. Moves(e, y, l, a)
    BY <1>2, <1>5, <1>7, <2>1 DEF Moves, Goto, IInv, Types
  <2>7. Knows(y)'
    BY <1>1, <1>3, <2>2, LateKnows
  <2>. QED
    BY <1>1, <1>3, <2>2, <2>5, <2>6, <2>7 DEF Advances
<1>8. CASE kept' = [kept EXCEPT ![e][f] = Emptied(@)] /\ Goto(e, "print")
  <2>1. PICK y, s, l : /\ y = [c EXCEPT !.pc = "print"] /\ s = Emptied(k[f])
                       /\ l = [k EXCEPT ![f] = s]
    OBVIOUS
  <2>2. Onward(c, y) /\ y.pc = "print" /\ y \in Command
    BY <1>3, <2>1 DEF Onward, Command, Late
  <2>3. s \in Source /\ s.by = Attempt(c) /\ ~Excerpt(s)
    BY <1>4, <2>1, EmptiedType
  <2>4. l \in [Names -> Source] /\ Keeps(y, l)'
    BY <1>3, <1>4, <2>1, <2>2, <2>3, SourceChanged
  <2>5. Moves(e, y, l, a)
    BY <1>2, <1>5, <1>8, <2>1 DEF Moves, Goto, IInv, Types
  <2>6. Knows(y)'
    BY <1>1, <1>3, <2>2, LateKnows
  <2>. QED
    BY <1>1, <1>3, <2>2, <2>4, <2>5, <2>6 DEF Advances
<1>. QED
  BY <1>2, <1>6, <1>7, <1>8 DEF HashSource

LEMMA SettleNext ==
    ASSUME IInv, NEW e \in Engines, SettleSource(e)
    PROVE  Quiet /\ parse' = parse /\ Advances(e)
<1>1. Quiet /\ UNCHANGED <<parse, answer>>
  BY DEF SettleSource, Quiet, tables
<1>2. PICK c, k, a, f : c = eng[e] /\ k = kept[e] /\ a = answer[e] /\ f = c.at
  OBVIOUS
<1>3. /\ c \in Command /\ Knows(c) /\ k \in [Names -> Source] /\ Keeps(c, k) /\ Sound(a)
      /\ c.pc = "printed"
  BY <1>2, CommandNow DEF SettleSource
<1>4. f \in Names /\ k[f] \in Source /\ k[f].by = Attempt(c)
  BY <1>2, <1>3 DEF Knows, Keeps
<1>5. PICK y : y = [c EXCEPT !.pc = "print", !.at = "none"]
  OBVIOUS
<1>6. Onward(c, y) /\ y.pc = "print" /\ y \in Command
  BY <1>3, <1>5 DEF Onward, Command, Late
<1>7. PICK s, l : s = (IF Stable(e, f) THEN k[f] ELSE Emptied(k[f])) /\ l = [k EXCEPT ![f] = s]
  OBVIOUS
<1>8. s \in Source /\ s.by = Attempt(c) /\ (y.request \in Windowed /\ Excerpt(s) => Printed(y, f, s)')
  <2>1. CASE ~Stable(e, f)
    BY <1>4, <1>7, <2>1, EmptiedType
  <2>2. CASE Stable(e, f)
    <3>1. s = k[f]
      BY <1>7, <2>2
    <3>2. ASSUME y.request \in Windowed, Excerpt(s)
          PROVE  Printed(y, f, s)'
      <4>1. Printed(c, f, s)
        BY <1>3, <1>4, <1>6, <3>1, <3>2 DEF Keeps, Excerpt, Onward, Printed
      <4>2. disk[f].guard = c.seen[f].guard
        BY <1>2, <1>6, <2>2, <3>2 DEF Stable, Verified, Strict, Onward
      <4>3. c.seen[f].guard \in Int /\ s.hash \in Int
        BY <1>3, <1>4, <3>1 DEF Command, Sightings, Source
      <4>4. s.hash = s.text \/ s.hash = NoText
        BY <4>1, <4>2, <4>3 DEF Printed
      <4>. QED
        BY <1>6, <4>1, <4>4 DEF Printed, Onward
    <3>. QED
      BY <1>4, <3>1, <3>2
  <2>. QED
    BY <2>1, <2>2
<1>9. l \in [Names -> Source] /\ Keeps(y, l)'
  BY <1>2, <1>3, <1>4, <1>6, <1>7, <1>8, SourceChanged
<1>10. Moves(e, y, l, a)
  <2>1. kept' = [kept EXCEPT ![e] = l]
    BY <1>2, <1>7 DEF SettleSource, IInv, Types
  <2>2. eng' = [eng EXCEPT ![e] = y]
    BY <1>2, <1>5 DEF SettleSource, IInv, Types
  <2>3. answer' = [answer EXCEPT ![e] = a]
    BY <1>1, <1>2 DEF IInv, Types
  <2>. QED
    BY <2>1, <2>2, <2>3 DEF Moves
<1>11. Knows(y)'
  BY <1>1, <1>3, <1>6, LateKnows
<1>. QED
  BY <1>1, <1>3, <1>6, <1>9, <1>10, <1>11 DEF Advances

---------------------------------------------------------------------------
(* The calls that begin no attempt, the answer and a crash.                 *)

LEMMA IdleKnows ==
    ASSUME NEW l \in [Names -> Source], disk' \in [Names -> [version : Nat, guard : Nat]]
    PROVE  Knows(Idle)' /\ Keeps(Idle, l)'
<1>1. PICK y : y = Idle
  OBVIOUS
<1>2. y.pc = "idle" /\ y.seen = Unseen
  BY <1>1 DEF Idle
<1>3. \A f \in Names : y.seen[f].guard <= disk'[f].guard
  <2>. TAKE f \in Names
  <2>1. y.seen[f].guard = -1 /\ disk'[f].guard \in Nat
    BY <1>2 DEF Unseen, NoText
  <2>. QED
    BY <2>1
<1>4. Knows(y)'
  BY <1>2, <1>3 DEF Knows, Early, Late
<1>5. Keeps(y, l)'
  BY <1>2 DEF Keeps, Early
<1>. QED
  BY <1>1, <1>4, <1>5

LEMMA RefuseNext ==
    ASSUME IInv, NEW e \in Engines, NEW q \in Requests, Refuse(e, q)
    PROVE  Quiet /\ parse' = parse /\ Advances(e)
<1>1. Quiet /\ parse' = parse
  BY DEF Refuse, Quiet, tables
<1>2. PICK c, k, b : c = eng[e] /\ k = kept[e] /\ b = answer[e]
  OBVIOUS
<1>3. c \in Command /\ c.pc = "idle" /\ Knows(c)
  BY <1>2, CommandNow DEF Refuse
<1>4. Knows(c)' /\ Keeps(c, NoSources)'
  <2>1. Knows(c)'
    BY <1>1, <1>3, QuietGrows, KnowsStays DEF IInv
  <2>2. Keeps(c, NoSources)'
    BY <1>3 DEF Keeps, Early
  <2>. QED
    BY <2>1, <2>2
<1>5. PICK a : a = [NoAnswer EXCEPT !.request = q, !.sources = NoSources]
  OBVIOUS
<1>6. Sound(a)
  BY <1>5 DEF Sound, NoAnswer, NoSources, NoSource, Excerpt
<1>7. Moves(e, c, NoSources, a)
  BY <1>2, <1>5 DEF Moves, Refuse, Cleared, IInv, Types
<1>. QED
  BY <1>1, <1>3, <1>4, <1>6, <1>7, IdleType DEF Advances

LEMMA ReplayNext ==
    ASSUME IInv, NEW e \in Engines, NEW q \in Requests, Replay(e, q)
    PROVE  Quiet /\ parse' = parse /\ Advances(e)
<1>1. Quiet /\ parse' = parse
  BY DEF Replay, Quiet, tables
<1>2. PICK r \in Stored(q) :
          eng' = [eng EXCEPT ![e] = [Idle EXCEPT !.pc = "evidence", !.request = q, !.run = r]]
  BY DEF Replay
<1>3. PICK y : y = [Idle EXCEPT !.pc = "evidence", !.request = q, !.run = r]
  OBVIOUS
<1>4. r \in DOMAIN runs /\ runs[r].request = q /\ r \in Nat
  BY <1>2 DEF Stored, IInv, Types
<1>5. /\ y.pc = "evidence" /\ y.from = 0 /\ ~y.refused /\ y.seen = Unseen /\ y.run = r /\ y.request = q
  BY <1>3 DEF Idle
<1>6. y \in Command
  BY <1>3, <1>4, IdleType DEF Command
<1>7. Knows(y)' /\ Keeps(y, NoSources)'
  <2>1. y.run \in DOMAIN runs' /\ runs'[y.run].request = y.request
    BY <1>1, <1>4, <1>5 DEF Quiet
  <2>. QED
    BY <1>1, <1>5, <1>6, <2>1, BegunKnows, QuietGrows
<1>8. Moves(e, y, NoSources, NoAnswer)
  BY <1>2, <1>3 DEF Moves, Replay, Cleared
<1>. QED
  BY <1>1, <1>6, <1>7, <1>8, IdleType, Nothing DEF Advances

LEMMA CrashNext ==
    ASSUME IInv, NEW e \in Engines, Crash(e)
    PROVE  Quiet /\ parse' = parse /\ Advances(e)
<1>1. Quiet /\ parse' = parse
  BY DEF Crash, Quiet, tables
<1>2. Moves(e, Idle, NoSources, NoAnswer)
  BY DEF Moves, Crash
<1>. QED
  BY <1>1, <1>2, QuietGrows, IdleKnows, IdleType, Nothing DEF Advances

(* The answer: at its end every hash a command keeps is that of its text.   *)
LEMMA EvidenceNext ==
    ASSUME IInv, NEW e \in Engines, Evidence(e)
    PROVE  Quiet /\ parse' = parse /\ Advances(e)
<1>1. Quiet /\ parse' = parse
  BY DEF Evidence, Quiet, tables
<1>2. PICK c, k, b : c = eng[e] /\ k = kept[e] /\ b = answer[e]
  OBVIOUS
<1>3. c \in Command /\ k \in [Names -> Source] /\ c.pc = "evidence" /\ Keeps(c, k)
  BY <1>2, CommandNow DEF Evidence
<1>4. eng' = [eng EXCEPT ![e] = Idle]
  BY DEF Evidence
<1>5. PICK v : v = EvidenceOf(eng[e].run)
  OBVIOUS
<1>6. PICK a : a = [request |-> c.request, run |-> c.run, attempt |-> c.attempt,
                    sources |-> k, evidence |-> v]
  OBVIOUS
<1>7. Sound(a)
  <2>1. /\ a.request = c.request /\ a.sources = k /\ Attempt(a) = Attempt(c)
    BY <1>6 DEF Attempt
  <2>2. ASSUME NEW f \in Names
        PROVE  /\ k[f] # NoSource => k[f].by = Attempt(c)
               /\ c.request \in Windowed /\ Excerpt(k[f]) => k[f].hash = k[f].text
    BY <1>3 DEF Keeps, Printed, Late
  <2>. QED
    BY <2>1, <2>2 DEF Sound
<1>8. CASE kept' = [kept EXCEPT ![e] = NoSources] /\ answer' = [answer EXCEPT ![e] = a]
  <2>1. Moves(e, Idle, NoSources, a)
    BY <1>4, <1>8 DEF Moves
  <2>. QED
    BY <1>1, <1>7, <2>1, QuietGrows, IdleKnows, IdleType DEF Advances
<1>9. CASE UNCHANGED kept /\ answer' = [answer EXCEPT ![e] = NoAnswer]
  <2>1. Moves(e, Idle, k, NoAnswer)
    BY <1>2, <1>4, <1>9 DEF Moves, IInv, Types
  <2>. QED
    BY <1>1, <1>3, <2>1, QuietGrows, IdleKnows, IdleType, Nothing DEF Advances
<1>. QED
  BY <1>2, <1>5, <1>6, <1>8, <1>9 DEF Evidence

---------------------------------------------------------------------------
(* The invariant.                                                           *)

(* A step of an engine, from what it does to the tables and to the engine.  *)
LEMMA EngineStep ==
    ASSUME IInv, NEW e \in Engines, Advances(e), Grows, RunsInv', LeaseInv',
           disk' = disk, runs' \in Seq(Run), lease' \in Nat \X Nat,
           parse' \subseteq [key : Names \X Nat \X Int, text : Int], ParseInv'
    PROVE  IInv'
<1>1. disk' \in [Names -> [version : Nat, guard : Nat]]
  BY DEF IInv, Types
<1>2. /\ eng' \in [Engines -> Command] /\ kept' \in [Engines -> [Names -> Source]]
      /\ answer' = [d \in Engines |-> answer'[d]]
      /\ EngineInv'
  BY <1>1, EnginesNext
<1>3. Types'
  BY <1>1, <1>2 DEF Types
<1>. QED
  BY <1>2, <1>3 DEF IInv

LEMMA QuietStep ==
    ASSUME IInv, NEW e \in Engines, Advances(e), Quiet, parse' = parse
    PROVE  IInv'
<1>1. /\ disk' = disk /\ runs' \in Seq(Run) /\ lease' \in Nat \X Nat
      /\ parse' \subseteq [key : Names \X Nat \X Int, text : Int] /\ ParseInv'
  BY DEF Quiet, IInv, Types, ParseInv
<1>. QED
  BY <1>1, QuietGrows, EngineStep

(* Every engine keeps what it has while the world around it moves.          *)
LEMMA EnginesStay ==
    ASSUME IInv, Grows, disk' \in [Names -> [version : Nat, guard : Nat]],
           UNCHANGED <<eng, kept, answer>>
    PROVE  EngineInv'
<1>. SUFFICES ASSUME NEW d \in Engines
              PROVE  Knows(eng[d])' /\ Keeps(eng[d], kept[d])' /\ Sound(answer[d])'
  BY DEF EngineInv
<1>1. PICK x, k, a : x = eng[d] /\ k = kept[d] /\ a = answer[d]
  OBVIOUS
<1>2. x \in Command /\ k \in [Names -> Source] /\ Knows(x) /\ Keeps(x, k) /\ Sound(a)
  BY <1>1, CommandNow
<1>3. Knows(x)' /\ Keeps(x, k)'
  BY <1>2, KnowsStays, KeepsStays DEF IInv
<1>4. x = eng'[d] /\ k = kept'[d] /\ a = answer'[d]
  BY <1>1
<1>5. Knows(eng[d])'
  BY <1>3, <1>4 DEF Knows, Judged, Reused, Matches
<1>6. Keeps(eng[d], kept[d])'
  BY <1>3, <1>4 DEF Keeps, Printed, Attempt
<1>7. Sound(answer[d])'
  BY <1>2, <1>4 DEF Sound, Attempt
<1>. QED
  BY <1>5, <1>6, <1>7

LEMMA EvictNext ==
    ASSUME IInv, NEW r \in parse, Evict(r)
    PROVE  IInv'
<1>1. Quiet /\ UNCHANGED <<eng, kept, answer>> /\ parse' \subseteq parse
  BY DEF Evict, Quiet
<1>2. EngineInv'
  BY <1>1, QuietGrows, EnginesStay
<1>3. ParseInv'
  BY <1>1 DEF IInv, ParseInv, Quiet
<1>4. Types'
  BY <1>1 DEF IInv, Types, Quiet
<1>. QED
  BY <1>1, <1>2, <1>3, <1>4, QuietGrows DEF IInv

LEMMA RewriteNext ==
    ASSUME IInv, NEW f \in Names, NEW v \in Nat, Rewrite(f, v)
    PROVE  IInv'
<1>1. disk' = [disk EXCEPT ![f] = [version |-> v, guard |-> disk[f].guard + 1]]
  BY DEF Rewrite, IInv, Types
<1>2. UNCHANGED <<runs, lease, parse, eng, kept, answer>>
  BY DEF Rewrite, tables
<1>3. /\ disk' \in [Names -> [version : Nat, guard : Nat]]
      /\ \A g \in Names : disk[g].guard <= disk'[g].guard
  BY <1>1 DEF IInv, Types
<1>4. Grows /\ RunsInv' /\ LeaseInv'
  BY <1>2, <1>3, SameRuns DEF IInv
<1>5. EngineInv'
  BY <1>2, <1>3, <1>4, EnginesStay
<1>6. ParseInv'
  <2>. SUFFICES ASSUME NEW x \in parse
                PROVE  x.text = x.key[3] \/ x.key[3] < disk'[x.key[1]].guard
    BY <1>2 DEF ParseInv
  <2>1. x.key[1] \in Names /\ x.key[3] \in Int
    BY DEF IInv, Types
  <2>2. x.text = x.key[3] \/ x.key[3] < disk[x.key[1]].guard
    BY DEF IInv, ParseInv
  <2>3. disk[x.key[1]].guard <= disk'[x.key[1]].guard
    BY <1>3, <2>1
  <2>4. disk[x.key[1]].guard \in Nat /\ disk'[x.key[1]].guard \in Nat
    BY <1>3, <2>1 DEF IInv, Types
  <2>. QED
    BY <2>1, <2>2, <2>3, <2>4
<1>7. Types'
  BY <1>2, <1>3 DEF IInv, Types
<1>. QED
  BY <1>4, <1>5, <1>6, <1>7 DEF IInv

LEMMA StartsSound == Init => IInv
<1>. SUFFICES ASSUME Init PROVE IInv
  OBVIOUS
<1>1. /\ disk = [f \in Names |-> [version |-> 0, guard |-> 0]] /\ parse = {} /\ runs = <<>>
      /\ lease = NoAttempt /\ eng = [e \in Engines |-> Idle]
      /\ kept = [e \in Engines |-> NoSources] /\ answer = [e \in Engines |-> NoAnswer]
  BY DEF Init
<1>2. Types
  <2>1. /\ disk \in [Names -> [version : Nat, guard : Nat]] /\ runs \in Seq(Run)
        /\ lease \in Nat \X Nat
        /\ parse \subseteq [key : Names \X Nat \X Int, text : Int]
    BY <1>1 DEF NoAttempt
  <2>2. /\ eng \in [Engines -> Command] /\ kept \in [Engines -> [Names -> Source]]
        /\ answer = [e \in Engines |-> answer[e]]
    BY <1>1, IdleType
  <2>. QED
    BY <2>1, <2>2 DEF Types
<1>3. LeaseInv /\ ParseInv /\ RunsInv
  BY <1>1 DEF LeaseInv, ParseInv, RunsInv
<1>4. ASSUME NEW e \in Engines
      PROVE  Knows(eng[e]) /\ Keeps(eng[e], kept[e]) /\ Sound(answer[e])
  <2>1. PICK y : y = Idle /\ y = eng[e]
    BY <1>1
  <2>2. y.pc = "idle" /\ y.seen = Unseen
    BY <2>1 DEF Idle
  <2>3. \A f \in Names : y.seen[f].guard <= disk[f].guard
    <3>. TAKE f \in Names
    <3>1. y.seen[f].guard = -1 /\ disk[f].guard = 0
      BY <1>1, <2>2 DEF Unseen, NoText
    <3>. QED
      BY <3>1
  <2>4. Knows(y)
    BY <2>2, <2>3 DEF Knows, Early, Late
  <2>5. Knows(eng[e])
    BY <2>1, <2>4 DEF Knows, Judged, Reused, Matches
  <2>6. Keeps(eng[e], kept[e])
    BY <2>1, <2>2 DEF Keeps, Early
  <2>7. Sound(answer[e])
    BY <1>1, Nothing DEF Sound, Attempt
  <2>. QED
    BY <2>5, <2>6, <2>7
<1>. QED
  BY <1>2, <1>3, <1>4 DEF IInv, EngineInv

LEMMA StaysSound == IInv /\ [Next]_vars => IInv'
<1>. SUFFICES ASSUME IInv, [Next]_vars PROVE IInv'
  OBVIOUS
<1>1. ASSUME NEW e \in Engines, NEW q \in Requests, Refuse(e, q) \/ Replay(e, q)
      PROVE  IInv'
  BY <1>1, RefuseNext, ReplayNext, QuietStep
<1>2. ASSUME NEW e \in Engines, NEW q \in Requests, Start(e, q)
      PROVE  IInv'
  <2>1. /\ disk' = disk /\ ParseInv'
        /\ parse' \subseteq [key : Names \X Nat \X Int, text : Int]
    BY <1>2 DEF Start, IInv, Types, ParseInv
  <2>. QED
    BY <1>2, <2>1, StartNext, EngineStep
<1>3. ASSUME NEW e \in Engines,
             \/ Preflight(e) \/ StageFails(e) \/ PrepareInventory(e) \/ Invalid(e) \/ GiveUp(e)
      PROVE  IInv'
  BY <1>3, PlainSteps, QuietStep
<1>4. ASSUME NEW e \in Engines, NEW found \in SUBSET Names, Discover(e, found)
      PROVE  IInv'
  BY <1>4, DiscoverNext, QuietStep
<1>5. ASSUME NEW e \in Engines, NEW lost \in SUBSET Names, AttachGuards(e, lost)
      PROVE  IInv'
  BY <1>5, AttachNext, QuietStep
<1>6. ASSUME NEW e \in Engines, Lookup(e) \/ \E time \in Times : Reuse(e, time)
      PROVE  IInv'
  BY <1>6, LookupNext, ReuseNext, QuietStep
<1>7. ASSUME NEW e \in Engines, NEW rows \in [Names -> UNION {Results(e, f) : f \in Names}],
             NEW warned \in BOOLEAN, NEW refused \in BOOLEAN, Scan(e, rows, warned, refused)
      PROVE  IInv'
  <2>1. /\ Quiet /\ Advances(e)
        /\ parse' \subseteq [key : Names \X Nat \X Int, text : Int] /\ ParseInv'
    BY <1>7, ScanNext
  <2>2. disk' = disk /\ runs' \in Seq(Run) /\ lease' \in Nat \X Nat
    BY <2>1 DEF Quiet, IInv, Types
  <2>. QED
    BY <2>1, <2>2, QuietGrows, EngineStep
<1>8. ASSUME NEW e \in Engines, CheckSource(e) \/ HashSource(e) \/ SettleSource(e)
      PROVE  IInv'
  BY <1>8, CheckNext, HashNext, SettleNext, QuietStep
<1>9. ASSUME NEW e \in Engines, Commit(e)
      PROVE  IInv'
  <2>1. /\ disk' = disk /\ ParseInv'
        /\ parse' \subseteq [key : Names \X Nat \X Int, text : Int]
    BY <1>9 DEF Commit, IInv, Types, ParseInv
  <2>. QED
    BY <1>9, <2>1, CommitNext, EngineStep
<1>10. ASSUME NEW e \in Engines, Evidence(e) \/ Crash(e)
       PROVE  IInv'
  BY <1>10, EvidenceNext, CrashNext, QuietStep
<1>11. ASSUME NEW r \in parse, Evict(r)
       PROVE  IInv'
  BY <1>11, EvictNext
<1>12. ASSUME NEW f \in Names, NEW v \in {disk[f].version, disk[f].version + 1}, Rewrite(f, v)
       PROVE  IInv'
  <2>1. v \in Nat
    BY <1>12 DEF IInv, Types
  <2>. QED
    BY <1>12, <2>1, RewriteNext
<1>13. CASE UNCHANGED vars
  <2>1. UNCHANGED <<disk, parse, runs, lease, eng, kept, answer>>
    BY <1>13 DEF vars
  <2>2. Quiet
    BY <2>1 DEF Quiet
  <2>3. EngineInv'
    BY <2>1, <2>2, QuietGrows, EnginesStay
  <2>4. Types' /\ ParseInv'
    BY <2>1 DEF IInv, Types, ParseInv
  <2>. QED
    BY <2>2, <2>3, <2>4, QuietGrows DEF IInv
<1>14. ASSUME NEW e \in Engines, Step(e)
       PROVE  IInv'
  BY <1>3, <1>4, <1>5, <1>6, <1>7, <1>8, <1>9, <1>10, <1>14 DEF Step
<1>. QED
  BY <1>1, <1>2, <1>10, <1>11, <1>12, <1>13, <1>14 DEF Next

---------------------------------------------------------------------------
(* What it promises.                                                        *)

LEMMA TextsHold == IInv => TextsAreOfTheirFiles
<1>. SUFFICES ASSUME IInv, NEW r \in DOMAIN runs, Committed(r), runs[r].request \in Windowed,
                     NEW f \in runs[r].batch.found, runs[r].batch.rows[f].status = "success"
              PROVE  runs[r].batch.rows[f].text = runs[r].seen[f].guard
  BY DEF TextsAreOfTheirFiles
<1>1. RunHolds(runs[r])
  BY DEF IInv, RunsInv
<1>. QED
  BY <1>1 DEF RunHolds, TextsMatch, Committed

LEMMA SnapshotsHold == IInv => SnapshotsAreClean
<1>. SUFFICES ASSUME IInv, NEW r \in DOMAIN runs, runs[r].from # 0
              PROVE  /\ runs[r].status = "success" /\ runs[r].batch.found = Names
                     /\ With(Names, runs[r].batch.rows, Failing) = {}
                     /\ ~runs[runs[r].artifact].warned
  BY DEF SnapshotsAreClean
<1>1. PICK x \in Run : x = runs[r]
  BY DEF IInv, Types
<1>2. RunHolds(x) /\ RefersTo(x) /\ x.from # 0
  <2>1. RunHolds(runs[r]) /\ RefersTo(runs[r])
    BY DEF IInv, RunsInv
  <2>. QED
    BY <1>1, <2>1 DEF RunHolds, RefersTo, ProvenanceHolds, TextsMatch, Clean, With
<1>3. x.status = "success" /\ Clean(x.batch.found, x.batch.rows)
  BY <1>2 DEF RunHolds
<1>4. x.artifact \in DOMAIN runs /\ runs[x.artifact].eligible
  BY <1>2, <1>3 DEF RunHolds, ProvenanceHolds, RefersTo
<1>5. PICK n : n = x.artifact
  OBVIOUS
<1>6. ~runs[n].warned
  <2>1. n \in DOMAIN runs /\ runs[n].eligible
    BY <1>4, <1>5
  <2>2. RunHolds(runs[n])
    BY <2>1 DEF IInv, RunsInv
  <2>. QED
    BY <2>1, <2>2 DEF RunHolds
<1>. QED
  BY <1>1, <1>3, <1>5, <1>6 DEF Clean

LEMMA AnswersHold == IInv => SourcesAreSound
<1>. SUFFICES ASSUME IInv, NEW e \in Engines
              PROVE  Sound(answer[e])
  BY DEF SourcesAreSound, FingerprintMatches, SourcesAreOfTheAnswer, Sound
<1>. QED
  BY DEF IInv, EngineInv

(* A run whose result is stored is the one its engine has just finalized.   *)
LEMMA StoredByCommit ==
    ASSUME IInv, Next, NEW r \in DOMAIN runs, ~Committed(r), Committed(r)'
    PROVE  \E e \in Engines : /\ Ready(e) /\ r = eng[e].run /\ Finalized(e)
                              /\ eng[e].pc = "print" => ReceiptHolds(e)
                              /\ inventory' = inventory
<1>1. runs' # runs
  BY DEF Committed
<1>2. ASSUME NEW e \in Engines, NEW q \in Requests, Start(e, q)
      PROVE  FALSE
  <2>1. PICK t : t = Reclaimed
    OBVIOUS
  <2>2. PICK n \in Nat, x \in Run : Begins(e, q, t, n, x)
    BY <1>2, <2>1, StartWrites
  <2>3. CASE r = n
    BY <2>2, <2>3 DEF Begins, Committed
  <2>4. CASE r # n
    <3>1. runs'[r] = t[r]
      BY <2>2, <2>4 DEF Begins
    <3>2. t[r].status \in {"abandoned", runs[r].status}
      <4>1. runs[r] \in Run
        BY DEF IInv, Types
      <4>. QED
        BY <2>1, <4>1 DEF Reclaimed, Run
    <3>. QED
      BY <3>1, <3>2 DEF Committed
  <2>. QED
    BY <2>3, <2>4
<1>3. ASSUME NEW e \in Engines, Commit(e), Abandon(e)
      PROVE  FALSE
  <2>1. CASE r = eng[e].run /\ Owned(e)
    <3>1. runs'[r] = [runs[r] EXCEPT !.status = "abandoned"] /\ runs[r] \in Run
      BY <1>3, <2>1 DEF Abandon, IInv, Types
    <3>2. runs'[r].status = "abandoned"
      BY <3>1 DEF Run
    <3>. QED
      BY <3>2 DEF Committed
  <2>2. CASE ~(r = eng[e].run /\ Owned(e))
    <3>1. runs'[r] = runs[r]
      BY <1>3, <2>2 DEF Abandon
    <3>. QED
      BY <3>1 DEF Committed
  <2>. QED
    BY <2>1, <2>2
<1>4. ASSUME NEW e \in Engines, Commit(e)
      PROVE  /\ Ready(e) /\ r = eng[e].run /\ Finalized(e)
             /\ eng[e].pc = "print" => ReceiptHolds(e)
             /\ inventory' = inventory
  <2>1. Finalized(e) /\ (eng[e].pc = "print" => ReceiptHolds(e)) /\ Ready(e) /\ inventory' = inventory
    BY <1>3, <1>4 DEF Commit
  <2>2. r # eng[e].run => runs'[r] = runs[r]
    BY <2>1 DEF Finalized
  <2>3. r = eng[e].run
    BY <2>2 DEF Committed
  <2>. QED
    BY <2>1, <2>3
<1>5. ASSUME NEW e \in Engines, Step(e)
      PROVE  Commit(e)
  BY <1>1, <1>5 DEF Step, Preflight, Discover, StageFails, AttachGuards, PrepareInventory, Lookup,
       Reuse, Scan, CheckSource, HashSource, SettleSource, Invalid, GiveUp, Evidence, tables
<1>6. ASSUME NEW e \in Engines, NEW q \in Requests, Refuse(e, q) \/ Replay(e, q)
      PROVE  FALSE
  BY <1>1, <1>6 DEF Refuse, Replay, tables
<1>7. ASSUME NEW e \in Engines, Crash(e)
      PROVE  FALSE
  BY <1>1, <1>7 DEF Crash, tables
<1>8. ASSUME NEW x \in parse, Evict(x)
      PROVE  FALSE
  BY <1>1, <1>8 DEF Evict
<1>9. ASSUME NEW f \in Names, NEW v \in {disk[f].version, disk[f].version + 1}, Rewrite(f, v)
      PROVE  FALSE
  BY <1>1, <1>9 DEF Rewrite, tables
<1>. QED
  BY <1>2, <1>4, <1>5, <1>6, <1>7, <1>8, <1>9 DEF Next

(* The evidence of a run in the state after its commit.                     *)
Shows(r, f) ==
    /\ EvidenceOf(r)[f] = runs[r].seen[f]
    /\ runs[r].request \in Windowed /\ runs[r].batch.rows[f].status = "success" =>
          runs[r].batch.rows[f].text = EvidenceOf(r)[f].guard

LEMMA CommitsShow ==
    ASSUME IInv, IInv', Next, NEW r \in DOMAIN runs, ~Committed(r), Committed(r)',
           NEW f \in runs'[r].batch.found
    PROVE  Shows(r, f)'
<1>1. PICK e \in Engines : /\ Ready(e) /\ r = eng[e].run /\ Finalized(e)
                           /\ eng[e].pc = "print" => ReceiptHolds(e)
                           /\ inventory' = inventory
  BY StoredByCommit
<1>2. PICK c, b, n : c = eng[e] /\ b = Batch(c) /\ n = ArtifactOf(c)
  OBVIOUS
<1>3. c \in Command /\ Knows(c) /\ c.pc \in {"print", "fail"}
  BY <1>1, <1>2 DEF Ready, IInv, Types, EngineInv, Knows, Judged, Reused, Matches
<1>4. Writes(c, b)
  BY <1>2, <1>3, BatchHolds
<1>5. PICK x \in Run : x = runs[r]
  BY DEF IInv, Types
<1>6. PICK z : z = Ended(c, b, n, x) /\ z = runs'[r]
  <2>1. runs' = [runs EXCEPT ![c.run] = Ended(c, b, n, runs[c.run])]
    BY <1>1, <1>2, FinalizedAs
  <2>. QED
    BY <1>1, <1>2, <1>5, <2>1
<1>7. /\ z.status = b.status /\ z.batch = b
      /\ z.seen = IF b.found = {} THEN Unseen ELSE c.seen
  BY <1>6 DEF Ended, Run
<1>8. b.status # "error" /\ b.found # {} /\ f \in b.found
  BY <1>6, <1>7 DEF Committed
<1>9. c.pc = "print" /\ b.found = c.found /\ z.seen = c.seen /\ f \in c.found
  BY <1>3, <1>4, <1>7, <1>8 DEF Writes
<1>10. inventory[f] = [version |-> c.seen[f].version, guard |-> c.seen[f].guard, run |-> c.run]
  BY <1>1, <1>2, <1>9 DEF ReceiptHolds
<1>11. f \in Names /\ c.seen[f] \in [version : Nat, guard : Int]
  BY <1>3, <1>9 DEF Command, Sightings
<1>12. EvidenceOf(r)'[f] = [version |-> z.seen[f].version, guard |-> inventory[f].guard]
  BY <1>1, <1>6, <1>7, <1>8, <1>11 DEF EvidenceOf
<1>13. EvidenceOf(r)'[f] = z.seen[f] /\ EvidenceOf(r)'[f].guard = z.seen[f].guard
  BY <1>9, <1>10, <1>11, <1>12
<1>14. z.request \in Windowed /\ z.batch.rows[f].status = "success" =>
          z.batch.rows[f].text = z.seen[f].guard
  <2>0. r \in DOMAIN runs'
    <3>1. runs' = [runs EXCEPT ![c.run] = Ended(c, b, n, runs[c.run])]
      BY <1>1, <1>2, FinalizedAs
    <3>. QED
      BY <3>1
  <2>1. RunHolds(runs[r])'
    <3>1. RunsInv'
      BY DEF IInv
    <3>. QED
      BY <2>0, <3>1 DEF RunsInv
  <2>2. z.status \in {"success", "partial"}
    BY <1>6 DEF Committed
  <2>3. z.request \in Windowed => TextsMatch(z.batch.found, z.batch.rows, z.seen)
    BY <1>6, <2>1, <2>2 DEF RunHolds, TextsMatch
  <2>. QED
    BY <1>7, <1>8, <2>3 DEF TextsMatch
<1>. QED
  BY <1>6, <1>13, <1>14 DEF Shows

LEMMA CommitsHold ==
    IInv /\ IInv' /\ [Next]_vars =>
        [\A r \in DOMAIN runs : ~Committed(r) /\ Committed(r)' =>
            \A f \in runs'[r].batch.found :
                /\ EvidenceOf(r)'[f] = runs'[r].seen[f]
                /\ runs'[r].request \in Windowed /\ runs'[r].batch.rows[f].status = "success" =>
                      runs'[r].batch.rows[f].text = EvidenceOf(r)'[f].guard]_vars
<1>. SUFFICES ASSUME IInv, IInv', Next, NEW r \in DOMAIN runs, ~Committed(r), Committed(r)',
                     NEW f \in runs'[r].batch.found
              PROVE  /\ EvidenceOf(r)'[f] = runs'[r].seen[f]
                     /\ runs'[r].request \in Windowed /\ runs'[r].batch.rows[f].status = "success" =>
                           runs'[r].batch.rows[f].text = EvidenceOf(r)'[f].guard
  OBVIOUS
<1>. QED
  BY CommitsShow DEF Shows

LEMMA ChecksHold == IInv => ResultsPassTheirChecks
<1>. SUFFICES ASSUME IInv PROVE ResultsPassTheirChecks
  OBVIOUS
<1>1. ASSUME NEW e \in Engines, Ready(e)
      PROVE  /\ CountsHold(Batch(eng[e]))
             /\ BatchValid(eng[e]) \/ RefusedHit(eng[e]) \/ RefusedScan(eng[e])
  <2>1. PICK c, k, a : c = eng[e] /\ k = kept[e] /\ a = answer[e]
    OBVIOUS
  <2>2. c \in Command /\ Knows(c) /\ c.pc \in {"print", "fail"}
    BY <1>1, <2>1, CommandNow DEF Ready
  <2>3. CountsHold(Batch(c)) /\ (BatchValid(c) \/ RefusedHit(c) \/ RefusedScan(c))
    BY <2>2, BatchIsValid
  <2>4. Batch(c) = Batch(eng[e])
    BY <2>1 DEF Batch, SnapshotBatch, ScanBatch, ErrorContext, ScanContext, HitTime
  <2>5. CountsHold(Batch(c)) = CountsHold(Batch(eng[e]))
    BY <2>4 DEF CountsHold
  <2>6. BatchValid(c) = BatchValid(eng[e])
    BY <2>1, <2>4, <2>5 DEF BatchValid, DurationsHold
  <2>7. RefusedHit(c) = RefusedHit(eng[e]) /\ RefusedScan(c) = RefusedScan(eng[e])
    BY <2>1 DEF RefusedHit, RefusedScan
  <2>. QED
    BY <2>3, <2>5, <2>6, <2>7
<1>2. ASSUME NEW r \in DOMAIN runs
      PROVE  Loadable(r)
  <2>1. PICK x \in Run : x = runs[r]
    BY DEF IInv, Types
  <2>2. RunHolds(x)
    <3>1. RunHolds(runs[r])
      BY DEF IInv, RunsInv
    <3>. QED
      BY <2>1, <3>1 DEF RunHolds, ProvenanceHolds, TextsMatch, Clean, With
  <2>3. CASE Terminal(r)
    <3>1. PICK b \in Batches : b = x.batch
      BY DEF Run
    <3>2. SummaryHolds(b)
      <4>1. DurationsHold(b)
        BY <2>1, <2>2, <2>3, <3>1 DEF RunHolds, Terminal, DurationsHold
      <4>. QED
        BY <4>1, BatchChecks
    <3>3. SummaryHolds(runs[r].batch)
      BY <2>1, <3>1, <3>2 DEF SummaryHolds, DurationsHold
    <3>4. x.batch.status = x.status /\ ProvenanceHolds(x)
      BY <2>1, <2>2, <2>3 DEF RunHolds, Terminal
    <3>. QED
      BY <2>1, <2>3, <3>3, <3>4 DEF Loadable, ProvenanceHolds
  <2>4. CASE ~Terminal(r)
    BY <2>1, <2>2, <2>4 DEF RunHolds, Terminal, Loadable
  <2>. QED
    BY <2>3, <2>4
<1>. QED
  BY <1>1, <1>2 DEF ResultsPassTheirChecks

LEMMA AlwaysSound == Spec => []IInv
<1>. QED
  BY StartsSound, StaysSound, PTL DEF Spec

(* Whoever wrote the cache row or the artifact it took a text from, what a   *)
(* windowed run commits for a file is what discovery took the guard of:      *)
(* a row of the parse cache that is not of its guard is never verified       *)
(* again, and what a snapshot lookup found is still what it was when it is   *)
(* committed, whoever held the lease in between.                           *)
THEOREM TextsStayOfTheirFiles == Spec => []TextsAreOfTheirFiles
<1>. QED
  BY AlwaysSound, TextsHold, PTL

(* A run that answers from another run's artifact answers a success over     *)
(* every file, without a failed file and without a hidden warning, along a   *)
(* chain of reuse of any length.                                            *)
THEOREM ReuseStaysClean == Spec => []SnapshotsAreClean
<1>. QED
  BY AlwaysSound, SnapshotsHold, PTL

(* No lock holds the inventory between prepare_inventory and the commit, and *)
(* engines that lost the lease write it: verify_inventory_snapshot makes     *)
(* sure that a commit shows what its run saw all the same, and with it that  *)
(* the texts of a windowed run are of the guards its evidence shows.         *)
THEOREM CommitsAreTheirOwn == Spec => CommitsShowWhatTheySaw
<1>. QED
  BY AlwaysSound, StaysSound, CommitsHold, PTL DEF Spec, CommitsShowWhatTheySaw

(* The sources returned by build_context are those of its own attempt, and   *)
(* for a windowed request each excerpt bears the hash of its own bytes,      *)
(* whenever the file is rewritten between the checks around the hashing.     *)
THEOREM SourcesStaySound == Spec => []SourcesAreSound
<1>. QED
  BY AlwaysSound, AnswersHold, PTL

(* validate_finalization accepts the counts that the scheduler, the snapshot *)
(* hit and the error writer derive; it refuses a result for the time of a    *)
(* lookup or a row of a foreign audit only; and whatever was stored passes   *)
(* the checks of load_evidence_snapshot.                                     *)
THEOREM ResultsAlwaysPass == Spec => []ResultsPassTheirChecks
<1>. QED
  BY AlwaysSound, ChecksHold, PTL

=============================================================================
