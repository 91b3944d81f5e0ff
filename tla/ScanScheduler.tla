---------------------------- MODULE ScanScheduler ----------------------------
(***************************************************************************)
(* One budgeted scan (scheduler.rs, refill.rs, source_guard.rs): the plan  *)
(* of the PDF classifications, the classifications in waves of workers,    *)
(* the admission into the context, the parses in waves, at most two refill *)
(* rounds that spend what the first pass did not use, and the terminal     *)
(* outcome.  While the scan runs the user may change any source file, the  *)
(* work deadline may pass, workers may answer in any order, late, or not   *)
(* at all, and the cache store may fail.                                   *)
(*                                                                         *)
(* Files are the indices of scan.files, which is in nominal order.         *)
(***************************************************************************)
EXTENDS ContextBudget

CONSTANTS
    Scans,       \* the discovered sources and settings a scan may start from
    Workers,     \* max_workers: how many files one wave hands out
    MaxChanges   \* bound: source files changed during the scan

(* A cached verdict is what a classifier answered for the file when it was    *)
(* charged so many pages, if one did.                                        *)
KnownVerdicts(f, charged) ==
    LET window == Least(f.pages, charged)
    IN {[s |-> "none", examined |-> 0],
        IF f.found \in 1 .. window THEN [s |-> "text", examined |-> f.found]
        ELSE [s |-> "no_text", examined |-> window]}

ASSUME SchedulerAssumption ==
    /\ Workers \in Nat \ {0} /\ MaxChanges \in Nat
    /\ \A s \in Scans :
          /\ s.files \in Seq(Source) /\ s.global \in Nat /\ s.cached \subseteq 1 .. Len(s.files)
          /\ {s.issues, s.strict, s.refill} \subseteq BOOLEAN
          /\ \A i \in 1 .. Len(s.files) :
                LET f == s.files[i]
                IN /\ s.known[i] \in KnownVerdicts(f, PdfPages)
                   /\ f.rel <= f.abs
                   /\ Verdict(f) \in Routes => f.chars <= MaxExcerpt(Verdict(f))

VARIABLES
    scan,     \* [files, global, cached, known, issues, strict, refill]: strict, the
              \* guard looks at the file again; refill, the policy is budget_refill_v3
    changed,  \* the files that differ from what discovery saw
    late,     \* the work deadline has passed
    pc,       \* the phase of execute
    queue,    \* files still to be looked up in the current phase
    tasks,    \* files to hand to workers, in nominal order
    wave,     \* the files handed out and what their workers answered
    plan,     \* ClassifiedPlan of every file
    cls,      \* PdfClassificationResult
    audit,    \* PdfClassificationAuditV1
    adm,      \* AdmissionDecision
    result,   \* ParseResult
    runtime,  \* files the deadline kept from being classified or parsed
    taint,    \* files whose guard did not match once
    stopped,  \* stage_deadline_exhausted_count > 0
    warned,   \* a run-level warning was recorded
    cache,    \* parse cache entries: whose content they hold
    base,     \* base_chars of the current budget model
    round,    \* the refill round, 0 in the first pass
    draft,    \* the files of the current pass
    before,   \* results and classifications when the refill round began
    ledger,   \* the refill rounds and why they stopped
    outcome   \* the terminal state

vars == <<scan, changed, late, pc, queue, tasks, wave, plan, cls, audit, adm, result,
          runtime, taint, stopped, warned, cache, base, round, draft, before, ledger,
          outcome>>
pdfState == <<cls, audit>>
roundState == <<round, draft, before, ledger, base>>

Files == scan.files
Index == 1..Len(Files)
(* Some files, in nominal order.                                            *)
InOrder(S) ==
    LET upto[n \in 0 .. Len(Files)] ==
          IF n = 0 THEN <<>> ELSE IF n \in S THEN Append(upto[n - 1], n) ELSE upto[n - 1]
    IN upto[Len(Files)]

NoClass == [s |-> "none", code |-> "none"]
ByBudget == [s |-> "by_budget", code |-> "none"]
ChangedClass == [s |-> "error", code |-> "SOURCE_VERSION_CHANGED"]
NoAudit == [s |-> "none", cache |-> "none", examined |-> -1, run |-> -1, charged |-> 0, attempts |-> 0]
BudgetAudit == [s |-> "by_budget", cache |-> "not_eligible", examined |-> 0, run |-> 0,
                charged |-> 0, attempts |-> 0]
NoResult == [status |-> "none", code |-> "none", attempts |-> 0, hit |-> FALSE, fresh |-> FALSE]
ChangedResult(attempts) ==
    [status |-> "error", code |-> "SOURCE_VERSION_CHANGED", attempts |-> attempts,
     hit |-> FALSE, fresh |-> FALSE]
NoDecision == Decision("none", "none", 0)
OutcomeOf(kind, why, error, warning, rows, evidence, chars) ==
    [kind |-> kind, why |-> why, error |-> error, warning |-> warning, rows |-> rows,
     evidence |-> evidence, chars |-> chars]
NoOutcome == OutcomeOf("none", "none", FALSE, FALSE, <<>>, <<>>, 0)
FailedScan(kind, why) == OutcomeOf(kind, why, TRUE, FALSE, <<>>, <<>>, 0)
Pending == [s |-> "running"]

Init ==
    /\ scan \in Scans
    /\ changed = {} /\ late = FALSE
    /\ pc = "classify"
    /\ plan = ClassificationPlan(scan.files, TotalPages, MaxCandidates, FALSE)
    /\ queue = InOrder({i \in Index : plan[i].classify # "not_pdf"})
    /\ tasks = <<>> /\ wave = <<>>
    /\ cls = [i \in Index |-> NoClass]
    /\ audit = [i \in Index |-> NoAudit]
    /\ adm = [i \in Index |-> NoDecision]
    /\ result = [i \in Index |-> NoResult]
    /\ runtime = {} /\ taint = {}
    /\ stopped = FALSE
    /\ warned = scan.issues
    /\ cache = [i \in Index |-> IF i \in scan.cached THEN "good" ELSE "none"]
    /\ base = 0 /\ round = 0 /\ draft = Index /\ before = 0
    /\ ledger = [rounds |-> <<>>, stop |-> "round_limit"]
    /\ outcome = NoOutcome

Fail(why) ==
    /\ outcome' = FailedScan("failed", why)
    /\ pc' = "done"

-----------------------------------------------------------------------------
(* The environment: the user saves a file; the work deadline passes.         *)
ChangeSource ==
    /\ pc # "done"
    /\ Cardinality(changed) < MaxChanges
    /\ \E i \in Index \ changed : changed' = changed \cup {i}
    /\ UNCHANGED <<scan, late, pc, queue, tasks, wave, plan, cls, audit, adm, result, runtime,
                   taint, stopped, warned, cache, roundState, outcome>>

PassDeadline ==
    /\ pc # "done" /\ ~late
    /\ late' = TRUE
    /\ UNCHANGED <<scan, changed, pc, queue, tasks, wave, plan, cls, audit, adm, result,
                   runtime, taint, stopped, warned, cache, roundState, outcome>>

VerifiedOnce(i) == i \notin taint

(* A file once seen different stays tainted; only a strict guard looks again. *)
Verified(i) == i \notin taint /\ (scan.strict => i \notin changed)

-----------------------------------------------------------------------------
(* run_classifications, the lookups in nominal order: a budget exclusion is  *)
(* recorded, a file reached after the deadline is not classified, a file     *)
(* that no longer matches its guard fails, a cached verdict of the same      *)
(* window is taken, the others become tasks.  A shortened window is a        *)
(* profile of its own, of which an earlier scan may or may not have left one. *)
CachedClasses(i) ==
    IF plan[i].pages = PdfPages THEN {scan.known[i]} ELSE KnownVerdicts(Files[i], plan[i].pages)

LookupClassification ==
    /\ pc = "classify" /\ queue # <<>>
    /\ queue' = Tail(queue)
    /\ LET i == Head(queue)
       IN \/ /\ plan[i].classify = "by_budget"
             /\ cls' = [cls EXCEPT ![i] = ByBudget]
             /\ audit' = [audit EXCEPT ![i] = BudgetAudit]
             /\ UNCHANGED <<tasks, runtime, taint, stopped>>
          \/ /\ plan[i].classify = "classify" /\ late
             /\ runtime' = runtime \cup {i}
             /\ stopped' = TRUE
             /\ UNCHANGED <<tasks, cls, audit, taint>>
          \/ /\ plan[i].classify = "classify" /\ ~late /\ ~Verified(i)
             /\ taint' = taint \cup {i}
             /\ cls' = [cls EXCEPT ![i] = ChangedClass]
             /\ UNCHANGED <<tasks, audit, runtime, stopped>>
          \/ /\ plan[i].classify = "classify" /\ ~late /\ Verified(i)
             /\ \E known \in CachedClasses(i) :
                   /\ known.s # "none"
                   /\ cls' = [cls EXCEPT ![i] = [s |-> known.s, code |-> "none"]]
                   /\ audit' = [audit EXCEPT ![i] =
                        [s |-> known.s, cache |-> "fresh", examined |-> known.examined, run |-> 0,
                         charged |-> plan[i].pages, attempts |-> 0]]
             /\ UNCHANGED <<tasks, runtime, taint, stopped>>
          \/ /\ plan[i].classify = "classify" /\ ~late /\ Verified(i)
             /\ \E known \in CachedClasses(i) : known.s = "none"
             /\ tasks' = Append(tasks, i)
             /\ UNCHANGED <<cls, audit, runtime, taint, stopped>>
    /\ UNCHANGED <<scan, changed, late, pc, wave, plan, adm, result, warned, cache,
                   roundState, outcome>>

(* A failed cache lookup fails the scan, never just the file.               *)
LookupFails ==
    /\ pc \in {"classify", "parse"} /\ queue # <<>> /\ ~late
    /\ pc = "classify" => plan[Head(queue)].classify = "classify"
    /\ Fail("store")
    /\ UNCHANGED <<scan, changed, late, queue, tasks, wave, plan, cls, audit, adm, result,
                   runtime, taint, stopped, warned, cache, roundState>>

NextWave == SubSeq(tasks, 1, Least(Workers, Len(tasks)))
AfterWaveKept == tasks
AfterWave == SubSeq(tasks, Len(NextWave) + 1, Len(tasks))

(* The next wave is handed out only before the deadline; after it every task *)
(* that is still waiting is given up.                                       *)
DispatchClassifications ==
    /\ pc = "classify" /\ queue = <<>> /\ wave = <<>> /\ tasks # <<>>
    /\ \/ /\ late
          /\ runtime' = runtime \cup ToSet(tasks)
          /\ stopped' = TRUE
          /\ tasks' = <<>>
          /\ UNCHANGED wave
       \/ /\ ~late
          /\ wave' = [k \in 1..Len(NextWave) |-> [i |-> NextWave[k], out |-> Pending]]
          /\ tasks' = AfterWave
          /\ UNCHANGED <<runtime, stopped>>
    /\ UNCHANGED <<scan, changed, late, pc, queue, plan, cls, audit, adm, result, taint,
                   warned, cache, roundState, outcome>>

(* External: what a classifier may answer for a file.  It examines the       *)
(* window in order and stops at the first page with text; it may fail before *)
(* or after starting, answer that it failed, time out, find the file         *)
(* protected or changed, or only succeed at its second attempt.  f.found is  *)
(* the first page with text.                                                 *)
Verdicts(i) ==
    LET f == Files[i]
        window == Least(f.pages, plan[i].pages)
        text == f.found \in 1..window
        answer(n) == [s |-> IF text THEN "text" ELSE "no_text", code |-> "none",
                      examined |-> IF text THEN f.found ELSE window, attempts |-> n]
        failure(s, c, n) == [s |-> s, code |-> c, examined |-> -1, attempts |-> n]
    IN {answer(1), answer(2), failure("unknown", "PARSER_TIMEOUT", 1),
        failure("unknown", "PARSER_FAILED", 0), failure("unknown", "PARSER_FAILED", 1),
        failure("error", "PARSER_FAILED", 1), failure("error", "PDF_PROTECTED", 1)}
       \cup IF i \in changed THEN {failure("unknown", "SOURCE_VERSION_CHANGED", 1)} ELSE {}

ReturnVerdict ==
    /\ pc = "classify"
    /\ \E k \in DOMAIN wave :
          /\ wave[k].out = Pending
          /\ \E o \in Verdicts(wave[k].i) : wave' = [wave EXCEPT ![k].out = o]
    /\ UNCHANGED <<scan, changed, late, pc, queue, tasks, plan, cls, audit, adm, result,
                   runtime, taint, stopped, warned, cache, roundState, outcome>>

(* A cache write is a receipt, a warning, or the end of the work time.       *)
Write ==
    \/ UNCHANGED <<late, stopped, warned>>
    \/ ~warned /\ warned' = TRUE /\ UNCHANGED <<late, stopped>>
    \/ late' = TRUE /\ stopped' = TRUE /\ UNCHANGED warned

(* The answers of a wave are merged in nominal order once all have arrived.  *)
SettleVerdict ==
    /\ pc = "classify" /\ wave # <<>>
    /\ \A k \in DOMAIN wave : wave[k].out # Pending
    /\ wave' = Tail(wave)
    /\ LET i == Head(wave).i
           o == Head(wave).out
           kept == [s |-> o.s, code |-> o.code]
       IN \/ /\ o.code = "SOURCE_VERSION_CHANGED"
             /\ cls' = [cls EXCEPT ![i] = ChangedClass]
             /\ UNCHANGED <<audit, taint, late, stopped, warned>>
          \/ /\ o.code # "SOURCE_VERSION_CHANGED" /\ o.attempts = 0
             /\ cls' = [cls EXCEPT ![i] = kept]
             /\ UNCHANGED <<audit, taint, late, stopped, warned>>
          \/ /\ o.code # "SOURCE_VERSION_CHANGED" /\ o.attempts > 0 /\ ~Verified(i)
             /\ taint' = taint \cup {i}
             /\ cls' = [cls EXCEPT ![i] = ChangedClass]
             /\ UNCHANGED <<audit, late, stopped, warned>>
          \/ /\ o.code # "SOURCE_VERSION_CHANGED" /\ o.attempts > 0 /\ Verified(i)
             /\ cls' = [cls EXCEPT ![i] = kept]
             /\ audit' = [audit EXCEPT ![i] =
                  [s |-> o.s, cache |-> "miss", examined |-> o.examined,
                   run |-> IF o.attempts = 1 THEN o.examined ELSE -1,
                   charged |-> plan[i].pages, attempts |-> o.attempts]]
             /\ IF o.s \in {"text", "no_text"} /\ ~late THEN Write
                ELSE UNCHANGED <<late, stopped, warned>>
             /\ UNCHANGED taint
    /\ UNCHANGED <<scan, changed, pc, queue, tasks, plan, adm, result, runtime, cache,
                   roundState, outcome>>

-----------------------------------------------------------------------------
(* The error line of a PDF whose classification failed is part of the fixed  *)
(* sections, so that the admission cannot spend its space.                  *)
ErrorLines ==
    LET failed == {i \in Index \ runtime : plan[i].classify = "classify"
                                           /\ cls[i].s \in {"unknown", "error"}}
        code(i) == CASE cls[i].s = "unknown" /\ cls[i].code = "PARSER_TIMEOUT" -> "PARSER_TIMEOUT"
                     [] cls[i].s = "error" /\ cls[i].code = "PDF_PROTECTED" -> "PDF_PROTECTED"
                     [] OTHER -> "PARSER_FAILED"
        seq == InOrder(failed)
    IN [k \in 1..Len(seq) |-> 32 + Files[seq[k]].abs + Chars[code(seq[k])]]

Reserved(a) == SumOf([i \in Index |-> a[i].reserved])

ConsideredAgain == {i \in Index \ runtime : plan[i].classify # "by_budget"}

(* The first pass admits the files the deadline did not stop; a refill round *)
(* admits every file of the round.                                          *)
Considered ==
    IF round = 0 THEN {i \in Index \ runtime : plan[i].classify # "by_budget"} ELSE draft

ExtractionsUsed ==
    Cardinality({i \in Index : /\ adm[i].act = "admit" /\ adm[i].why = "pdf"
                               /\ cls[i].s = "text"
                               /\ ~(result[i].status = "success" /\ result[i].hit)})

(* What is newly decided for some files replaces what was decided for them.  *)
Amended(old, new) == [i \in Index |-> IF i \in DOMAIN new THEN new[i] ELSE old[i]]

Monus(a, b) == IF a > b THEN a - b ELSE 0

(* ContentAdmissionPlan over the files S, given what others already hold.    *)
Admission(S, baseChars, held) ==
    LET seq == InOrder(S)
        out == ContentAdmission([k \in DOMAIN seq |-> Files[seq[k]]],
                                [k \in DOMAIN seq |-> plan[seq[k]]],
                                [k \in DOMAIN seq |-> cls[seq[k]].s],
                                baseChars, held, Monus(MaxExtractions, ExtractionsUsed),
                                scan.global)
    IN [i \in S |-> out[Rank(seq, i)]]

Price ==
    /\ pc = "classify" /\ queue = <<>> /\ tasks = <<>> /\ wave = <<>>
    /\ base' = BaseChars(Len(Files), ErrorLines, scan.global)
    /\ \/ /\ base' > scan.global
          /\ Fail("fixed_over_budget")
          /\ UNCHANGED <<adm, queue>>
       \/ /\ base' <= scan.global
          /\ \E next \in {Admission(Considered, base', Reserved(adm))} :
                /\ adm' = Amended(adm, next)
                /\ queue' = InOrder({i \in DOMAIN next : next[i].act = "admit"})
          /\ pc' = "parse"
          /\ UNCHANGED outcome
    /\ UNCHANGED <<scan, changed, late, tasks, wave, plan, cls, audit, result, runtime, taint,
                   stopped, warned, cache, round, draft, before, ledger>>

-----------------------------------------------------------------------------
(* run_parses, the lookups: a cached text is used only when the guard still  *)
(* matches; a PDF without text has no parse.                                *)
LookupParse ==
    /\ pc = "parse" /\ queue # <<>>
    /\ queue' = Tail(queue)
    /\ LET i == Head(queue)
           skip == i \in runtime \/ (adm[i].why = "pdf" /\ cls[i].s = "no_text")
       IN \/ /\ skip
             /\ UNCHANGED <<tasks, result, runtime, taint, stopped>>
          \/ /\ ~skip /\ late
             /\ runtime' = runtime \cup {i}
             /\ stopped' = TRUE
             /\ UNCHANGED <<tasks, result, taint>>
          \/ /\ ~skip /\ ~late /\ cache[i] # "none" /\ ~Verified(i)
             /\ taint' = taint \cup {i}
             /\ result' = [result EXCEPT ![i] = ChangedResult(0)]
             /\ UNCHANGED <<tasks, runtime, stopped>>
          \/ /\ ~skip /\ ~late /\ cache[i] # "none" /\ Verified(i)
             /\ result' = [result EXCEPT ![i] =
                  [status |-> "success", code |-> "none", attempts |-> 0, hit |-> TRUE,
                   fresh |-> cache[i] = "good"]]
             /\ UNCHANGED <<tasks, runtime, taint, stopped>>
          \/ /\ ~skip /\ ~late /\ cache[i] = "none"
             /\ tasks' = Append(tasks, i)
             /\ UNCHANGED <<result, runtime, taint, stopped>>
    /\ UNCHANGED <<scan, changed, late, pc, wave, plan, pdfState, adm, warned, cache,
                   roundState, outcome>>

DispatchParses ==
    /\ pc = "parse" /\ queue = <<>> /\ wave = <<>> /\ tasks # <<>>
    /\ \/ /\ late
          /\ runtime' = runtime \cup ToSet(tasks)
          /\ stopped' = TRUE
          /\ tasks' = <<>>
          /\ UNCHANGED <<wave, result, taint>>
       \/ /\ ~late
          /\ LET good == InOrder({i \in ToSet(NextWave) : Verified(i)})
                 bad == {i \in ToSet(NextWave) : ~Verified(i)}
             IN /\ wave' = [k \in 1..Len(good) |-> [i |-> good[k], out |-> Pending]]
                /\ taint' = taint \cup bad
                /\ result' = [i \in Index |-> IF i \in bad THEN ChangedResult(0) ELSE result[i]]
          /\ tasks' = AfterWave
          /\ UNCHANGED <<runtime, stopped>>
    /\ UNCHANGED <<scan, changed, late, pc, queue, plan, pdfState, adm, warned, cache,
                   roundState, outcome>>

(* External: what a parser may answer.  It reads the file as it is then, at    *)
(* its first or second attempt, may fail before or after starting, and may   *)
(* itself find the file changed.                                             *)
Texts(i) ==
    LET answer(status, code, n) ==
          [status |-> status, code |-> code, attempts |-> n, hit |-> FALSE,
           fresh |-> status = "success" /\ i \notin changed]
    IN {answer("success", "none", 1), answer("success", "none", 2),
        answer("timeout", "PARSER_TIMEOUT", 1), answer("error", "PARSER_FAILED", 0),
        answer("error", "PARSER_FAILED", 1)}
       \cup IF i \in changed THEN {answer("error", "SOURCE_VERSION_CHANGED", 1)} ELSE {}

ReturnText ==
    /\ pc = "parse"
    /\ \E k \in DOMAIN wave :
          /\ wave[k].out = Pending
          /\ \E o \in Texts(wave[k].i) : wave' = [wave EXCEPT ![k].out = o]
    /\ UNCHANGED <<scan, changed, late, pc, queue, tasks, plan, pdfState, adm, result,
                   runtime, taint, stopped, warned, cache, roundState, outcome>>

SettleText ==
    /\ pc = "parse" /\ wave # <<>>
    /\ \A k \in DOMAIN wave : wave[k].out # Pending
    /\ wave' = Tail(wave)
    /\ LET i == Head(wave).i
           o == Head(wave).out
       IN \/ /\ o.status # "success"
             /\ result' = [result EXCEPT ![i] = o]
             /\ UNCHANGED <<taint, cache, late, stopped, warned>>
          \/ /\ o.status = "success" /\ ~Verified(i)
             /\ taint' = taint \cup {i}
             /\ result' = [result EXCEPT ![i] = ChangedResult(o.attempts)]
             /\ UNCHANGED <<cache, late, stopped, warned>>
          \/ /\ o.status = "success" /\ Verified(i)
             /\ result' = [result EXCEPT ![i] = o]
             /\ IF late THEN UNCHANGED <<cache, late, stopped, warned>>
                ELSE /\ Write
                     /\ cache' = IF warned' = warned /\ late' = late
                                 THEN [cache EXCEPT ![i] = IF o.fresh THEN "good" ELSE "bad"]
                                 ELSE cache
             /\ UNCHANGED taint
    /\ UNCHANGED <<scan, changed, pc, queue, tasks, plan, pdfState, adm, runtime,
                   roundState, outcome>>

-----------------------------------------------------------------------------
(* The evidence of a file: the action of its admission, or of its plan when  *)
(* it was never considered for admission.                                   *)
ActionOf(i) == IF adm[i].act = "none" THEN plan[i] ELSE adm[i]

Failed(status, why, code) ==
    [status |-> status, why |-> why, code |-> code, chars |-> 0, cut |-> FALSE]
Omitted(why) == [status |-> "not_parsed", why |-> why, code |-> "none", chars |-> 0, cut |-> FALSE]

ClassifierFailure(i) ==
    LET c == cls[i].code
        unknown == ActionOf(i).why = "unknown"
    IN CASE c = "SOURCE_VERSION_CHANGED" -> Failed("error", "parse_error", c)
         [] c = "PDF_PROTECTED" /\ ~unknown -> Failed("error", "parse_error", c)
         [] c = "PARSER_TIMEOUT" /\ unknown -> Failed("timeout", "parse_error", c)
         [] OTHER -> Failed("error", "parse_error", "PARSER_FAILED")

Evidence(i, res) ==
    LET a == ActionOf(i)
        r == res[i]
    IN CASE r.code = "SOURCE_VERSION_CHANGED" ->
              Failed("error", "source_version_changed", r.code)
         [] r.code # "SOURCE_VERSION_CHANGED" /\ a.act = "not_parsed" -> Omitted(a.why)
         [] r.code # "SOURCE_VERSION_CHANGED" /\ a.act = "reject" ->
              Failed("error", a.why, IF a.why = "source_guard_unavailable"
                                     THEN "SOURCE_GUARD_UNAVAILABLE"
                                     ELSE "PROFILE_ROUTE_INVARIANT")
         [] r.code # "SOURCE_VERSION_CHANGED" /\ a.act = "classifier_failed" ->
              ClassifierFailure(i)
         [] OTHER ->
              IF i \in runtime THEN Omitted("runtime_deadline_exhausted")
              ELSE IF r.status = "success"
              THEN [status |-> "success", why |-> "none", code |-> "none",
                    chars |-> Files[i].chars, cut |-> Files[i].cut]
              ELSE IF r.status # "none" THEN Failed(r.status, "parse_error", r.code)
              ELSE IF cls[i].s \in {"no_text", "none"}
              THEN [Omitted("pdf_no_text_in_parse_window") EXCEPT !.status = "success"]
              ELSE Failed("error", "parse_error", "INTERNAL_ERROR")

EvidenceOf(res) == [i \in Index |-> Evidence(i, res)]
Context(res) == BuildContext(Files, EvidenceOf(res), scan.global)

(* The budget error of a rendering, "none" without one: build_context's      *)
(* own, or an admitted section wider than its reservation.                   *)
Mismatch(built) ==
    IF built.why # "none" THEN built.why
    ELSE IF \A i \in Index : adm[i].act = "admit" => built.rendered[i] <= adm[i].reserved
    THEN "none" ELSE "reserved"

-----------------------------------------------------------------------------
(* A refill round: what a finished file did not use of its reservation, and  *)
(* the quotas nobody used, are given to files that were left out for want of *)
(* them.                                                                    *)
Reclaimed(built) ==
    [i \in Index |->
        IF /\ adm[i].act = "admit" /\ i \notin runtime
           /\ result[i].status = "success" \/ cls[i].s = "no_text"
           /\ built.rendered[i] > 0
        THEN [adm[i] EXCEPT !.reserved = Least(@, built.rendered[i] + 2)]
        ELSE adm[i]]

CandidatesUsedParsed == Cardinality({i \in Index : result[i].status # "none"})

CandidatesUsed ==
    Cardinality({i \in Index : \/ result[i].status # "none"
                               \/ cls[i].s \notin {"none", "by_budget"}})

(* The pages of a classification: those it examined in this run, as far as    *)
(* they are known, or the pages it is charged.                               *)
Held(i) == IF audit[i].s \in {"text", "no_text"} /\ audit[i].run # -1 THEN audit[i].run
           ELSE plan[i].pages
PagesHeld ==
    Cardinality(UNION {{i} \X (1 .. Held(i)) : i \in {j \in Index : plan[j].classify = "classify"}})

BudgetReasons == {"semantic_file_quota_exhausted", "pdf_classification_page_quota_exhausted",
                  "pdf_text_extraction_quota_exhausted", "global_context_budget_exceeded"}

Unserved ==
    {i \in Index \ runtime : /\ result[i].status = "none"
                             /\ ActionOf(i).act = "not_parsed"
                             /\ ActionOf(i).why \in BudgetReasons}
Classified == {i \in Unserved : cls[i].s \in {"text", "no_text"}}
Unstarted == {i \in Unserved : cls[i].s \in {"none", "by_budget"}}

Progress == Cardinality({i \in Index : result[i].status # "none"})
            + Cardinality({i \in Index : cls[i].s \notin {"none", "by_budget"}})

EndRefill(why, retained) ==
    /\ ledger' = [ledger EXCEPT !.stop = why]
    /\ adm' = retained
    /\ pc' = "finish"
    /\ UNCHANGED <<plan, queue, round, draft, before, outcome>>

RefillPlan(S) ==
    LET seq == InOrder(S)
        plans == ClassificationPlan([k \in DOMAIN seq |-> Files[seq[k]]],
                                    Monus(TotalPages, PagesHeld),
                                    Monus(MaxCandidates, CandidatesUsed), TRUE)
    IN [i \in S |-> plans[Rank(seq, i)]]

BeginRefill ==
    /\ pc = "refill" /\ round < 2
    /\ \/ /\ late \/ stopped
          /\ EndRefill("deadline", adm)
       \/ /\ ~late /\ ~stopped
          /\ \E built \in {Context(result)} : \E bad \in {Mismatch(built)} :
                /\ bad # "none"
                /\ Fail(bad)
          /\ UNCHANGED <<plan, adm, queue, round, draft, before, ledger>>
       \/ /\ ~late /\ ~stopped
          /\ \E built \in {Context(result)} : \E retained \in {Reclaimed(built)} :
             \E frozen \in {RefillPlan(Unstarted)} :
             \E again \in {Admission(Classified, base, Reserved(retained))} :
                LET started == {i \in Unstarted : frozen[i].act = "admit"}
                    reused == {i \in Classified : again[i].act = "admit"}
                IN /\ Mismatch(built) = "none"
                   /\ \/ /\ started \cup reused = {}
                         /\ EndRefill(IF Unserved = {} THEN "complete" ELSE "quota_exhausted",
                                       retained)
                      \/ /\ started \cup reused # {}
                         /\ adm' = retained
                         /\ plan' = Amended(plan, frozen)
                         /\ draft' = Unstarted \cup reused
                         /\ queue' = InOrder({i \in Unstarted : frozen[i].classify = "classify"})
                         /\ round' = round + 1
                         /\ before' = Progress
                         /\ pc' = "classify"
                         /\ UNCHANGED <<ledger, outcome>>
    /\ UNCHANGED <<scan, changed, late, tasks, wave, pdfState, result, runtime, taint, stopped,
                   warned, cache, base>>

Usage == [chars |-> base + Reserved(adm'), candidates |-> CandidatesUsed, pages |-> PagesHeld,
          extractions |-> ExtractionsUsed]

EndRound ==
    /\ pc = "parse" /\ queue = <<>> /\ tasks = <<>> /\ wave = <<>>
    /\ \E built \in {Context(result)} :
          \/ /\ round = 0
             /\ pc' = IF scan.refill THEN "refill" ELSE "finish"
             /\ UNCHANGED <<adm, ledger, outcome>>
          \/ /\ round > 0 /\ Mismatch(built) # "none"
             /\ Fail(Mismatch(built))
             /\ UNCHANGED <<adm, ledger>>
          \/ /\ round > 0 /\ Mismatch(built) = "none"
             /\ adm' = Reclaimed(built)
             /\ ledger' = [rounds |-> Append(ledger.rounds, Usage),
                           stop |-> IF Progress = before THEN "no_progress" ELSE ledger.stop]
             /\ pc' = IF Progress = before \/ round = 2 THEN "finish" ELSE "refill"
             /\ UNCHANGED outcome
    /\ UNCHANGED <<scan, changed, late, queue, tasks, wave, plan, pdfState, result, runtime,
                   taint, stopped, warned, cache, base, round, draft, before>>

(* RefillAudit::validate.                                                   *)
LedgerValid ==
    /\ CandidatesUsed <= MaxCandidates
    /\ PagesHeld <= TotalPages
    /\ ExtractionsUsed <= MaxExtractions
    /\ \A k \in DOMAIN ledger.rounds :
          /\ ledger.rounds[k].chars <= scan.global
          /\ ledger.rounds[k].candidates <= MaxCandidates
          /\ ledger.rounds[k].pages <= TotalPages
          /\ ledger.rounds[k].extractions <= MaxExtractions

-----------------------------------------------------------------------------
(* A parse took place: from the cache, or by a worker that really started.   *)
OpenedByAny(r) == r.status # "none"
Opened(r) == r.hit \/ r.attempts > 0

(* The row of a file (build_file_results) with the provenance the store      *)
(* derives from it.                                                         *)
Row(i, res) ==
    LET e == Evidence(i, res)
        r == res[i]
        metadata == e.status = "success" /\ r.status = "none"
        body == ~metadata /\ e.status # "not_parsed" /\ Opened(r)
    IN [status |-> e.status,
        backend |-> IF metadata THEN "metadata" ELSE IF body THEN "body" ELSE "not_parsed",
        cache |-> CASE e.status = "success" /\ r.hit -> "fresh"
                    [] e.status = "success" /\ ~r.hit /\ ~metadata -> "miss"
                    [] e.status \in {"error", "timeout"} /\ body -> "miss"
                    [] OTHER -> "not_applicable",
        attempts |-> r.attempts,
        error |-> e.code # "none",
        audit |-> audit[i]]

(* PdfClassificationAuditV1::validate.                                      *)
AuditValid(a, f) ==
    LET window == Least(f.pages, a.charged)
    IN /\ CASE a.s \in {"text", "no_text"} ->
                 /\ a.charged > 0
                 /\ IF a.s = "text" THEN a.examined \in 1..window ELSE a.examined = window
                 /\ \/ a.cache = "fresh" /\ a.run = 0 /\ a.attempts = 0
                    \/ a.cache = "miss" /\ a.attempts > 0
            [] a.s \in {"unknown", "error"} ->
                 a.cache = "miss" /\ a.attempts > 0 /\ a.charged > 0 /\ a.examined <= a.charged
            [] a.s = "by_budget" ->
                 a.cache = "not_eligible" /\ a.examined = 0 /\ a.charged = 0
                 /\ a.run = 0 /\ a.attempts = 0
            [] OTHER -> TRUE
       /\ a.run # -1 => /\ a.run <= a.attempts * a.charged
                        /\ a.cache = "miss" => a.run >= a.examined

(* FileAuditV2::validate with validate_v2_parse_provenance, the gate every   *)
(* row passes before it is stored.                                          *)
RowValid(r, f) ==
    /\ CASE r.cache = "fresh" -> r.status = "success" /\ r.attempts = 0
         [] r.cache = "miss" -> r.status # "not_parsed" /\ r.attempts > 0
         [] OTHER -> r.attempts = 0
    /\ r.error = (r.status \in {"error", "timeout"})
    /\ r.audit.s # "none" => AuditValid(r.audit, f)
    /\ r.audit.s = "no_text" => \/ r.status = "success" /\ r.backend = "metadata"
                                \/ r.status = "not_parsed" /\ r.backend = "not_parsed"
    /\ r.audit.s \in {"unknown", "error"} =>
          /\ r.status = "error" \/ (r.status = "timeout" /\ r.audit.s = "unknown")
          /\ r.backend = "not_parsed" /\ r.cache = "not_applicable"
    /\ r.audit.s = "by_budget" => r.status = "not_parsed" /\ r.backend = "not_parsed"
    /\ r.backend = "metadata" => r.audit.s = "no_text"
    /\ r.cache \in {"fresh", "miss"} => r.backend = "body"
    /\ r.cache = "not_applicable" =>
          r.backend = IF r.status = "success" THEN "metadata" ELSE "not_parsed"

(* terminal_state and the warning rule of execute.                          *)
FailingByFile(failures, cut) == failures
Failing(failures, cut) == failures \/ runtime # {} \/ cut

Terminal(built, es, rows, warning, cut) ==
    LET failures == \E i \in Index : es[i].status \in {"error", "timeout"}
        kind == IF ~Failing(failures, cut) THEN IF warning THEN "partial" ELSE "success"
                ELSE IF built.included = 0 THEN "error" ELSE "partial"
    IN OutcomeOf(kind, "none", kind = "error" /\ (failures \/ cut), warning \/ cut \/ failures,
                 rows, es, built.chars)

(* The tail of execute: tainted files lose their place to a changed-source   *)
(* error, the cache hits are touched, the context is rendered and checked,   *)
(* the terminal state is derived.                                           *)
Finish ==
    /\ pc = "finish"
    /\ \E touch \in {"ok", "deadline", "failed"} :
       \E res \in {[i \in Index |-> IF i \in taint /\ result[i].status = "none"
                                    THEN ChangedResult(0) ELSE result[i]]} :
       \E es \in {EvidenceOf(res)} : \E built \in {Context(res)} :
         LET hits == \E i \in Index : result[i].hit \/ audit[i].cache = "fresh"
             cut == stopped \/ touch = "deadline"
         IN /\ touch # "ok" => hits
            /\ result' = res
            /\ outcome' =
                 IF scan.refill /\ ~LedgerValid THEN FailedScan("failed", "ledger")
                 ELSE IF Mismatch(built) # "none" THEN FailedScan("error", Mismatch(built))
                 ELSE Terminal(built, es, [i \in Index |-> Row(i, res)],
                               warned \/ touch = "failed", cut)
            /\ stopped' = cut
    /\ pc' = "done"
    /\ UNCHANGED <<scan, changed, late, queue, tasks, wave, plan, pdfState, adm, runtime,
                   taint, warned, cache, roundState>>

Done == pc = "done" /\ UNCHANGED vars

Step ==
    \/ LookupClassification \/ LookupFails \/ DispatchClassifications
    \/ SettleVerdict \/ Price \/ LookupParse \/ DispatchParses \/ SettleText
    \/ BeginRefill \/ EndRound \/ Finish
Answer == ReturnVerdict \/ ReturnText
Next == Step \/ Answer \/ ChangeSource \/ PassDeadline \/ Done

Spec == Init /\ [][Next]_vars
(* The scheduler thread runs and every worker answers or is timed out: weak  *)
(* fairness of Step \/ Answer, which some file of the wave or the scheduler   *)
(* can always take before the scan is done.                                  *)
FairSpec == Spec /\ ([]<><<Step \/ Answer>>_vars \/ []<>(pc = "done"))

-----------------------------------------------------------------------------
(* Safety.                                                                   *)

(* A text in the context, or written to the parse cache, was read from the   *)
(* file discovery saw: the guard is checked before a cached text is used and *)
(* after a worker has read the file, and a mismatch is never forgotten.      *)
SourcesAreUnchanged ==
    scan.strict =>
        /\ \A i \in Index : cache[i] # "bad"
        /\ \A i \in DOMAIN outcome.evidence :
              outcome.evidence[i].status = "success" /\ result[i].status # "none"
              => result[i].fresh

(* However many rounds it takes, a scan opens at most max_candidate_files    *)
(* files, holds at most the classification pages of the profile, and starts  *)
(* at most max_pdf_text_extractions PDF parses.                              *)
InFlight == {wave[k].i : k \in DOMAIN wave}
QuotasHold ==
    /\ Cardinality({i \in Index : \/ i \in InFlight \/ result[i].status # "none"
                                 \/ cls[i].s \notin {"none", "by_budget"}}) <= MaxCandidates
    /\ PagesHeld <= TotalPages
    /\ Cardinality({i \in Index : /\ adm[i].why = "pdf" /\ adm[i].act = "admit"
                                 /\ (result[i].attempts > 0 \/ (pc = "parse" /\ i \in InFlight))})
       <= MaxExtractions

(* An admitted file always fits: no rendering of what was admitted outgrows  *)
(* a reservation or the global budget, before or after a refill.             *)
AdmittedFits ==
    /\ outcome.why \notin {"section", "summary", "total", "reserved"}
    /\ outcome.chars <= scan.global

(* Every budget of the profile holds in every round of a scan.              *)
BudgetsHold == QuotasHold /\ AdmittedFits

(* A row is accepted by the contract the store validates it with, when the   *)
(* classification audit it carries is the one of its last classification.    *)
OwnAudit(i) == audit[i].s = "by_budget" => cls[i].s = "by_budget" /\ i \notin runtime
RowsAreValid ==
    \A i \in DOMAIN outcome.rows : OwnAudit(i) => RowValid(outcome.rows[i], Files[i])

(* A scan that claims success used or deliberately omitted every file; a     *)
(* scan that ends in error says why.                                         *)
OutcomeIsExplained ==
    /\ outcome.kind \in {"error", "failed"} => outcome.error
    /\ outcome.kind = "success" =>
          /\ ~outcome.warning /\ runtime = {} /\ taint = {}
          /\ \A i \in Index : \/ outcome.evidence[i].status = "success"
                              \/ outcome.evidence[i].why \in BudgetReasons \cup
                                   {"file_size_policy", "legacy_extension_disabled"}

(* What a scan hands over can be stored and tells the truth.                *)
OutcomeIsSound == RowsAreValid /\ OutcomeIsExplained

(* A refill only adds: what was parsed stays parsed, what was admitted stays *)
(* admitted, and a reservation is never raised again.                        *)
RefillKeepsWork ==
    [][\A i \in Index :
          /\ result[i].status # "none" => result'[i] = result[i]
          /\ adm[i].act = "admit" => /\ adm'[i].act = "admit"
                                     /\ adm'[i].reserved <= adm[i].reserved]_vars

(* The scan ends, whatever its workers, the cache and the user do.           *)
ScanEnds == <>(pc = "done")

(* What the code's comments claim and a refill round breaks.                 *)

(* Every row a scan emits passes the store's validator.                      *)
EveryRowIsStorable == \A i \in DOMAIN outcome.rows : RowValid(outcome.rows[i], Files[i])

(* The omitted summary always fits its reservation.                          *)
OmittedSummaryFits == outcome.why # "omitted"

(* Base and reservations stay within the budget in every round.              *)
RoundsStayWithinBudget == outcome.why # "ledger"
=============================================================================
