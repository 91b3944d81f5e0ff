---------------------------- MODULE ContextBudget ----------------------------
(***************************************************************************)
(* The deterministic context budget of the scanner: which files a scan may *)
(* open (ClassificationPlan), which ones may enter the context             *)
(* (ContentAdmissionPlan), what each one may take of it                    *)
(* (ContextBudgetModel), and how many characters the renderer really       *)
(* writes (build_context).  Texts are represented by their numbers of      *)
(* Unicode scalars, which is all the budget looks at; the fixed wording of *)
(* a section is the constant number of characters it has in the code.      *)
(*                                                                         *)
(* A file f is a record: f.dir the directory class that nominal.rs looks   *)
(* for, f.name its place in the order of the path strings, f.rel and f.abs *)
(* the lengths of its relative and absolute path, f.type its extension,    *)
(* f.size its bytes, f.chars the text a parser extracts from it, f.cut     *)
(* whether that text was truncated by the parser, f.lines the positions of *)
(* the newlines in it, f.guard whether discovery could guard it.           *)
(***************************************************************************)
EXTENDS Integers, Sequences, FiniteSets, SequencesExt, FiniteSetsExt

CONSTANTS
    PerFile,          \* per_file_max_chars
    MaxFileSize,      \* execution.max_file_size_bytes
    LargeFile,        \* large_file_max_bytes, the metadata-only threshold
    MaxCandidates,    \* max_candidate_files
    PdfPages,         \* parse.pdf.max_pages, the nominal charge of one PDF
    TotalPages,       \* max_total_pdf_classification_pages
    MaxExtractions,   \* max_pdf_text_extractions
    TextExcerpt,      \* min(parse.text.max_chars, parse.text.excerpt_max_chars)
    OfficeExcerpt,    \* parse.office.document_excerpt_max_chars
    PdfExcerpt        \* parse.pdf.excerpt_max_chars

ASSUME BudgetAssumption ==
    /\ {PerFile, MaxFileSize, LargeFile, PdfPages} \subseteq Nat \ {0}
    /\ {MaxCandidates, TotalPages, MaxExtractions} \subseteq Nat
    /\ {TextExcerpt, OfficeExcerpt, PdfExcerpt} \subseteq Nat \ {0}

Least(a, b) == IF a <= b THEN a ELSE b

SumOf(s) ==
    LET upto[k \in 0 .. Len(s)] == IF k = 0 THEN 0 ELSE upto[k - 1] + s[k]
    IN upto[Len(s)]

(* A pass over a sequence: each step works on the value of the one before.   *)
Pass(step(_, _), start, seq) ==
    LET after[k \in 0 .. Len(seq)] ==
          IF k = 0 THEN start
          ELSE CHOOSE next \in {step(acc, seq[k]) : acc \in {after[k - 1]}} : TRUE
    IN after[Len(seq)]

(* The lengths of the literals the rendered lines are built from.           *)
Chars ==
    [semantic_file_quota_exhausted |-> 29,
     pdf_classification_page_quota_exhausted |-> 39,
     pdf_text_extraction_quota_exhausted |-> 35,
     global_context_budget_exceeded |-> 30, file_size_policy |-> 16,
     legacy_extension_disabled |-> 25, runtime_deadline_exhausted |-> 26,
     profile_route_invariant |-> 23, source_guard_unavailable |-> 24,
     source_version_changed |-> 22, parse_error |-> 11,
     small_file_keep |-> 15, large_log_tail |-> 14,
     large_document_summary |-> 22, medium_text_compress |-> 20,
     pdf_no_text_in_parse_window |-> 27,
     SOURCE_VERSION_CHANGED |-> 22, SOURCE_GUARD_UNAVAILABLE |-> 24,
     PROFILE_ROUTE_INVARIANT |-> 23, PARSER_TIMEOUT |-> 14,
     PARSER_FAILED |-> 13, PDF_PROTECTED |-> 13, INTERNAL_ERROR |-> 14,
     keep |-> 4, compress |-> 8,
     md |-> 3, txt |-> 4, log |-> 4, docx |-> 5, pdf |-> 4, doc |-> 4, bin |-> 4]

(* The alphabetical order of the omission reasons and of the extensions.     *)
OmitReasons == <<"file_size_policy", "global_context_budget_exceeded",
                 "legacy_extension_disabled",
                 "pdf_classification_page_quota_exhausted",
                 "pdf_text_extraction_quota_exhausted",
                 "runtime_deadline_exhausted", "semantic_file_quota_exhausted">>
Extensions == <<"bin", "doc", "docx", "log", "md", "pdf", "txt">>

(* What discovery tells of a file.                                          *)
Source ==
    [name : Nat, dir : {"plain", "logs", "cache"}, type : Range(Extensions), rel : Nat, abs : Nat,
     size : Nat, chars : Nat, cut : BOOLEAN, lines : SUBSET Nat, guard : BOOLEAN, pages : Nat,
     found : Nat]

Rank(seq, x) == CHOOSE i \in DOMAIN seq : seq[i] = x

(* Bound: numbers below 10^10.                                              *)
Powers == <<10, 100, 1000, 10000, 100000, 1000000, 10000000, 100000000, 1000000000>>
Digits(n) == 1 + Cardinality({d \in 1..9 : n >= Powers[d]})
WidestNumber == 20

-----------------------------------------------------------------------------
(* The one order of every plan, summary and context (nominal.rs): the       *)
(* directory class first, then the kind of document, then the path.         *)
Priority(f) ==
    CASE f.dir = "cache" -> 70
      [] f.dir = "logs" -> 60
      [] f.dir = "plain" /\ f.type \in {"docx", "doc", "pdf"} -> 20
      [] f.dir = "plain" /\ f.type \in {"md", "txt"} -> 30
      [] OTHER -> 50

NominallyBefore(f, g) ==
    \/ Priority(f) < Priority(g)
    \/ Priority(f) = Priority(g) /\ f.name < g.name

NominalOrder(files) == SetToSortSeq(files, NominallyBefore)

-----------------------------------------------------------------------------
(* Stage A, before any file is opened: the policy verdict of a file, or its  *)
(* parser route.                                                            *)
Routes == {"light", "office", "pdf"}

Verdict(f) ==
    IF f.size > MaxFileSize THEN "file_size_policy"
    ELSE CASE f.type \in {"md", "txt", "log"} -> "light"
           [] f.type = "docx" -> "office"
           [] f.type = "pdf" -> "pdf"
           [] f.type = "doc" -> "legacy_extension_disabled"
           [] OTHER -> "profile_route_invariant"

(* A plan of a file: what it is decided to do, why, and the PDF pages its    *)
(* classification is charged.  "classify" is PdfClassificationPlan.         *)
NotOpened(why, pdf) == [act |-> "not_parsed", why |-> why, classify |-> pdf, pages |-> 0]
Rejected(why) == [act |-> "reject", why |-> why, classify |-> "not_pdf", pages |-> 0]
Planned(route, pdf, pages) == [act |-> "admit", why |-> route, classify |-> pdf, pages |-> pages]

(* One candidate in nominal order takes a slot, and a PDF its pages too.     *)
TakeSlot(left, f, partial) ==
    LET charge == IF partial THEN Least(PdfPages, left.pages) ELSE PdfPages
        none == [left EXCEPT !.plans = Append(@,
                    NotOpened("semantic_file_quota_exhausted", "not_pdf"))]
        over == [left EXCEPT !.plans = Append(@,
                    NotOpened("pdf_classification_page_quota_exhausted", "by_budget"))]
        taken(route, class, n) ==
            [slots |-> left.slots - 1, pages |-> left.pages - n,
             plans |-> Append(left.plans, Planned(route, class, n))]
    IN CASE Verdict(f) \in {"file_size_policy", "legacy_extension_disabled"} ->
              [left EXCEPT !.plans = Append(@, NotOpened(Verdict(f), "not_pdf"))]
         [] Verdict(f) = "profile_route_invariant" ->
              [left EXCEPT !.plans = Append(@, Rejected(Verdict(f)))]
         [] Verdict(f) \in Routes /\ ~f.guard ->
              [left EXCEPT !.plans = Append(@, Rejected("source_guard_unavailable"))]
         [] OTHER -> IF left.slots = 0 THEN none
                     ELSE IF Verdict(f) # "pdf" THEN taken(Verdict(f), "not_pdf", 0)
                     ELSE IF charge = 0 \/ charge > left.pages THEN over
                     ELSE taken("pdf", "classify", charge)

(* ClassificationPlan::build_with_remaining on files in nominal order.       *)
ClassificationPlan(fs, pages, slots, partial) ==
    Pass(LAMBDA left, f : TakeSlot(left, f, partial),
             [slots |-> slots, pages |-> pages, plans |-> <<>>], fs).plans

-----------------------------------------------------------------------------
(* What the context may hold: a fifth of it, at most 12000 characters, is    *)
(* reserved for the summary of the omitted files.                           *)
OmittedReservation(g) == Least(12000, (g * 20) \div 100)

(* The lengths of the title, the run summary (daily, daily_balanced_v1,      *)
(* markdown_context_v2), the notice and the heading.                        *)
FixedSections(n, okDigits, badDigits, g) ==
    <<9, 94 + 5 + 17 + 19 + Digits(n) + okDigits + badDigits + Digits(g) + Digits(PerFile),
      116 + Digits(PerFile), 7>>

(* The budget before any file: fixed sections and known error lines, each    *)
(* with its separator, and the reservation.                                  *)
BaseChars(n, errorLines, g) ==
    LET fixed == FixedSections(n, WidestNumber, WidestNumber, g) \o errorLines
    IN SumOf(fixed) + 2 * Len(fixed) + OmittedReservation(g)

MaxExcerpt(route) ==
    CASE route = "light" -> TextExcerpt [] route = "office" -> OfficeExcerpt
      [] OTHER -> PdfExcerpt

ReservedDeltaOfBody(f, route) == f.abs + 40 + Least(PerFile, MaxExcerpt(route))

(* The widest section of a file, over its success, metadata and error forms, *)
(* with reason, backend, lane and code at 64 characters and numbers at 20.   *)
ReservedDelta(f, route) ==
    LET body == Least(PerFile, MaxExcerpt(route))
        success == f.abs + 5 + 11 + 64 + 11 + 64 + 19 + 64 + 16 + 64
                   + 16 + 21 + 17 + 20 + 20 + 8 + body + 5 + 2
        metadata == f.abs + 5 + 11 + 13 + 11 + 64 + 19 + 64 + 16 + 64
                    + 14 + 32 + 15 + 20 + 16 + 21 + 40 + 2
        error == f.abs + 2 + 10 + 64 + 9 + 64 + 1 + 2
    IN Max({success, metadata, error})

-----------------------------------------------------------------------------
(* Stage B, after the PDFs are classified: in nominal order a file is        *)
(* admitted when base + running + its widest section fits; a PDF with text   *)
(* also takes an extraction slot; a later, smaller file may still fit.       *)
Decision(act, why, chars) == [act |-> act, why |-> why, reserved |-> chars]

Admit(acc, f, plan, cls, base, g) ==
    LET delta == ReservedDelta(f, plan.why)
        fits == base + acc.running + delta <= g
        yes(taken) == [running |-> acc.running + delta, slots |-> acc.slots - taken,
                       out |-> Append(acc.out, Decision("admit", plan.why, delta))]
        no(why) == [acc EXCEPT !.out = Append(@, Decision("not_parsed", why, 0))]
    IN CASE plan.act # "admit" ->
              [acc EXCEPT !.out = Append(@, Decision(plan.act, plan.why, 0))]
         [] plan.act = "admit" /\ (plan.classify = "not_pdf" \/ cls = "no_text") ->
              IF fits THEN yes(0) ELSE no("global_context_budget_exceeded")
         [] plan.act = "admit" /\ plan.classify = "classify" /\ cls = "text" ->
              IF ~fits THEN no("global_context_budget_exceeded")
              ELSE IF acc.slots = 0 THEN no("pdf_text_extraction_quota_exhausted")
              ELSE yes(1)
         [] OTHER -> [acc EXCEPT !.out = Append(@,
                        Decision("classifier_failed",
                                 IF cls = "error" THEN "error" ELSE "unknown", 0))]

(* ContentAdmissionPlan::build_with_remaining: fs, plans and cls are         *)
(* sequences over the same files.                                           *)
ContentAdmission(fs, plans, cls, base, retained, slots, g) ==
    Pass(LAMBDA acc, i : Admit(acc, fs[i], plans[i], cls[i], base, g),
             [running |-> retained, slots |-> slots, out |-> <<>>],
             [i \in 1..Len(fs) |-> i]).out

-----------------------------------------------------------------------------
(* Rendering.  Evidence of a file is [status, why, code, chars, cut]; "why"  *)
(* is its reason, "none" when the status decides it.                         *)
CompressionReason(f) ==
    CASE f.type = "log" -> "large_log_tail"
      [] f.type \in {"docx", "doc", "pdf"} -> "large_document_summary"
      [] OTHER -> "medium_text_compress"

Action(f, e) ==
    CASE e.status \in {"error", "timeout"} ->
           <<"error", IF e.why = "none" THEN "parse_error" ELSE e.why>>
      [] e.status = "not_parsed" -> <<"omit", e.why>>
      [] e.status = "success" /\ e.why = "pdf_no_text_in_parse_window" ->
           <<"metadata_only", e.why>>
      [] e.status = "success" /\ e.why = "none" /\ f.size > LargeFile ->
           <<"metadata_only", "file_size_policy">>
      [] e.status = "success" /\ e.why = "none" /\ f.size <= LargeFile ->
           IF e.chars <= PerFile /\ ~e.cut THEN <<"keep", "small_file_keep">>
           ELSE <<"compress", CompressionReason(f)>>

(* The head cut back to a line end and the tail moved on to one; both only   *)
(* shrink.  Positions count characters; lines holds those of the newlines.   *)
HeadEnd(lines, at) ==
    LET before == {l \in lines : l <= at} IN IF before = {} THEN at ELSE Max(before)
TailStart(lines, at) ==
    LET after == {l \in lines : l > at} IN IF after = {} THEN at ELSE Min(after)

Marker(n) == 14 + Digits(n)

BodyChars(f, chars) ==
    LET room == PerFile - 64
        head == (Max({room, 1}) * 400) \div 1000
        start == HeadEnd(f.lines, head)
        rest == TailStart(f.lines, chars - (Max({room, 1}) - head))
    IN CASE chars <= PerFile -> chars
         [] chars > PerFile /\ PerFile < 64 -> PerFile
         [] chars > PerFile /\ PerFile >= 64 /\ f.type = "log" ->
              Max({room, 1}) + Marker(chars - Max({room, 1}))
         [] OTHER -> start + (chars - rest) + Marker(rest - start)

Backend(f) == CASE f.type = "docx" -> 20 [] f.type = "pdf" -> 14 [] OTHER -> 13
Lane(f) == CASE f.type = "docx" -> 22 [] f.type = "pdf" -> 19 [] OTHER -> 9

(* The section of an included file.                                         *)
SectionChars(f, e) ==
    LET a == Action(f, e)
        cut == e.cut \/ e.chars > PerFile
        verb == IF e.chars > PerFile THEN "compress" ELSE a[1]
    IN IF a[1] = "metadata_only"
       THEN 160 + f.rel + Chars[a[2]]
            + (IF e.why = "pdf_no_text_in_parse_window" THEN 15 ELSE Backend(f))
            + Lane(f) + Chars[f.type] + Digits(f.size) + Digits(f.size)
       ELSE 107 + f.rel + Chars[verb] + Chars[a[2]] + Backend(f) + Lane(f)
            + Digits(e.chars) + Digits(BodyChars(f, e.chars)) + BodyChars(f, e.chars)
            + (IF cut THEN 19 ELSE 0)

(* The line of a failed file.                                               *)
ErrorChars(f, e) == 21 + f.rel + Chars[Action(f, e)[2]] + Chars[e.code]

Joined(lens) == SumOf(lens) + 2 * (Len(lens) - 1) + 1
Footer == 18

(* Files in nominal order get detail rows while the widest row fits.         *)
DetailSlots(fs, g) ==
    Pass(LAMBDA acc, i :
               IF acc.open /\ acc.used + fs[i].rel + 127 <= OmittedReservation(g)
               THEN [acc EXCEPT !.used = @ + fs[i].rel + 127, !.slots = @ \cup {i}]
               ELSE [acc EXCEPT !.open = FALSE],
             [used |-> 90, slots |-> {}, open |-> TRUE],
             [i \in 1..Len(fs) |-> i]).slots

(* The files left out, with a detail row for those that have a slot.         *)
LeftOut(fs, es) == {i \in 1..Len(fs) : es[i].status = "not_parsed"}
DetailsUsed(fs, es, g) ==
    LET detailed == LeftOut(fs, es) \cap DetailSlots(fs, g)
        detail(i) == 42 + fs[i].rel + Chars[es[i].why] + Digits(fs[i].size) + 1
    IN 19 + Digits(Cardinality(LeftOut(fs, es))) + 2
       + SumOf([i \in 1..Len(fs) |-> IF i \in detailed THEN detail(i) ELSE 0])

(* One aggregate row per (reason, extension) in alphabetical order, as long  *)
(* as it fits; the groups that do not are counted in one last row.           *)
Groups == [k \in 1..49 |-> <<OmitReasons[1 + ((k - 1) \div 7)], Extensions[1 + ((k - 1) % 7)]>>]
Members(fs, es, k) == Cardinality({i \in LeftOut(fs, es) : <<es[i].why, fs[i].type>> = k})

TakeRow(acc, k, n, limit) ==
    LET row == 28 + Chars[k[1]] + Chars[k[2]] + Digits(n) + 1
    IN IF n = 0 THEN acc
       ELSE IF acc.used + row <= limit THEN [used |-> acc.used + row, other |-> acc.other]
       ELSE [used |-> acc.used, other |-> acc.other + n]

SummaryRows(fs, es, used, limit) ==
    Pass(LAMBDA acc, k : TakeRow(acc, k, Members(fs, es, k), limit), [used |-> used, other |-> 0], Groups)

OmittedSummary(fs, es, g) ==
    LET limit == OmittedReservation(g)
        used == DetailsUsed(fs, es, g)
        rows == SummaryRows(fs, es, used, limit)
        last == IF rows.other > 0 THEN 27 + Digits(rows.other) + 1 ELSE 0
    IN [none |-> LeftOut(fs, es) = {}, detailFits |-> used <= limit,
        fits |-> rows.used + last <= limit, chars |-> rows.used + last - 2]

(* build_context on files in nominal order.  "why" is the internal error it  *)
(* ends with, "none" without one: an admitted section that does not fit,     *)
(* or an omitted summary that outgrows its reservation.                      *)
Assembled(head, files, omitted, lines, g) ==
    LET body == IF files # <<>> THEN head \o files
                ELSE IF Joined(Append(head, 5)) <= g THEN Append(head, 5) ELSE head
        issues == IF lines = <<>> THEN Footer ELSE 8 + SumOf(lines) + Len(lines) - 1
        all == IF omitted.none THEN body ELSE Append(body, omitted.chars)
        full == Joined(all)
        last == full + 2 + issues <= g
        chars == IF last THEN full + 2 + issues ELSE full
    IN [why |-> IF files # <<>> /\ Joined(Append(head \o files, Footer)) > g
                THEN "section"
                ELSE IF ~omitted.none /\ ~(omitted.detailFits /\ omitted.fits)
                THEN "omitted"
                ELSE IF ~omitted.none /\ full + 2 + Footer > g THEN "summary"
                ELSE IF chars > g THEN "total" ELSE "none",
        chars |-> chars]

RenderedChars(f, e) ==
    CASE e.status = "success" -> SectionChars(f, e)
      [] e.status \in {"error", "timeout"} -> ErrorChars(f, e) + 1
      [] OTHER -> 0

(* The lengths of what is rendered of the files in a status of S.            *)
Sections(fs, es, S) ==
    Pass(LAMBDA acc, i : IF es[i].status \in S THEN Append(acc, RenderedChars(fs[i], es[i]))
                         ELSE acc,
         <<>>, [i \in 1..Len(fs) |-> i])

BuildContext(fs, es, g) ==
    LET n == Len(fs)
        count(s) == Cardinality({i \in 1..n : es[i].status \in s})
        errors == Sections(fs, es, {"error", "timeout"})
        lines == [k \in DOMAIN errors |-> errors[k] - 1]
        head == FixedSections(n, Digits(count({"success"})),
                              Digits(count({"error", "timeout"})), g)
        parts == Assembled(head, Sections(fs, es, {"success"}), OmittedSummary(fs, es, g), lines, g)
    IN [why |-> parts.why, chars |-> parts.chars, included |-> count({"success"}),
        rendered |-> [i \in 1..n |-> RenderedChars(fs[i], es[i])]]
=============================================================================
