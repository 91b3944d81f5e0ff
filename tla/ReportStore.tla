---------------------------- MODULE ReportStore ----------------------------
(***************************************************************************)
(* The report database of report_app (src/rust/report_app/src/store), for  *)
(* one scope and one target date: the rows of report_runs, and the         *)
(* transactions on them, each as an operator from the rows before to the   *)
(* rows after.  SQLite executes a transaction atomically, so every          *)
(* operator here is one step of the modules that use it.                    *)
(*                                                                         *)
(* Runs are numbered in the order of their created_at.  A SHA-256 digest    *)
(* is represented by the text it is the digest of (no collisions).          *)
(***************************************************************************)
EXTENDS Integers, FiniteSets

CONSTANTS
    MaxRuns,    \* how many runs the date may ever see
    Bodies,     \* the report texts a run can produce
    Full,       \* those whose report has at least one item
    NoText      \* no text: a NULL digest, or a file that is not there

ASSUME MaxRunsAssumption == MaxRuns \in Nat
ASSUME BodiesAssumption == Full \subseteq Bodies /\ NoText \notin Bodies

Runs  == 1 .. MaxRuns
NoRun == 0

Kinds    == {"report", "preview"}
Phases   == {"absent", "created", "scanning", "prepared", "generating",
             "db_committed", "published", "preview"}
Statuses == {"running", "succeeded", "failed", "cancelled"}

(* Error codes: the two the code branches on, every other one is "other".   *)
Errors == {"none", "OUTPUT_CONFLICT_CAPTURED", "RUN_SUPERSEDED", "other"}

Row == [kind     : Kinds,
        personal : BOOLEAN,            \* has a personal_run: metadata key
        regen    : BOOLEAN,            \* regeneration_reason IS NOT NULL
        phase    : Phases,
        status   : Statuses,
        error    : Errors,
        input    : BOOLEAN,            \* snapshot_path IS NOT NULL
        body     : Bodies \cup {NoText},   \* markdown, expected_sha256
        previous : Runs \cup {NoRun},
        previousBody : Bodies \cup {NoText}]

(* The value of rows[r] when report_runs has no row r.                      *)
NoRow == [kind |-> "report", personal |-> FALSE, regen |-> FALSE,
          phase |-> "absent", status |-> "cancelled", error |-> "none",
          input |-> FALSE, body |-> NoText, previous |-> NoRun,
          previousBody |-> NoText]

NewRow(kind, regen) ==
    [NoRow EXCEPT !.kind = kind, !.personal = TRUE, !.regen = regen,
                  !.phase = "created", !.status = "running"]

Resumable == {"prepared", "generating", "db_committed"}

---------------------------------------------------------------------------
(* Transactions of the run lifecycle.                                       *)

CanScan(row) == row.phase = "created" /\ row.status = "running"

SetScanning(rows, r) == [rows EXCEPT ![r].phase = "scanning"]

CanPrepare(row) == row.phase \in {"created", "scanning"} /\ row.status = "running"

Prepare(rows, r) == [rows EXCEPT ![r] = [@ EXCEPT !.phase = "prepared", !.input = TRUE]]

CanReserveCall(row) == row.status = "running" /\ row.phase \in {"prepared", "generating"}

(* The part of reserve_call that touches report_runs.                       *)
ReserveCall(rows, r) == [rows EXCEPT ![r].phase = "generating"]

CanResume(row) ==
    /\ row.phase \in Resumable
    /\ row.status # "succeeded"
    /\ row.error # "RUN_SUPERSEDED"

Resume(rows, r) ==
    [rows EXCEPT ![r] =
        [@ EXCEPT !.status = "running",
                  !.error = IF rows[r].error = "OUTPUT_CONFLICT_CAPTURED"
                           THEN "OUTPUT_CONFLICT_CAPTURED" ELSE "none"]]

(* Mutant: fail() without its condition on the status.                      *)
FailEvenSucceeded(rows, r, code) ==
    [rows EXCEPT ![r].status = "failed", ![r].error = code]

(* fail() leaves a row that has succeeded as it is.                         *)
Fail(rows, r, code) ==
    IF rows[r].status = "succeeded" \/ rows[r].phase = "absent"
    THEN rows
    ELSE [rows EXCEPT ![r] = [@ EXCEPT !.status = "failed", !.error = code]]

(* What the next holder of the report lock does about a run that lost its   *)
(* process before its input was frozen, or that is not a report.            *)
Interrupted(row) ==
    /\ row.personal
    /\ row.phase # "absent"
    /\ row.status = "running"
    /\ row.phase \in {"created", "scanning"} \/ row.kind # "report"

(* Mutant: recovery looks at the phase only and forgets previews.           *)
RecoverEarlyPhases(rows) ==
    [r \in Runs |-> IF Interrupted(rows[r]) /\ rows[r].phase \in {"created", "scanning"}
                    THEN [rows[r] EXCEPT !.status = "failed", !.error = "other"]
                    ELSE rows[r]]

RecoverInterrupted(rows) ==
    [r \in Runs |-> IF Interrupted(rows[r])
                    THEN [rows[r] EXCEPT !.status = "failed", !.error = "other"]
                    ELSE rows[r]]

---------------------------------------------------------------------------
(* Committing a body and publishing it.                                     *)

CanStage(row) ==
    /\ row.kind = "report"
    /\ row.phase \in {"prepared", "generating"}
    /\ row.status = "running"

BodyOf(rows, r) == IF r = NoRun THEN NoText ELSE rows[r].body

StageReport(rows, r, body, current) ==
    [rows EXCEPT ![r] =
        [@ EXCEPT !.phase = "db_committed",
                  !.body = body,
                  !.previous = current,
                  !.previousBody = BodyOf(rows, current)]]

CanMark(rows, r, verified, current) ==
    /\ rows[r].phase = "db_committed"
    /\ rows[r].body = verified
    /\ rows[r].previous = current

(* The older runs of the date a published regeneration makes obsolete.      *)
SupersededBy(rows, r) ==
    {s \in Runs : /\ rows[r].regen
                  /\ s < r
                  /\ rows[s].kind = "report"
                  /\ rows[s].phase \in Resumable
                  /\ rows[s].status # "succeeded"}

(* daily_reports.current_run_id moves to r in the same transaction.         *)
MarkPublished(rows, r) ==
    [s \in Runs |->
        IF s = r
        THEN [rows[s] EXCEPT !.phase = "published", !.status = "succeeded", !.error = "none"]
        ELSE IF s \in SupersededBy(rows, r)
             THEN [rows[s] EXCEPT !.status = "cancelled", !.error = "RUN_SUPERSEDED"]
             ELSE rows[s]]

CanFinishPreview(row) == row.kind = "preview" /\ row.status = "running"

FinishPreview(rows, r, body) ==
    [rows EXCEPT ![r] = [@ EXCEPT !.phase = "preview", !.status = "succeeded", !.body = body]]

(* Mutant: the phase written to the status column.                          *)
FinishScanPreviewPhase(rows, r) == [rows EXCEPT ![r].status = "preview"]

CanFinishScan(row) ==
    row.kind = "preview" /\ row.phase = "prepared" /\ row.status = "running"

FinishScanPreview(rows, r) == [rows EXCEPT ![r].status = "succeeded"]

---------------------------------------------------------------------------
(* What a recovery looks for.                                               *)

Pending(rows) ==
    {r \in Runs : rows[r].kind = "report" /\ CanResume(rows[r])}

Committed(rows, S) == {r \in S : rows[r].phase = "db_committed"}

(* The order of pending(): committed bodies first, then by age.            *)
Rank(row) == IF row.phase = "db_committed" THEN 0 ELSE 1

Precedes(rows, r, s) ==
    \/ Rank(rows[r]) < Rank(rows[s])
    \/ Rank(rows[r]) = Rank(rows[s]) /\ r <= s

(* The first of S in that order, as a set with at most one element.         *)
First(rows, S) == {r \in S : \A s \in S : Precedes(rows, r, s)}

---------------------------------------------------------------------------
(* compact_personal_until: rows are walked from the oldest.  It stops at    *)
(* its deadline (after row "stop"), and while the detail exceeds its byte   *)
(* limit (up to row "heavy") it also removes rows younger than 30 days.     *)

CompactInput(row) ==
    [row EXCEPT !.input = FALSE,
                !.status = IF /\ row.status = "running"
                              /\ row.phase \notin {"published", "preview", "db_committed"}
                           THEN "failed" ELSE @,
                !.error = IF /\ row.status = "running"
                             /\ row.phase \notin {"published", "preview", "db_committed"}
                          THEN "other" ELSE @]

CompactRow(row, isCurrent, weekOld, removable) ==
    LET kept == IF weekOld THEN CompactInput(row) ELSE row
    IN  IF ~removable \/ kept.status = "running" \/ kept.phase = "db_committed"
        THEN kept
        ELSE IF isCurrent THEN [kept EXCEPT !.input = FALSE] ELSE NoRow

(* age[r] is 0 below 7 days, 1 from 7 to 30 days, 2 beyond.                 *)
CompactPersonal(rows, current, age, stop, heavy) ==
    [r \in Runs |->
        IF rows[r].phase # "absent" /\ rows[r].personal /\ r <= stop
        THEN CompactRow(rows[r], r = current, age[r] >= 1, age[r] >= 2 \/ r <= heavy)
        ELSE rows[r]]

=============================================================================
