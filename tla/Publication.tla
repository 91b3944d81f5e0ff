---------------------------- MODULE Publication ----------------------------
(***************************************************************************)
(* The life of the runs of one target date, from the command that starts   *)
(* one to the Markdown file it publishes: personal::run and finish         *)
(* (run/personal.rs), repair_output and repair_by_id (run.rs), the locks    *)
(* (store/locking.rs, processing_cache.rs) and Publisher::publish           *)
(* (publish.rs), over the transactions of ReportStore.                      *)
(*                                                                         *)
(* A process performs its command in steps; between two of them another     *)
(* process may try to start, somebody may edit the published files, and     *)
(* the process may fail or be killed.  A step is a database transaction or  *)
(* one access to a file, with the local computation that follows it.        *)
(***************************************************************************)
EXTENDS ReportStore

CONSTANTS
    Proc,       \* the processes of ai-daily-report.exe
    Commands,   \* the commands they are started with
    Edits,      \* texts only a person writes
    Linked,     \* bodies that link an evidence attachment
    MaxEdits,   \* bound on external changes of files
    MaxFaults,  \* bound on crashes and I/O errors
    Heavy,      \* how far (up to which run) the byte limit of retention reaches
    MaxDays     \* bound on how often the calendar advances an age class

ASSUME TextsAssumption ==
    /\ Edits \cap (Bodies \cup {NoText}) = {}
    /\ Linked \subseteq Bodies
ASSUME ProcAssumption ==
    /\ "free" \notin Proc
    /\ Commands \subseteq
          {"daily", "regenerate", "no_save", "dry_run", "repair_date", "repair_id"}
ASSUME BoundsAssumption ==
    {MaxEdits, MaxFaults, MaxDays} \subseteq Nat /\ Heavy \subseteq 0 .. MaxRuns

VARIABLES
    rows,        \* report_runs of the date
    current,     \* daily_reports.current_run_id of the date
    created,     \* number of runs created so far
    age,         \* age class of each run: 0, 1 (7 days), 2 (30 days)
    file,        \* the text of <date>.md
    backups,     \* texts kept as conflicts/*.replaced.md
    copies,      \* conflicts/<date>.<run>.md of each run
    attachments, \* the evidence file of each linked body
    reportLock,  \* holder of the report lock
    session,     \* holder of the processing lock
    proc,        \* what each process is doing
    swallowed,   \* auxiliary: runs whose replacement displaced an unread text
    edits, faults, days

db     == <<rows, current, created>>
files  == <<file, backups, copies, attachments>>
locks  == <<reportLock, session>>
bounds == <<edits, faults, days>>
vars   == <<db, age, files, locks, proc, swallowed, bounds>>

Texts == Bodies \cup Edits

Generating == {"daily", "regenerate", "no_save", "dry_run"}
Repairing  == {"repair_date", "repair_id"}

(* Steps during which a process holds the report lock.                      *)
Publishing ==
    {"publish", "attach", "attached", "recheck", "write", "verify", "mark",
     "conflict", "copying", "captured"}
Locked == Publishing \cup
    {"recover", "choose", "created", "scanning", "prepared", "finish",
     "commit", "failing", "compact", "repair"}
Steps  == Locked \cup {"idle", "session", "opened"}

CopyStates       == {"absent", "saved", "differs"}
AttachmentStates == {"absent", "intact", "changed", "removed"}

(* own: the command runs finish(), whose errors are recorded on its run.    *)
(* draft: the body finish() has composed and not yet committed.             *)
(* seen: the digest of the target that publish() read first.                *)
(* code: the error a conflict or a failure reports.                         *)
Process == [step : Steps, cmd : Generating \cup Repairing, run : Runs \cup {NoRun},
            own : BOOLEAN, draft : Bodies \cup {NoText},
            seen : Texts \cup {NoText}, code : Errors]

Idle == [step |-> "idle", cmd |-> "daily", run |-> NoRun, own |-> FALSE,
         draft |-> NoText, seen |-> NoText, code |-> "none"]

TypeOK ==
    /\ rows \in [Runs -> Row]
    /\ current \in Runs \cup {NoRun}
    /\ created \in 0 .. MaxRuns
    /\ age \in [Runs -> 0 .. 2]
    /\ file \in Texts \cup {NoText}
    /\ backups \subseteq Texts
    /\ copies \in [Runs -> CopyStates]
    /\ attachments \in [Linked -> AttachmentStates]
    /\ reportLock \in Proc \cup {"free"}
    /\ session \in Proc \cup {"free"}
    /\ proc \in [Proc -> Process]
    /\ swallowed \subseteq Runs
    /\ edits \in 0 .. MaxEdits
    /\ faults \in 0 .. MaxFaults
    /\ days \in 0 .. MaxDays

---------------------------------------------------------------------------
(* A database as the program may find it: empty, or with one run of an      *)
(* earlier version of the program (no personal_run: key), published or      *)
(* left behind.  The file may already hold somebody's text.                 *)

HistoricRow(body, published) ==
    [NoRow EXCEPT !.phase = IF published THEN "published" ELSE "db_committed",
                  !.status = IF published THEN "succeeded" ELSE "failed",
                  !.error = IF published THEN "none" ELSE "other",
                  !.body = body]

Init ==
    /\ \/ /\ rows = [r \in Runs |-> NoRow]
          /\ current = NoRun
          /\ created = 0
       \/ \E body \in Bodies \ Linked, published \in BOOLEAN :
             /\ MaxRuns >= 1
             /\ rows = [r \in Runs |-> IF r = 1 THEN HistoricRow(body, published) ELSE NoRow]
             /\ current = IF published THEN 1 ELSE NoRun
             /\ created = 1
    /\ age = [r \in Runs |-> 0]
    /\ file \in Edits \cup {NoText} \cup ({BodyOf(rows, current)} \ {NoText})
    /\ backups = {}
    /\ copies = [r \in Runs |-> "absent"]
    /\ attachments = [b \in Linked |-> "absent"]
    /\ reportLock = "free"
    /\ session = "free"
    /\ proc = [p \in Proc |-> Idle]
    /\ swallowed = {}
    /\ edits = 0 /\ faults = 0 /\ days = 0

---------------------------------------------------------------------------
At(p, step) == proc[p].step = step

Goto(p, step) == proc' = [proc EXCEPT ![p].step = step]

(* The command returns: both locks are dropped.                             *)
Return(p) ==
    /\ proc' = [proc EXCEPT ![p] = Idle]
    /\ reportLock' = IF reportLock = p THEN "free" ELSE reportLock
    /\ session' = IF session = p THEN "free" ELSE session

(* publish() or finish() returns an error: personal::run records it when    *)
(* the run is its own, a repair just reports it.                            *)
Error(p, code) ==
    IF proc[p].own
    THEN /\ proc' = [proc EXCEPT ![p].step = "failing", ![p].code = code,
                                 ![p].draft = NoText, ![p].seen = NoText]
         /\ UNCHANGED locks
    ELSE Return(p)

(* A conflict: the candidate is saved first, then the error is returned.    *)
Conflict(p, code) ==
    proc' = [proc EXCEPT ![p].step = "conflict", ![p].code = code]

Compact(stop, heavy) ==
    rows' = CompactPersonal(rows, current, age, stop, heavy)

---------------------------------------------------------------------------
(* Starting a command and taking the locks.                                 *)

(* daily holds the processing lock from here to its end.                    *)
AcquireSession(p, cmd) ==
    /\ At(p, "idle")
    /\ cmd \in Generating
    /\ session = "free"
    /\ session' = p
    /\ proc' = [proc EXCEPT ![p].step = "session", ![p].cmd = cmd]
    /\ UNCHANGED <<db, age, files, reportLock, swallowed, bounds>>

(* open_inner with maintenance: compaction under a report lock that is      *)
(* dropped again before personal::run takes it.                             *)
OpenApp(p) ==
    /\ At(p, "session")
    /\ reportLock = "free"
    /\ \E stop \in 0 .. MaxRuns, heavy \in Heavy : Compact(stop, heavy)
    /\ Goto(p, "opened")
    /\ UNCHANGED <<current, created, age, files, locks, swallowed, bounds>>

(* open_history: no maintenance, no processing lock.                        *)
OpenHistory(p, cmd) ==
    /\ At(p, "idle")
    /\ cmd \in Repairing
    /\ reportLock = "free"
    /\ proc' = [proc EXCEPT ![p].step = "opened", ![p].cmd = cmd]
    /\ UNCHANGED <<db, age, files, locks, swallowed, bounds>>

(* Mutant: the report lock does not exclude anybody.                        *)
AcquireSharedLock(p) ==
    /\ At(p, "opened")
    /\ reportLock' = p
    /\ Goto(p, IF proc[p].cmd \in Generating THEN "recover" ELSE "repair")
    /\ UNCHANGED <<db, age, files, session, swallowed, bounds>>

AcquireReportLock(p) ==
    /\ At(p, "opened")
    /\ reportLock = "free"
    /\ reportLock' = p
    /\ Goto(p, IF proc[p].cmd \in Generating THEN "recover" ELSE "repair")
    /\ UNCHANGED <<db, age, files, session, swallowed, bounds>>

(* REPORT_ALREADY_RUNNING: the wait for the report lock has a limit.        *)
LockTimeout(p) ==
    /\ proc[p].step \in {"session", "opened"}
    /\ reportLock # "free"
    /\ Return(p)
    /\ UNCHANGED <<db, age, files, swallowed, bounds>>

---------------------------------------------------------------------------
(* personal::run under the report lock.                                     *)

Recover(p) ==
    /\ At(p, "recover")
    /\ rows' = RecoverInterrupted(rows)
    /\ Goto(p, "choose")
    /\ UNCHANGED <<current, created, age, files, locks, swallowed, bounds>>

PersonalPending == {r \in Pending(rows) : rows[r].personal}

(* The date is published: repair that publication and report it.            *)
UseExisting(p) ==
    /\ At(p, "choose")
    /\ proc[p].cmd = "daily"
    /\ current # NoRun
    /\ proc' = [proc EXCEPT ![p].step = "publish", ![p].run = current]
    /\ UNCHANGED <<db, age, files, locks, swallowed, bounds>>

PublishPending(p) ==
    /\ At(p, "choose")
    /\ proc[p].cmd = "daily"
    /\ current = NoRun
    /\ \E r \in First(rows, PersonalPending) :
          /\ rows[r].phase = "db_committed"
          /\ proc' = [proc EXCEPT ![p].step = "publish", ![p].run = r]
    /\ UNCHANGED <<db, age, files, locks, swallowed, bounds>>

ResumePending(p) ==
    /\ At(p, "choose")
    /\ proc[p].cmd = "daily"
    /\ current = NoRun
    /\ \E r \in First(rows, PersonalPending) :
          /\ rows[r].phase # "db_committed"
          /\ rows' = Resume(rows, r)
          /\ proc' = [proc EXCEPT ![p].step = "finish", ![p].run = r, ![p].own = TRUE]
    /\ UNCHANGED <<current, created, age, files, locks, swallowed, bounds>>

CreateRun(p) ==
    /\ At(p, "choose")
    /\ proc[p].cmd = "daily" => current = NoRun /\ PersonalPending = {}
    /\ created < MaxRuns
    /\ created' = created + 1
    /\ rows' = [rows EXCEPT ![created + 1] =
                   NewRow(IF proc[p].cmd \in {"daily", "regenerate"} THEN "report" ELSE "preview",
                          proc[p].cmd = "regenerate")]
    /\ proc' = [proc EXCEPT ![p].step = "created", ![p].run = created + 1, ![p].own = TRUE]
    /\ UNCHANGED <<current, age, files, locks, swallowed, bounds>>

(* The bound MaxRuns: a command that would need one more run just returns.  *)
OutOfRuns(p) ==
    /\ At(p, "choose")
    /\ proc[p].cmd = "daily" => current = NoRun /\ PersonalPending = {}
    /\ created = MaxRuns
    /\ Return(p)
    /\ UNCHANGED <<db, age, files, swallowed, bounds>>

StartScan(p) ==
    /\ At(p, "created")
    /\ IF CanScan(rows[proc[p].run])
       THEN /\ rows' = SetScanning(rows, proc[p].run)
            /\ Goto(p, "scanning")
            /\ UNCHANGED locks
       ELSE Error(p, "other") /\ UNCHANGED rows
    /\ UNCHANGED <<current, created, age, files, swallowed, bounds>>

(* The scan, its deadline, or the snapshot of the frozen input fails.       *)
ScanFails(p) ==
    /\ At(p, "scanning")
    /\ Error(p, "other")
    /\ UNCHANGED <<db, age, files, swallowed, bounds>>

FreezeInput(p) ==
    /\ At(p, "scanning")
    /\ IF CanPrepare(rows[proc[p].run])
       THEN /\ rows' = Prepare(rows, proc[p].run)
            /\ Goto(p, IF proc[p].cmd = "dry_run" THEN "prepared" ELSE "finish")
            /\ UNCHANGED locks
       ELSE Error(p, "other") /\ UNCHANGED rows
    /\ UNCHANGED <<current, created, age, files, swallowed, bounds>>

FinishDryRun(p) ==
    /\ At(p, "prepared")
    /\ IF CanFinishScan(rows[proc[p].run])
       THEN rows' = FinishScanPreview(rows, proc[p].run) /\ Return(p)
       ELSE Error(p, "other") /\ UNCHANGED rows
    /\ UNCHANGED <<current, created, age, files, swallowed, bounds>>

---------------------------------------------------------------------------
(* finish(): from the frozen input to a committed body.                     *)

(* The frozen input is gone or was made under another configuration, the    *)
(* deadline has passed, or no body of an acceptable size results.           *)
FinishFails(p) ==
    /\ proc[p].step \in {"finish", "commit"}
    /\ Error(p, "other")
    /\ UNCHANGED <<db, age, files, swallowed, bounds>>

CallModel(p) ==
    /\ At(p, "finish")
    /\ rows[proc[p].run].input
    /\ rows[proc[p].run].phase = "prepared"
    /\ CanReserveCall(rows[proc[p].run])
    /\ rows' = ReserveCall(rows, proc[p].run)
    /\ UNCHANGED <<current, created, age, files, locks, proc, swallowed, bounds>>

(* Mutant: the comparison with the published report is left out.            *)
AcceptAnyBody(r, body) == TRUE

(* A report without items does not replace a published one that has some.   *)
Acceptable(r, body) ==
    \/ body \in Full
    \/ current = r
    \/ BodyOf(rows, current) \notin Full

(* The frozen input, the model's answers and the size limit yield a body,   *)
(* which is compared with the current report before it is committed.        *)
Compose(p, body) ==
    LET r == proc[p].run
    IN  /\ At(p, "finish")
        /\ rows[r].input
        /\ Acceptable(r, body)
        /\ proc' = [proc EXCEPT ![p].step = "commit", ![p].draft = body]
        /\ UNCHANGED <<db, age, files, locks, swallowed, bounds>>

Stage(p) ==
    LET r == proc[p].run
    IN  /\ At(p, "commit")
        /\ rows[r].kind = "report"
        /\ IF CanStage(rows[r])
           THEN /\ rows' = StageReport(rows, r, proc[p].draft, current)
                /\ proc' = [proc EXCEPT ![p].step = "publish", ![p].draft = NoText]
                /\ UNCHANGED locks
           ELSE Error(p, "other") /\ UNCHANGED rows
        /\ UNCHANGED <<current, created, age, files, swallowed, bounds>>

SavePreview(p) ==
    LET r == proc[p].run
    IN  /\ At(p, "commit")
        /\ rows[r].kind = "preview"
        /\ IF CanFinishPreview(rows[r])
           THEN /\ rows' = FinishPreview(rows, r, proc[p].draft)
                /\ proc' = [proc EXCEPT ![p].step = "compact", ![p].draft = NoText]
                /\ UNCHANGED locks
           ELSE Error(p, "other") /\ UNCHANGED rows
        /\ UNCHANGED <<current, created, age, files, swallowed, bounds>>

(* The compaction after a finished run; its error still reaches fail().     *)
CompactAfterFinish(p) ==
    /\ At(p, "compact")
    /\ \/ /\ \E stop \in 0 .. MaxRuns, heavy \in Heavy : Compact(stop, heavy)
          /\ Return(p)
       \/ Error(p, "other") /\ UNCHANGED rows
    /\ UNCHANGED <<current, created, age, files, swallowed, bounds>>

RecordFailure(p) ==
    /\ At(p, "failing")
    /\ rows' = Fail(rows, proc[p].run, proc[p].code)
    /\ Return(p)
    /\ UNCHANGED <<current, created, age, files, swallowed, bounds>>

---------------------------------------------------------------------------
(* repair-output.                                                           *)

RepairCandidates ==
    IF Committed(rows, Pending(rows)) # {}
    THEN First(rows, Committed(rows, Pending(rows)))
    ELSE {current} \ {NoRun}

Repair(p) ==
    /\ At(p, "repair")
    /\ proc[p].cmd = "repair_date"
    /\ IF RepairCandidates = {}
       THEN Return(p)
       ELSE /\ \E r \in RepairCandidates :
                  proc' = [proc EXCEPT ![p].step = "publish", ![p].run = r]
            /\ UNCHANGED locks
    /\ UNCHANGED <<db, age, files, swallowed, bounds>>

RepairById(p, r) ==
    /\ At(p, "repair")
    /\ proc[p].cmd = "repair_id"
    /\ IF rows[r].phase = "absent"
       THEN Return(p)
       ELSE /\ proc' = [proc EXCEPT ![p].step = "publish", ![p].run = r]
            /\ UNCHANGED locks
    /\ UNCHANGED <<db, age, files, swallowed, bounds>>

---------------------------------------------------------------------------
(* Publisher::publish.                                                      *)

Body(p) == rows[proc[p].run].body

Staged(row) == row.phase \in {"db_committed", "published"}

ExpectedCurrent(r) == IF rows[r].phase = "published" THEN r ELSE rows[r].previous

(* Mutant: publish() relies on the check in mark_published alone.           *)
AnyVersion(r) == TRUE

VersionMatches(r) == current = ExpectedCurrent(r)

(* The text publish() may replace.                                          *)
Allowed(r) == IF rows[r].phase = "published" THEN rows[r].body ELSE rows[r].previousBody

(* Mutant: a captured edit is forgotten.                                    *)
NeverAwaitsUser(r) == FALSE

AwaitsUser(r) == rows[r].error = "OUTPUT_CONFLICT_CAPTURED" /\ file = rows[r].body

(* Mutant: the attachment is not published before the summary.              *)
ReadTargetSkipsEvidence(p) ==
    LET r == proc[p].run
    IN  /\ At(p, "publish")
        /\ IF ~Staged(rows[r]) \/ ~VersionMatches(r) \/ AwaitsUser(r)
           THEN Error(p, "other")
           ELSE /\ IF file \in {NoText, rows[r].body, Allowed(r)}
                   THEN proc' = [proc EXCEPT ![p].step = "recheck", ![p].seen = file]
                   ELSE Conflict(p, "other")
                /\ UNCHANGED locks
        /\ UNCHANGED <<db, age, files, swallowed, bounds>>

(* Mutant: a target that already holds the body counts as a conflict.       *)
ReadTargetForgetsWritten(p) ==
    LET r == proc[p].run
    IN  /\ At(p, "publish")
        /\ IF ~Staged(rows[r]) \/ ~VersionMatches(r) \/ AwaitsUser(r)
           THEN Error(p, "other")
           ELSE /\ IF file \in {NoText, Allowed(r)}
                   THEN proc' = [proc EXCEPT ![p].step = "attach", ![p].seen = file]
                   ELSE Conflict(p, "other")
                /\ UNCHANGED locks
        /\ UNCHANGED <<db, age, files, swallowed, bounds>>

ReadTarget(p) ==
    LET r == proc[p].run
    IN  /\ At(p, "publish")
        /\ IF ~Staged(rows[r]) \/ ~VersionMatches(r) \/ AwaitsUser(r)
           THEN Error(p, IF Staged(rows[r]) /\ VersionMatches(r)
                         THEN "OUTPUT_CONFLICT_CAPTURED" ELSE "other")
           ELSE /\ IF file \in {NoText, rows[r].body, Allowed(r)}
                   THEN proc' = [proc EXCEPT ![p].step = "attach", ![p].seen = file]
                   ELSE Conflict(p, "other")
                /\ UNCHANGED locks
        /\ UNCHANGED <<db, age, files, swallowed, bounds>>

AfterAttachment(p) ==
    Goto(p, IF proc[p].seen = Body(p) THEN "mark" ELSE "recheck")

PublishAttachment(p) ==
    LET b == Body(p)
    IN  /\ At(p, "attach")
        /\ IF b \notin Linked \/ (b \in Linked /\ attachments[b] = "intact")
           THEN AfterAttachment(p) /\ UNCHANGED <<attachments, locks>>
           ELSE IF attachments[b] = "changed"
                THEN Error(p, "other") /\ UNCHANGED attachments
                ELSE /\ attachments' = [attachments EXCEPT ![b] = "intact"]
                     /\ Goto(p, "attached")
                     /\ UNCHANGED locks
        /\ UNCHANGED <<db, age, file, backups, copies, swallowed, bounds>>

VerifyAttachment(p) ==
    /\ At(p, "attached")
    /\ IF attachments[Body(p)] = "intact"
       THEN AfterAttachment(p) /\ UNCHANGED locks
       ELSE Error(p, "other")
    /\ UNCHANGED <<db, age, files, swallowed, bounds>>

Recheck(p) ==
    /\ At(p, "recheck")
    /\ IF file = proc[p].seen THEN Goto(p, "write") ELSE Conflict(p, "other")
    /\ UNCHANGED <<db, age, files, locks, swallowed, bounds>>

(* Mutant: a rename, which replaces what has appeared meanwhile.            *)
RenameToTarget(p) ==
    /\ At(p, "write")
    /\ proc[p].seen = NoText
    /\ file' = Body(p) /\ Goto(p, "verify")
    /\ UNCHANGED <<db, age, backups, copies, attachments, locks, swallowed, bounds>>

(* A hard link never overwrites a file that appeared in the meantime.       *)
LinkTarget(p) ==
    /\ At(p, "write")
    /\ proc[p].seen = NoText
    /\ IF file = NoText
       THEN file' = Body(p) /\ Goto(p, "verify")
       ELSE Conflict(p, "other") /\ UNCHANGED file
    /\ UNCHANGED <<db, age, backups, copies, attachments, locks, swallowed, bounds>>

(* ReplaceFileW moves whatever the target holds to the backup; a backup     *)
(* that is not what was read is a captured edit.                            *)
ReplaceTarget(p) ==
    /\ At(p, "write")
    /\ proc[p].seen # NoText
    /\ IF file = NoText
       THEN Error(p, "other") /\ UNCHANGED <<file, backups, swallowed>>
       ELSE /\ file' = Body(p)
            /\ backups' = backups \cup {file}
            /\ IF file = proc[p].seen
               THEN Goto(p, "verify") /\ UNCHANGED swallowed
               ELSE /\ Conflict(p, "OUTPUT_CONFLICT_CAPTURED")
                    /\ swallowed' = swallowed \cup {proc[p].run}
            /\ UNCHANGED locks
    /\ UNCHANGED <<db, age, copies, attachments, bounds>>

VerifyTarget(p) ==
    /\ At(p, "verify")
    /\ IF file = Body(p) THEN Goto(p, "mark") ELSE Conflict(p, "other")
    /\ UNCHANGED <<db, age, files, locks, swallowed, bounds>>

AfterPublish(p) ==
    IF proc[p].own THEN Goto(p, "compact") /\ UNCHANGED locks ELSE Return(p)

(* Mutant: the run is settled, the pointer of the date is not moved.        *)
MarkWithoutPointer(p) ==
    LET r == proc[p].run
    IN  /\ At(p, "mark")
        /\ rows' = MarkPublished(rows, r)
        /\ AfterPublish(p)
        /\ UNCHANGED <<current, created, age, files, swallowed, bounds>>

Mark(p) ==
    LET r == proc[p].run
    IN  /\ At(p, "mark")
        /\ IF rows[r].phase = "published"
           THEN AfterPublish(p) /\ UNCHANGED <<rows, current>>
           ELSE IF CanMark(rows, r, Body(p), current)
                THEN /\ rows' = MarkPublished(rows, r)
                     /\ current' = r
                     /\ AfterPublish(p)
                ELSE Error(p, "other") /\ UNCHANGED <<rows, current>>
        /\ UNCHANGED <<created, age, files, swallowed, bounds>>

---------------------------------------------------------------------------
(* conflict(): the candidate is saved beside the file it may not replace.   *)

AfterConflict(p) ==
    IF proc[p].code = "OUTPUT_CONFLICT_CAPTURED"
    THEN Goto(p, "captured") /\ UNCHANGED locks
    ELSE Error(p, "other")

CreateCopy(p) ==
    LET r == proc[p].run
    IN  /\ At(p, "conflict")
        /\ CASE copies[r] = "absent" ->
                   /\ copies' = [copies EXCEPT ![r] = "differs"]
                   /\ Goto(p, "copying")
                   /\ UNCHANGED locks
             [] copies[r] = "saved" ->
                   AfterConflict(p) /\ UNCHANGED copies
             [] copies[r] = "differs" ->
                   Error(p, "other") /\ UNCHANGED copies
        /\ UNCHANGED <<db, age, file, backups, attachments, swallowed, bounds>>

WriteCopy(p) ==
    /\ At(p, "copying")
    /\ copies' = [copies EXCEPT ![proc[p].run] = "saved"]
    /\ AfterConflict(p)
    /\ UNCHANGED <<db, age, file, backups, attachments, swallowed, bounds>>

RecordCaptured(p) ==
    /\ At(p, "captured")
    /\ rows' = Fail(rows, proc[p].run, "OUTPUT_CONFLICT_CAPTURED")
    /\ Error(p, "OUTPUT_CONFLICT_CAPTURED")
    /\ UNCHANGED <<current, created, age, files, swallowed, bounds>>

---------------------------------------------------------------------------
(* Faults and the world outside.                                            *)

(* An I/O or database error at a step of publish().                         *)
PublishIoError(p) ==
    /\ proc[p].step \in Publishing
    /\ faults < MaxFaults
    /\ faults' = faults + 1
    /\ Error(p, "other")
    /\ UNCHANGED <<db, age, files, swallowed, edits, days>>

(* The process dies; the operating system drops its locks.                  *)
Crash(p) ==
    /\ ~At(p, "idle")
    /\ faults < MaxFaults
    /\ faults' = faults + 1
    /\ Return(p)
    /\ UNCHANGED <<db, age, files, swallowed, edits, days>>

(* Somebody writes, deletes or restores the published file.                 *)
EditFile(text) ==
    /\ edits < MaxEdits
    /\ text # file
    /\ edits' = edits + 1
    /\ file' = text
    /\ swallowed' = {}
    /\ UNCHANGED <<db, age, backups, copies, attachments, locks, proc, faults, days>>

EditCopy(r, state) ==
    /\ edits < MaxEdits
    /\ copies[r] = "saved"
    /\ edits' = edits + 1
    /\ copies' = [copies EXCEPT ![r] = state]
    /\ UNCHANGED <<db, age, file, backups, attachments, locks, proc, swallowed, faults, days>>

EditAttachment(b, state) ==
    /\ edits < MaxEdits
    /\ attachments[b] = "intact"
    /\ edits' = edits + 1
    /\ attachments' = [attachments EXCEPT ![b] = state]
    /\ UNCHANGED <<db, age, file, backups, copies, locks, proc, swallowed, faults, days>>

(* Every run moves to its next age class.  A command lasts at most 300 s,   *)
(* so no command is under way.                                              *)
DaysPass ==
    /\ days < MaxDays
    /\ \A p \in Proc : At(p, "idle")
    /\ days' = days + 1
    /\ age' = [r \in Runs |-> IF r <= created /\ age[r] < 2 THEN age[r] + 1 ELSE age[r]]
    /\ UNCHANGED <<db, files, locks, proc, swallowed, edits, faults>>

---------------------------------------------------------------------------
Start(p) ==
    \/ \E cmd \in Commands \cap Generating : AcquireSession(p, cmd)
    \/ \E cmd \in Commands \cap Repairing : OpenHistory(p, cmd)

Step(p) ==
    \/ OpenApp(p) \/ AcquireReportLock(p) \/ LockTimeout(p)
    \/ Recover(p) \/ UseExisting(p) \/ PublishPending(p) \/ ResumePending(p)
    \/ CreateRun(p) \/ OutOfRuns(p) \/ StartScan(p) \/ ScanFails(p) \/ FreezeInput(p) \/ FinishDryRun(p)
    \/ FinishFails(p) \/ CallModel(p)
    \/ \E body \in Bodies : Compose(p, body)
    \/ Stage(p) \/ SavePreview(p)
    \/ CompactAfterFinish(p) \/ RecordFailure(p)
    \/ Repair(p)
    \/ \E r \in Runs : RepairById(p, r)
    \/ ReadTarget(p) \/ PublishAttachment(p) \/ VerifyAttachment(p) \/ Recheck(p)
    \/ LinkTarget(p) \/ ReplaceTarget(p) \/ VerifyTarget(p) \/ Mark(p)
    \/ CreateCopy(p) \/ WriteCopy(p) \/ RecordCaptured(p)

Fault(p) == PublishIoError(p) \/ Crash(p)

World ==
    \/ \E text \in Edits \cup backups \cup {NoText} : EditFile(text)
    \/ \E r \in Runs, state \in {"absent", "differs"} : EditCopy(r, state)
    \/ \E b \in Linked, state \in {"changed", "removed"} : EditAttachment(b, state)
    \/ DaysPass

Next == (\E p \in Proc : Start(p) \/ Step(p) \/ Fault(p)) \/ World

Spec == Init /\ [][Next]_vars

---------------------------------------------------------------------------
(* Safety.                                                                  *)

Published == {r \in Runs : rows[r].phase = "published"}

(* The published versions of a date form one line: no two of them replaced  *)
(* the same predecessor, although any number of runs may have been staged   *)
(* against it, abandoned by a crash and repaired later (mark_published).    *)
LinearHistory ==
    \A r, s \in Published : r # s => rows[r].previous # rows[s].previous

(* A run that lost its process before its input was frozen, and any preview *)
(* that did, is settled as soon as the next generating command has passed   *)
(* recover_interrupted: no row keeps claiming to be running (recover_       *)
(* interrupted in store/mod.rs).                                            *)
InterruptedRunsSettled ==
    \A p \in Proc :
        proc[p].cmd \in Generating /\ proc[p].step \in Locked \ {"recover"} =>
            \A r \in Runs \ {proc[p].run} :
                rows[r].personal /\ rows[r].status = "running" =>
                    rows[r].kind = "report" /\ rows[r].phase \in Resumable

(* The type invariant, and what recovery owes the rows: the columns hold     *)
(* what their readers know (a preview never has a phase of a report), and no *)
(* row is left running by a process that is gone (store/mod.rs).             *)
RowsAreSound == TypeOK /\ InterruptedRunsSettled

(* "A visible summary must have usable evidence": whatever step a crash     *)
(* interrupts, the target never holds a body whose attachment has not been  *)
(* written (publish_attachment comes before the replacement).               *)
EvidenceBeforeSummary ==
    file \in Linked => attachments[file] # "absent"

(* A committed or published report without items never stands on a          *)
(* published one that has some (PERSONAL_RECOVERY_INCOMPLETE in finish).    *)
ItemsNeverLost ==
    \A r \in Runs : Staged(rows[r]) /\ rows[r].previousBody \in Full => rows[r].body \in Full

(* A process that has passed the version check writes and marks only what   *)
(* the check approved: the pointer did not move underneath it, and nobody   *)
(* superseded its run.  So a superseded or overtaken run never reaches the  *)
(* file.                                                                    *)
NeverStale ==
    \A p \in Proc : proc[p].step \in Publishing \ {"publish"} =>
        /\ current = ExpectedCurrent(proc[p].run)
        /\ rows[proc[p].run].error # "RUN_SUPERSEDED"

(* What a step may never do. *)

(* A row that has succeeded is final: not even the failure of the           *)
(* compaction that follows its publication changes it.  Retention may only  *)
(* drop its input or the whole row.                                         *)
SucceededIsFinal ==
    [][\A r \in Runs : rows[r].status = "succeeded" =>
          \/ rows'[r] = rows[r]
          \/ rows'[r] = [rows[r] EXCEPT !.input = FALSE]
          \/ rows'[r] = NoRow /\ r # current]_vars

(* No step of the program destroys a text that is only in the target: what  *)
(* it replaces is kept as a backup, and what appeared is not replaced.      *)
EditsSurvive ==
    [][edits' = edits /\ file \in Edits /\ file' # file => file \in backups']_vars

(* OUTPUT_CONFLICT_CAPTURED stays in force until somebody has handled the   *)
(* file: the run is not published while the target still holds the body     *)
(* that displaced the captured edit.                                        *)
CapturedAwaitsUser ==
    [][\A r \in swallowed : rows[r].error = "OUTPUT_CONFLICT_CAPTURED" =>
          rows'[r].phase # "published"]_vars

---------------------------------------------------------------------------
(* What a reader of the date is promised.                                   *)

Retired ==
    {r \in 1 .. created : \/ rows[r].phase = "absent"
                         \/ (rows[r].phase = "published" /\ r # current)
                         \/ rows[r].error = "RUN_SUPERSEDED"}

Report == INSTANCE PublishedReport WITH
    Versions <- Runs, NoVersion <- NoRun,
    text <- BodyOf(rows, current), retired <- Retired

(* The program implements PublishedReport: no crash, repair, resumed run or *)
(* retention step moves the pointer back, revives a superseded run or       *)
(* changes the published body.                                              *)
ImplementsPublishedReport == Report!Spec

---------------------------------------------------------------------------
(* Liveness.  A process that runs keeps taking steps, and the command of    *)
(* the date is tried again and again: the operations guide tells its reader *)
(* to run the date again after an interruption.                             *)

FairSpec ==
    /\ Spec
    /\ \A p \in Proc :
          /\ WF_vars(Step(p))
          /\ SF_vars(AcquireSession(p, "daily"))

(* Somebody's file is in the way of run r.                                  *)
Obstructed(r) ==
    \/ file \in Edits
    \/ rows[r].error = "OUTPUT_CONFLICT_CAPTURED"
    \/ rows[r].body \in Linked /\ attachments[rows[r].body] = "changed"

(* A committed body reaches the file and the pointer, whatever step crashes *)
(* interrupted: trying again gets it published, unless another version was  *)
(* published first or somebody's file is in the way.                        *)
CommittedGetsPublished ==
    \A r \in Runs :
        (rows[r].personal /\ rows[r].phase = "db_committed") ~>
            (rows[r].phase = "published" \/ current # rows[r].previous \/ Obstructed(r))

---------------------------------------------------------------------------
(* What messages and documents say, and the program does not always do.     *)

(* "The existing report was modified externally" (publish.rs): a conflict   *)
(* is only reported when somebody changed the file.                         *)
ConflictMeansExternalEdit ==
    edits = 0 /\ file \notin Edits => \A p \in Proc : ~At(p, "conflict")

(* README: repair-output restores the saved body, and stops when it finds a *)
(* manual edit.  The run it selects must then be one publish() accepts.     *)
RepairSelectsAVersion ==
    \A r \in RepairCandidates : VersionMatches(r)

(* "The external change made during the replacement is saved, the conflict  *)
(* must be handled first" (publish.rs): a run whose replacement displaced   *)
(* an edit is not published before somebody has touched the file.           *)
CapturedEditIsReported ==
    [][\A r \in swallowed : rows'[r].phase = "published" => rows[r].phase = "published"]_vars

=============================================================================
