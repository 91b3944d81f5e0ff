------------------------- MODULE PublicationProofs -------------------------
(***************************************************************************)
(* Theorems about Publication, for any number of processes and runs, any   *)
(* bodies and edits, any number of crashes, and every command: its types,  *)
(* the history of its versions, that it implements PublishedReport, and    *)
(* what its publication promises besides: nothing stale is written, no     *)
(* items are lost, the evidence comes before the summary, interrupted runs *)
(* are settled, somebody's text survives and a captured edit waits for its *)
(* author.                                                                 *)
(***************************************************************************)
EXTENDS Publication, TLAPS

---------------------------------------------------------------------------
(* What the transactions of ReportStore preserve, for every table t.        *)

LEMMA NoRowType == NoRow \in Row
BY DEF NoRow, Row, Kinds, Phases, Statuses, Errors, NoRun

LEMMA NewRowType ==
    ASSUME NEW kind \in Kinds, NEW regen \in BOOLEAN
    PROVE  NewRow(kind, regen) \in Row
BY DEF NewRow, NoRow, Row, Kinds, Phases, Statuses, Errors, NoRun

(* A table stays a table when one row of it is rewritten.                   *)
LEMMA RewriteType ==
    ASSUME NEW t \in [Runs -> Row], NEW r, NEW row \in Row
    PROVE  [t EXCEPT ![r] = row] \in [Runs -> Row]
OBVIOUS

LEMMA LifecycleType ==
    ASSUME NEW t \in [Runs -> Row], NEW r \in Runs
    PROVE  /\ SetScanning(t, r) \in [Runs -> Row]
           /\ Prepare(t, r) \in [Runs -> Row]
           /\ ReserveCall(t, r) \in [Runs -> Row]
           /\ Resume(t, r) \in [Runs -> Row]
           /\ FinishScanPreview(t, r) \in [Runs -> Row]
<1>1. SetScanning(t, r) \in [Runs -> Row]
  BY DEF SetScanning, Row, Phases
<1>2. Prepare(t, r) \in [Runs -> Row]
  <2>1. [t[r] EXCEPT !.phase = "prepared", !.input = TRUE] \in Row
    BY DEF Row, Phases
  <2>. QED
    BY <2>1, RewriteType DEF Prepare
<1>3. ReserveCall(t, r) \in [Runs -> Row]
  BY DEF ReserveCall, Row, Phases
<1>4. Resume(t, r) \in [Runs -> Row]
  <2>1. [t[r] EXCEPT !.status = "running",
                     !.error = IF t[r].error = "OUTPUT_CONFLICT_CAPTURED"
                              THEN "OUTPUT_CONFLICT_CAPTURED" ELSE "none"] \in Row
    BY DEF Row, Statuses, Errors
  <2>. QED
    BY <2>1, RewriteType DEF Resume
<1>5. FinishScanPreview(t, r) \in [Runs -> Row]
  BY DEF FinishScanPreview, Row, Statuses
<1>. QED
  BY <1>1, <1>2, <1>3, <1>4, <1>5

LEMMA FailType ==
    ASSUME NEW t \in [Runs -> Row], NEW r \in Runs, NEW code \in Errors
    PROVE  Fail(t, r, code) \in [Runs -> Row]
<1>1. [t[r] EXCEPT !.status = "failed", !.error = code] \in Row
  BY DEF Row, Statuses
<1>. QED
  BY <1>1, RewriteType DEF Fail

LEMMA BodyType ==
    ASSUME NEW t \in [Runs -> Row], NEW r \in Runs \cup {NoRun}
    PROVE  BodyOf(t, r) \in Bodies \cup {NoText}
BY DEF BodyOf, Row

LEMMA StageType ==
    ASSUME NEW t \in [Runs -> Row], NEW r \in Runs,
           NEW body \in Bodies \cup {NoText}, NEW c \in Runs \cup {NoRun}
    PROVE  /\ StageReport(t, r, body, c) \in [Runs -> Row]
           /\ FinishPreview(t, r, body) \in [Runs -> Row]
<1>1. StageReport(t, r, body, c) \in [Runs -> Row]
  <2>1. BodyOf(t, c) \in Bodies \cup {NoText}
    BY BodyType
  <2>2. [t[r] EXCEPT !.phase = "db_committed", !.body = body,
                     !.previous = c, !.previousBody = BodyOf(t, c)] \in Row
    BY <2>1 DEF Row, Phases
  <2>. QED
    BY <2>2, RewriteType DEF StageReport
<1>2. FinishPreview(t, r, body) \in [Runs -> Row]
  <2>1. [t[r] EXCEPT !.phase = "preview", !.status = "succeeded", !.body = body] \in Row
    BY DEF Row, Phases, Statuses
  <2>. QED
    BY <2>1, RewriteType DEF FinishPreview
<1>. QED
  BY <1>1, <1>2

LEMMA RecoverType ==
    ASSUME NEW t \in [Runs -> Row]
    PROVE  RecoverInterrupted(t) \in [Runs -> Row]
BY DEF RecoverInterrupted, Row, Statuses, Errors

LEMMA MarkType ==
    ASSUME NEW t \in [Runs -> Row], NEW r \in Runs
    PROVE  MarkPublished(t, r) \in [Runs -> Row]
<1>. SUFFICES ASSUME NEW s \in Runs
              PROVE  MarkPublished(t, r)[s] \in Row
  BY DEF MarkPublished
<1>1. ASSUME NEW row \in Row
      PROVE  [row EXCEPT !.phase = "published", !.status = "succeeded", !.error = "none"] \in Row
  BY DEF Row, Phases, Statuses, Errors
<1>2. [t[s] EXCEPT !.status = "cancelled", !.error = "RUN_SUPERSEDED"] \in Row
  BY DEF Row, Statuses, Errors
<1>. QED
  BY <1>1, <1>2 DEF MarkPublished

LEMMA CompactInputType ==
    ASSUME NEW row \in Row
    PROVE  CompactInput(row) \in Row
BY DEF CompactInput, Row, Statuses, Errors

LEMMA CompactRowType ==
    ASSUME NEW row \in Row, NEW c \in BOOLEAN, NEW w \in BOOLEAN, NEW x \in BOOLEAN
    PROVE  CompactRow(row, c, w, x) \in Row
<1>. DEFINE kept == IF w THEN CompactInput(row) ELSE row
<1>1. kept \in Row
  BY CompactInputType
<1>. HIDE DEF kept
<1>2. [kept EXCEPT !.input = FALSE] \in Row
  BY <1>1 DEF Row
<1>. QED
  BY <1>1, <1>2, NoRowType DEF CompactRow, kept

LEMMA CompactType ==
    ASSUME NEW t \in [Runs -> Row], NEW c \in Runs \cup {NoRun},
           NEW ages \in [Runs -> 0 .. 2], NEW stop \in Int, NEW heavy \in Int
    PROVE  CompactPersonal(t, c, ages, stop, heavy) \in [Runs -> Row]
<1>. SUFFICES ASSUME NEW r \in Runs
              PROVE  CompactPersonal(t, c, ages, stop, heavy)[r] \in Row
  BY DEF CompactPersonal
<1>1. /\ (r = c) \in BOOLEAN
      /\ (ages[r] >= 1) \in BOOLEAN
      /\ (ages[r] >= 2 \/ r <= heavy) \in BOOLEAN
  OBVIOUS
<1>2. CompactRow(t[r], r = c, ages[r] >= 1, ages[r] >= 2 \/ r <= heavy) \in Row
  BY <1>1, CompactRowType
<1>. QED
  BY <1>2 DEF CompactPersonal

---------------------------------------------------------------------------
(* Type correctness.                                                        *)

(* At these steps a process works on a run.                                 *)
WithRun == Locked \ {"recover", "choose", "repair"}

WellTyped == {x \in Process : x.step \in WithRun => x.run \in Runs}

TypeInv == TypeOK /\ proc \in [Proc -> WellTyped]

LEMMA GotoType ==
    ASSUME NEW p \in Proc, NEW s \in Steps, TypeInv, Goto(p, s),
           s \in WithRun => proc[p].run \in Runs
    PROVE  proc' \in [Proc -> WellTyped]
<1>1. [proc[p] EXCEPT !.step = s] \in WellTyped
  BY DEF TypeInv, WellTyped, Process
<1>. QED
  BY <1>1 DEF TypeInv, Goto

LEMMA IdleType == Idle \in WellTyped
BY DEF Idle, WellTyped, Process, WithRun, Steps, Locked, Publishing, Generating, Repairing,
       Errors, NoRun, Texts

LEMMA ReturnType ==
    ASSUME NEW p \in Proc, TypeInv, Return(p)
    PROVE  /\ proc' \in [Proc -> WellTyped]
           /\ reportLock' \in Proc \cup {"free"}
           /\ session' \in Proc \cup {"free"}
BY IdleType DEF TypeInv, TypeOK, Return

LEMMA ErrorType ==
    ASSUME NEW p \in Proc, NEW code \in Errors, TypeInv, Error(p, code),
           proc[p].run \in Runs
    PROVE  /\ proc' \in [Proc -> WellTyped]
           /\ reportLock' \in Proc \cup {"free"}
           /\ session' \in Proc \cup {"free"}
<1>1. CASE proc[p].own
  <2>1. ASSUME NEW x \in WellTyped, x.run \in Runs
        PROVE  [x EXCEPT !.step = "failing", !.code = code, !.draft = NoText, !.seen = NoText]
                    \in WellTyped
    BY <2>1 DEF WellTyped, Process, Steps, Locked
  <2>2. [proc[p] EXCEPT !.step = "failing", !.code = code, !.draft = NoText, !.seen = NoText]
            \in WellTyped
    BY <2>1 DEF TypeInv
  <2>3. proc' = [proc EXCEPT ![p] = [proc[p] EXCEPT !.step = "failing", !.code = code,
                                                    !.draft = NoText, !.seen = NoText]]
    BY <1>1 DEF Error, TypeInv, WellTyped, Process
  <2>. QED
    BY <1>1, <2>2, <2>3 DEF TypeInv, TypeOK, Error, locks
<1>2. CASE ~proc[p].own
  BY <1>2, ReturnType DEF Error
<1>. QED
  BY <1>1, <1>2

LEMMA ConflictType ==
    ASSUME NEW p \in Proc, NEW code \in Errors, TypeInv, Conflict(p, code),
           proc[p].run \in Runs
    PROVE  proc' \in [Proc -> WellTyped]
<1>1. ASSUME NEW x \in WellTyped, x.run \in Runs
      PROVE  [x EXCEPT !.step = "conflict", !.code = code] \in WellTyped
  BY <1>1 DEF WellTyped, Process, Steps, Locked, Publishing
<1>2. proc' = [proc EXCEPT ![p] = [proc[p] EXCEPT !.step = "conflict", !.code = code]]
  BY DEF Conflict
<1>. QED
  BY <1>1, <1>2 DEF TypeInv

(* A process turns to run r.                                                *)
LEMMA TakeType ==
    ASSUME NEW p \in Proc, NEW s \in Steps, NEW r \in Runs, TypeInv
    PROVE  /\ [proc EXCEPT ![p].step = s, ![p].run = r] \in [Proc -> WellTyped]
           /\ [proc EXCEPT ![p].step = s, ![p].run = r, ![p].own = TRUE] \in [Proc -> WellTyped]
<1>1. [proc[p] EXCEPT !.step = s, !.run = r] \in WellTyped
  BY DEF TypeInv, WellTyped, Process
<1>2. [proc[p] EXCEPT !.step = s, !.run = r, !.own = TRUE] \in WellTyped
  BY DEF TypeInv, WellTyped, Process
<1>3. [proc EXCEPT ![p] = [proc[p] EXCEPT !.step = s, !.run = r]] \in [Proc -> WellTyped]
  BY <1>1 DEF TypeInv
<1>4. [proc EXCEPT ![p] = [proc[p] EXCEPT !.step = s, !.run = r, !.own = TRUE]]
          \in [Proc -> WellTyped]
  BY <1>2 DEF TypeInv
<1>5. [proc EXCEPT ![p].step = s, ![p].run = r] =
      [proc EXCEPT ![p] = [proc[p] EXCEPT !.step = s, !.run = r]]
  BY DEF TypeInv
<1>6. [proc EXCEPT ![p].step = s, ![p].run = r, ![p].own = TRUE] =
      [proc EXCEPT ![p] = [proc[p] EXCEPT !.step = s, !.run = r, !.own = TRUE]]
  BY DEF TypeInv
<1>. QED
  BY <1>3, <1>4, <1>5, <1>6

(* Only these variables can lose their type when the others are unchanged.  *)
LEMMA TypeInvOf ==
    ASSUME TypeInv,
           rows' \in [Runs -> Row], current' \in Runs \cup {NoRun}, created' \in 0 .. MaxRuns,
           age' \in [Runs -> 0 .. 2],
           file' \in Texts \cup {NoText}, backups' \subseteq Texts,
           copies' \in [Runs -> CopyStates], attachments' \in [Linked -> AttachmentStates],
           reportLock' \in Proc \cup {"free"}, session' \in Proc \cup {"free"},
           proc' \in [Proc -> WellTyped], swallowed' \subseteq Runs,
           edits' \in 0 .. MaxEdits, faults' \in 0 .. MaxFaults, days' \in 0 .. MaxDays
    PROVE  TypeInv'
BY DEF TypeInv, TypeOK, WellTyped

LEMMA CompactionType ==
    ASSUME TypeInv, NEW stop \in 0 .. MaxRuns, NEW heavy \in Heavy, Compact(stop, heavy)
    PROVE  rows' \in [Runs -> Row]
<1>1. stop \in Int /\ heavy \in Int
  BY MaxRunsAssumption, BoundsAssumption
<1>. QED
  BY <1>1, CompactType DEF Compact, TypeInv, TypeOK

(* The steps of personal::run up to the frozen input.                      *)
RunStep(p) ==
    \/ OpenApp(p)
    \/ AcquireReportLock(p)
    \/ LockTimeout(p)
    \/ Recover(p)
    \/ UseExisting(p)
    \/ PublishPending(p)
    \/ ResumePending(p)
    \/ CreateRun(p)
    \/ OutOfRuns(p)
    \/ StartScan(p)
    \/ ScanFails(p)
    \/ FreezeInput(p)
    \/ FinishDryRun(p)

(* The steps of finish() and of the repair commands.                       *)
FinishStep(p) ==
    \/ FinishFails(p)
    \/ CallModel(p)
    \/ \E body \in Bodies : Compose(p, body)
    \/ Stage(p)
    \/ SavePreview(p)
    \/ CompactAfterFinish(p)
    \/ RecordFailure(p)
    \/ Repair(p)
    \/ \E r \in Runs : RepairById(p, r)

(* The steps of Publisher::publish.                                        *)
PublishStep(p) ==
    \/ ReadTarget(p)
    \/ PublishAttachment(p)
    \/ VerifyAttachment(p)
    \/ Recheck(p)
    \/ LinkTarget(p)
    \/ ReplaceTarget(p)
    \/ VerifyTarget(p)
    \/ Mark(p)
    \/ CreateCopy(p)
    \/ WriteCopy(p)
    \/ RecordCaptured(p)

LEMMA RunStepType ==
    ASSUME NEW p \in Proc, TypeInv, RunStep(p)
    PROVE  TypeInv'
<1>. USE DEF At
<1>0. /\ TypeOK
      /\ proc[p] \in WellTyped
      /\ proc[p].step \in WithRun => proc[p].run \in Runs
      /\ "other" \in Errors /\ "OUTPUT_CONFLICT_CAPTURED" \in Errors
  BY DEF TypeInv, WellTyped, Errors
<1>1. CASE OpenApp(p)
  <2>1. PICK stop \in 0 .. MaxRuns, heavy \in Heavy : Compact(stop, heavy)
    BY <1>1 DEF OpenApp
  <2>2. proc' \in [Proc -> WellTyped]
    BY <1>1, GotoType DEF OpenApp, Steps, WithRun, Locked, Publishing
  <2>. QED
    BY <1>1, <1>0, <2>1, <2>2, CompactionType, TypeInvOf DEF OpenApp, TypeOK, files, locks, bounds
<1>2. CASE AcquireReportLock(p)
  BY <1>2, <1>0, TypeInvOf, GotoType
     DEF AcquireReportLock, db, files, locks, bounds, TypeOK, Steps, Locked, WithRun, Publishing
<1>3. CASE LockTimeout(p)
  BY <1>3, <1>0, TypeInvOf, ReturnType
     DEF LockTimeout, db, files, locks, bounds, TypeOK
<1>4. CASE Recover(p)
  BY <1>4, <1>0, TypeInvOf, GotoType, RecoverType
     DEF Recover, db, files, locks, bounds, TypeOK, Steps, Locked, WithRun, Publishing
<1>5. CASE UseExisting(p)
  BY <1>5, <1>0, TypeInvOf, TakeType
     DEF UseExisting, db, files, locks, bounds, TypeOK, Steps, Locked, Publishing
<1>6. CASE PublishPending(p)
  <2>1. PICK r \in Runs : proc' = [proc EXCEPT ![p].step = "publish", ![p].run = r]
    BY <1>6 DEF PublishPending, First, PersonalPending, Pending
  <2>2. proc' \in [Proc -> WellTyped]
    BY <2>1, TakeType DEF Steps, Locked, Publishing
  <2>. QED
    BY <1>6, <1>0, <2>2, TypeInvOf DEF PublishPending, TypeOK, db, files, locks, bounds
<1>7. CASE ResumePending(p)
  <2>1. PICK r \in Runs :
            /\ rows' = Resume(rows, r)
            /\ proc' = [proc EXCEPT ![p].step = "finish", ![p].run = r, ![p].own = TRUE]
    BY <1>7 DEF ResumePending, First, PersonalPending, Pending
  <2>2. proc' \in [Proc -> WellTyped]
    BY <2>1, TakeType DEF Steps, Locked
  <2>3. rows' \in [Runs -> Row]
    BY <2>1, <1>0, LifecycleType DEF TypeOK
  <2>. QED
    BY <1>7, <1>0, <2>2, <2>3, TypeInvOf DEF ResumePending, TypeOK, files, locks, bounds
<1>8. CASE CreateRun(p)
  <2>1. created + 1 \in Runs
    BY <1>8, <1>0, MaxRunsAssumption DEF CreateRun, TypeOK, Runs
  <2>2. proc' \in [Proc -> WellTyped]
    BY <1>8, <2>1, TakeType DEF CreateRun, Steps, Locked
  <2>3. rows' \in [Runs -> Row]
    BY <1>8, <1>0, NewRowType, RewriteType DEF CreateRun, TypeOK, Kinds
  <2>4. created' \in 0 .. MaxRuns
    BY <1>8, <2>1, MaxRunsAssumption DEF CreateRun, Runs
  <2>. QED
    BY <1>8, <1>0, <2>2, <2>3, <2>4, TypeInvOf DEF CreateRun, TypeOK, files, locks, bounds
<1>9. CASE OutOfRuns(p)
  BY <1>9, <1>0, TypeInvOf, ReturnType
     DEF OutOfRuns, db, files, locks, bounds, TypeOK
<1>10. CASE StartScan(p)
  BY <1>10, <1>0, TypeInvOf, GotoType, ErrorType, LifecycleType
     DEF StartScan, db, files, locks, bounds, TypeOK, Steps, Locked, WithRun
<1>11. CASE ScanFails(p)
  BY <1>11, <1>0, TypeInvOf, ErrorType
     DEF ScanFails, db, files, locks, bounds, TypeOK, Locked, WithRun
<1>12. CASE FreezeInput(p)
  BY <1>12, <1>0, TypeInvOf, GotoType, ErrorType, LifecycleType
     DEF FreezeInput, db, files, locks, bounds, TypeOK, Steps, Locked, WithRun
<1>13. CASE FinishDryRun(p)
  BY <1>13, <1>0, TypeInvOf, ReturnType, ErrorType, LifecycleType
     DEF FinishDryRun, db, files, locks, bounds, TypeOK, Locked, WithRun
<1>. QED
  BY <1>1, <1>2, <1>3, <1>4, <1>5, <1>6, <1>7, <1>8, <1>9, <1>10, <1>11, <1>12, <1>13 DEF RunStep

LEMMA FinishStepType ==
    ASSUME NEW p \in Proc, TypeInv, FinishStep(p)
    PROVE  TypeInv'
<1>. USE DEF At
<1>0. /\ TypeOK
      /\ proc[p] \in WellTyped
      /\ proc[p].step \in WithRun => proc[p].run \in Runs
      /\ "other" \in Errors /\ "OUTPUT_CONFLICT_CAPTURED" \in Errors
  BY DEF TypeInv, WellTyped, Errors
<1>1. CASE FinishFails(p)
  BY <1>1, <1>0, TypeInvOf, ErrorType
     DEF FinishFails, db, files, locks, bounds, TypeOK, Locked, WithRun
<1>2. CASE CallModel(p)
  BY <1>2, <1>0, TypeInvOf, LifecycleType
     DEF CallModel, db, files, locks, bounds, TypeOK, Locked, WithRun, TypeInv
<1>3. CASE \E body \in Bodies : Compose(p, body)
  <2>1. PICK body \in Bodies : Compose(p, body)
    BY <1>3
  <2>2. ASSUME NEW x \in WellTyped, x.run \in Runs
        PROVE  [x EXCEPT !.step = "commit", !.draft = body] \in WellTyped
    BY <2>2 DEF WellTyped, Process, Steps, Locked
  <2>3. proc' = [proc EXCEPT ![p] = [proc[p] EXCEPT !.step = "commit", !.draft = body]]
    BY <2>1 DEF Compose
  <2>4. proc' \in [Proc -> WellTyped]
    BY <1>0, <2>1, <2>2, <2>3 DEF TypeInv, Compose, WithRun, Locked
  <2>. QED
    BY <1>0, <2>1, <2>4, TypeInvOf DEF Compose, TypeOK, db, files, locks, bounds
<1>4. CASE Stage(p)
  <2>1. proc[p].run \in Runs /\ proc[p].draft \in Bodies \cup {NoText}
    BY <1>4, <1>0 DEF Stage, WithRun, Locked, WellTyped, Process
  <2>2. CASE CanStage(rows[proc[p].run])
    <3>1. ASSUME NEW x \in WellTyped, x.run \in Runs
          PROVE  [x EXCEPT !.step = "publish", !.draft = NoText] \in WellTyped
      BY <3>1 DEF WellTyped, Process, Steps, Locked, Publishing
    <3>2. proc' = [proc EXCEPT ![p] = [proc[p] EXCEPT !.step = "publish", !.draft = NoText]]
      BY <1>4, <2>2 DEF Stage
    <3>3. proc' \in [Proc -> WellTyped]
      BY <1>0, <2>1, <3>1, <3>2 DEF TypeInv
    <3>4. rows' \in [Runs -> Row]
      <4>1. rows' = StageReport(rows, proc[p].run, proc[p].draft, current)
        BY <1>4, <2>2 DEF Stage
      <4>. QED
        BY <1>0, <2>1, <4>1, StageType DEF TypeOK
    <3>. QED
      BY <1>4, <1>0, <2>2, <3>3, <3>4, TypeInvOf DEF Stage, TypeOK, files, locks, bounds
  <2>3. CASE ~CanStage(rows[proc[p].run])
    BY <1>4, <1>0, <2>1, <2>3, ErrorType, TypeInvOf DEF Stage, TypeOK, files, bounds
  <2>. QED
    BY <2>2, <2>3
<1>5. CASE SavePreview(p)
  <2>1. proc[p].run \in Runs /\ proc[p].draft \in Bodies \cup {NoText}
    BY <1>5, <1>0 DEF SavePreview, WithRun, Locked, WellTyped, Process
  <2>2. CASE CanFinishPreview(rows[proc[p].run])
    <3>1. ASSUME NEW x \in WellTyped, x.run \in Runs
          PROVE  [x EXCEPT !.step = "compact", !.draft = NoText] \in WellTyped
      BY <3>1 DEF WellTyped, Process, Steps, Locked
    <3>2. proc' = [proc EXCEPT ![p] = [proc[p] EXCEPT !.step = "compact", !.draft = NoText]]
      BY <1>5, <2>2 DEF SavePreview
    <3>3. proc' \in [Proc -> WellTyped]
      BY <1>0, <2>1, <3>1, <3>2 DEF TypeInv
    <3>4. rows' \in [Runs -> Row]
      <4>1. rows' = FinishPreview(rows, proc[p].run, proc[p].draft)
        BY <1>5, <2>2 DEF SavePreview
      <4>. QED
        BY <1>0, <2>1, <4>1, StageType DEF TypeOK
    <3>. QED
      BY <1>5, <1>0, <2>2, <3>3, <3>4, TypeInvOf DEF SavePreview, TypeOK, files, locks, bounds
  <2>3. CASE ~CanFinishPreview(rows[proc[p].run])
    BY <1>5, <1>0, <2>1, <2>3, ErrorType, TypeInvOf DEF SavePreview, TypeOK, files, bounds
  <2>. QED
    BY <2>2, <2>3
<1>6. CASE CompactAfterFinish(p)
  <2>0. proc[p].run \in Runs
    BY <1>6, <1>0 DEF CompactAfterFinish, WithRun, Locked
  <2>1. CASE \E stop \in 0 .. MaxRuns, heavy \in Heavy : Compact(stop, heavy) /\ Return(p)
    BY <1>6, <1>0, <2>1, CompactionType, ReturnType, TypeInvOf
       DEF CompactAfterFinish, TypeOK, files, bounds
  <2>2. CASE Error(p, "other") /\ UNCHANGED rows
    BY <1>6, <1>0, <2>0, <2>2, ErrorType, TypeInvOf DEF CompactAfterFinish, TypeOK, files, bounds
  <2>. QED
    BY <1>6, <2>1, <2>2 DEF CompactAfterFinish
<1>7. CASE RecordFailure(p)
  BY <1>7, <1>0, TypeInvOf, ReturnType, FailType
     DEF RecordFailure, db, files, locks, bounds, TypeOK, Locked, WithRun, WellTyped, Process
<1>8. CASE Repair(p)
  <2>1. CASE RepairCandidates = {}
    BY <1>8, <1>0, <2>1, ReturnType, TypeInvOf DEF Repair, TypeOK, db, files, bounds
  <2>2. CASE RepairCandidates # {}
    <3>1. RepairCandidates \subseteq Runs
      BY <1>0 DEF RepairCandidates, First, Committed, Pending, TypeOK
    <3>2. PICK r \in Runs : proc' = [proc EXCEPT ![p].step = "publish", ![p].run = r]
      BY <1>8, <2>2, <3>1 DEF Repair
    <3>3. proc' \in [Proc -> WellTyped]
      BY <3>2, TakeType DEF Steps, Locked, Publishing
    <3>. QED
      BY <1>8, <1>0, <2>2, <3>3, TypeInvOf DEF Repair, TypeOK, db, files, locks, bounds
  <2>. QED
    BY <2>1, <2>2
<1>9. CASE \E r \in Runs : RepairById(p, r)
  <2>1. PICK r \in Runs : RepairById(p, r)
    BY <1>9
  <2>2. CASE rows[r].phase = "absent"
    BY <1>0, <2>1, <2>2, ReturnType, TypeInvOf DEF RepairById, TypeOK, db, files, bounds
  <2>3. CASE rows[r].phase # "absent"
    <3>1. proc' = [proc EXCEPT ![p].step = "publish", ![p].run = r]
      BY <2>1, <2>3 DEF RepairById
    <3>2. proc' \in [Proc -> WellTyped]
      BY <3>1, TakeType DEF Steps, Locked, Publishing
    <3>. QED
      BY <1>0, <2>1, <2>3, <3>2, TypeInvOf DEF RepairById, TypeOK, db, files, locks, bounds
  <2>. QED
    BY <2>2, <2>3
<1>. QED
  BY <1>1, <1>2, <1>3, <1>4, <1>5, <1>6, <1>7, <1>8, <1>9 DEF FinishStep

LEMMA PublishStepType ==
    ASSUME NEW p \in Proc, TypeInv, PublishStep(p)
    PROVE  TypeInv'
<1>. USE DEF At
<1>0. /\ TypeOK
      /\ proc[p] \in WellTyped
      /\ proc[p].step \in WithRun => proc[p].run \in Runs
      /\ "other" \in Errors /\ "OUTPUT_CONFLICT_CAPTURED" \in Errors
  BY DEF TypeInv, WellTyped, Errors
<1>1. CASE ReadTarget(p)
  <2>0. proc[p].run \in Runs
    BY <1>1, <1>0 DEF ReadTarget, WithRun, Locked, Publishing
  <2>1. CASE \E code \in Errors : Error(p, code)
    BY <1>1, <1>0, <2>0, <2>1, ErrorType, TypeInvOf DEF ReadTarget, TypeOK, db, files, bounds
  <2>2. CASE /\ proc' = [proc EXCEPT ![p].step = "attach", ![p].seen = file]
             /\ UNCHANGED locks
    <3>1. ASSUME NEW x \in WellTyped, x.run \in Runs
          PROVE  [x EXCEPT !.step = "attach", !.seen = file] \in WellTyped
      BY <1>0, <3>1 DEF WellTyped, Process, Steps, Locked, Publishing, TypeOK
    <3>2. proc' = [proc EXCEPT ![p] = [proc[p] EXCEPT !.step = "attach", !.seen = file]]
      BY <2>2
    <3>3. proc' \in [Proc -> WellTyped]
      BY <1>0, <2>0, <3>1, <3>2 DEF TypeInv
    <3>. QED
      BY <1>1, <1>0, <2>2, <3>3, TypeInvOf DEF ReadTarget, TypeOK, db, files, locks, bounds
  <2>3. CASE Conflict(p, "other") /\ UNCHANGED locks
    BY <1>1, <1>0, <2>0, <2>3, ConflictType, TypeInvOf
       DEF ReadTarget, TypeOK, db, files, locks, bounds
  <2>. QED
    BY <1>1, <1>0, <2>1, <2>2, <2>3 DEF ReadTarget
<1>2. CASE PublishAttachment(p)
  <2>0. proc[p].run \in Runs
    BY <1>2, <1>0 DEF PublishAttachment, WithRun, Locked, Publishing
  <2>1. attachments' \in [Linked -> AttachmentStates]
    BY <1>2, <1>0 DEF PublishAttachment, TypeOK, AttachmentStates
  <2>2. CASE Error(p, "other")
    BY <1>2, <1>0, <2>0, <2>1, <2>2, ErrorType, TypeInvOf
       DEF PublishAttachment, TypeOK, db, bounds
  <2>3. CASE \E s \in {"mark", "recheck", "attached"} : Goto(p, s) /\ UNCHANGED locks
    <3>1. proc' \in [Proc -> WellTyped]
      BY <2>0, <2>3, GotoType DEF Steps, Locked, Publishing
    <3>. QED
      BY <1>2, <1>0, <2>1, <2>3, <3>1, TypeInvOf DEF PublishAttachment, TypeOK, db, locks, bounds
  <2>. QED
    BY <1>2, <2>2, <2>3 DEF PublishAttachment, AfterAttachment
<1>3. CASE VerifyAttachment(p)
  BY <1>3, <1>0, TypeInvOf, GotoType, ErrorType
     DEF VerifyAttachment, db, files, locks, bounds, TypeOK, AfterAttachment, Steps, Locked, Publishing, WithRun
<1>4. CASE Recheck(p)
  BY <1>4, <1>0, TypeInvOf, GotoType, ConflictType
     DEF Recheck, db, files, locks, bounds, TypeOK, Steps, Locked, Publishing, WithRun
<1>5. CASE LinkTarget(p)
  <2>0. proc[p].run \in Runs
    BY <1>5, <1>0 DEF LinkTarget, WithRun, Locked, Publishing
  <2>1. Body(p) \in Texts \cup {NoText}
    BY <1>0, <2>0 DEF Body, TypeOK, Row, Texts
  <2>2. proc' \in [Proc -> WellTyped]
    BY <1>5, <1>0, <2>0, GotoType, ConflictType DEF LinkTarget, Steps, Locked, Publishing
  <2>. QED
    BY <1>5, <1>0, <2>1, <2>2, TypeInvOf DEF LinkTarget, TypeOK, db, locks, bounds
<1>6. CASE ReplaceTarget(p)
  <2>0. proc[p].run \in Runs
    BY <1>6, <1>0 DEF ReplaceTarget, WithRun, Locked, Publishing
  <2>1. Body(p) \in Texts \cup {NoText}
    BY <1>0, <2>0 DEF Body, TypeOK, Row, Texts
  <2>2. CASE file = NoText
    BY <1>6, <1>0, <2>0, <2>2, ErrorType, TypeInvOf DEF ReplaceTarget, TypeOK, db, bounds
  <2>3. CASE file # NoText
    <3>1. proc' \in [Proc -> WellTyped]
      BY <1>6, <1>0, <2>0, <2>3, GotoType, ConflictType
         DEF ReplaceTarget, Steps, Locked, Publishing
    <3>2. backups' \subseteq Texts /\ swallowed' \subseteq Runs
      BY <1>6, <1>0, <2>0, <2>3 DEF ReplaceTarget, TypeOK
    <3>. QED
      BY <1>6, <1>0, <2>1, <2>3, <3>1, <3>2, TypeInvOf DEF ReplaceTarget, TypeOK, db, locks, bounds
  <2>. QED
    BY <2>2, <2>3
<1>7. CASE VerifyTarget(p)
  BY <1>7, <1>0, TypeInvOf, GotoType, ConflictType
     DEF VerifyTarget, db, files, locks, bounds, TypeOK, Steps, Locked, Publishing, WithRun
<1>8. CASE Mark(p)
  <2>0. proc[p].run \in Runs
    BY <1>8, <1>0 DEF Mark, WithRun, Locked, Publishing
  <2>1. rows' \in [Runs -> Row] /\ current' \in Runs \cup {NoRun}
    BY <1>8, <1>0, <2>0, MarkType DEF Mark, TypeOK
  <2>2. /\ proc' \in [Proc -> WellTyped]
        /\ reportLock' \in Proc \cup {"free"}
        /\ session' \in Proc \cup {"free"}
    <3>1. CASE Goto(p, "compact") /\ UNCHANGED locks
      BY <1>0, <2>0, <3>1, GotoType DEF Steps, Locked, locks, TypeOK
    <3>2. CASE Return(p) \/ Error(p, "other")
      BY <1>0, <2>0, <3>2, ReturnType, ErrorType
    <3>. QED
      BY <1>8, <3>1, <3>2 DEF Mark, AfterPublish
  <2>. QED
    BY <1>8, <1>0, <2>1, <2>2, TypeInvOf DEF Mark, TypeOK, files, bounds
<1>9. CASE CreateCopy(p)
  <2>0. proc[p].run \in Runs
    BY <1>9, <1>0 DEF CreateCopy, WithRun, Locked, Publishing
  <2>1. copies' \in [Runs -> CopyStates]
    BY <1>9, <1>0, <2>0 DEF CreateCopy, TypeOK, CopyStates
  <2>2. /\ proc' \in [Proc -> WellTyped]
        /\ reportLock' \in Proc \cup {"free"}
        /\ session' \in Proc \cup {"free"}
    <3>0. copies[proc[p].run] \in CopyStates
      BY <1>0, <2>0 DEF TypeOK
    <3>1. CASE \E s \in {"copying", "captured"} : Goto(p, s) /\ UNCHANGED locks
      BY <1>0, <2>0, <3>1, GotoType DEF Steps, Locked, Publishing, locks, TypeOK
    <3>2. CASE Error(p, "other")
      BY <1>0, <2>0, <3>2, ErrorType
    <3>. QED
      BY <1>9, <3>0, <3>1, <3>2 DEF CreateCopy, AfterConflict, CopyStates
  <2>. QED
    BY <1>9, <1>0, <2>1, <2>2, TypeInvOf DEF CreateCopy, TypeOK, db, bounds
<1>10. CASE WriteCopy(p)
  <2>0. proc[p].run \in Runs
    BY <1>10, <1>0 DEF WriteCopy, WithRun, Locked, Publishing
  <2>1. copies' \in [Runs -> CopyStates]
    BY <1>10, <1>0, <2>0 DEF WriteCopy, TypeOK, CopyStates
  <2>2. /\ proc' \in [Proc -> WellTyped]
        /\ reportLock' \in Proc \cup {"free"}
        /\ session' \in Proc \cup {"free"}
    <3>1. CASE Goto(p, "captured") /\ UNCHANGED locks
      BY <1>0, <2>0, <3>1, GotoType DEF Steps, Locked, Publishing, locks, TypeOK
    <3>2. CASE Error(p, "other")
      BY <1>0, <2>0, <3>2, ErrorType
    <3>. QED
      BY <1>10, <3>1, <3>2 DEF WriteCopy, AfterConflict
  <2>. QED
    BY <1>10, <1>0, <2>1, <2>2, TypeInvOf DEF WriteCopy, TypeOK, db, bounds
<1>11. CASE RecordCaptured(p)
  BY <1>11, <1>0, TypeInvOf, ErrorType, FailType
     DEF RecordCaptured, db, files, locks, bounds, TypeOK, Locked, Publishing, WithRun
<1>. QED
  BY <1>1, <1>2, <1>3, <1>4, <1>5, <1>6, <1>7, <1>8, <1>9, <1>10, <1>11 DEF PublishStep

LEMMA StartType ==
    ASSUME NEW p \in Proc, TypeInv, Start(p)
    PROVE  TypeInv'
<1>. USE DEF At
<1>0. TypeOK
  BY DEF TypeInv
<1>1. ASSUME NEW s \in {"session", "opened"}, NEW cmd \in Generating \cup Repairing,
             proc' = [proc EXCEPT ![p].step = s, ![p].cmd = cmd]
      PROVE  proc' \in [Proc -> WellTyped]
  <2>1. ASSUME NEW x \in WellTyped
        PROVE  [x EXCEPT !.step = s, !.cmd = cmd] \in WellTyped
    BY DEF WellTyped, Process, Steps, WithRun, Locked, Publishing
  <2>2. proc' = [proc EXCEPT ![p] = [proc[p] EXCEPT !.step = s, !.cmd = cmd]]
    BY <1>1
  <2>. QED
    BY <2>1, <2>2 DEF TypeInv
<1>2. ASSUME NEW cmd \in Commands \cap Generating, AcquireSession(p, cmd)
      PROVE  TypeInv'
  BY <1>0, <1>1, <1>2, TypeInvOf DEF AcquireSession, TypeOK, db, files, bounds
<1>3. ASSUME NEW cmd \in Commands \cap Repairing, OpenHistory(p, cmd)
      PROVE  TypeInv'
  BY <1>0, <1>1, <1>3, TypeInvOf DEF OpenHistory, TypeOK, db, files, locks, bounds
<1>. QED
  BY <1>2, <1>3 DEF Start

LEMMA FaultType ==
    ASSUME NEW p \in Proc, TypeInv, Fault(p)
    PROVE  TypeInv'
<1>0. TypeOK /\ "other" \in Errors
  BY DEF TypeInv, Errors
<1>1. CASE PublishIoError(p)
  <2>1. proc[p].run \in Runs
    BY <1>1 DEF PublishIoError, TypeInv, WellTyped, WithRun, Locked, Publishing
  <2>. QED
    BY <1>0, <1>1, <2>1, ErrorType, TypeInvOf, BoundsAssumption
       DEF PublishIoError, TypeOK, db, files
<1>2. CASE Crash(p)
  BY <1>0, <1>2, ReturnType, TypeInvOf, BoundsAssumption DEF Crash, TypeOK, db, files
<1>. QED
  BY <1>1, <1>2 DEF Fault

LEMMA WorldType ==
    ASSUME TypeInv, World
    PROVE  TypeInv'
<1>0. TypeOK /\ proc \in [Proc -> WellTyped] /\ MaxEdits \in Nat /\ MaxDays \in Nat
  BY BoundsAssumption DEF TypeInv
<1>1. ASSUME NEW text \in Edits \cup backups \cup {NoText}, EditFile(text)
      PROVE  TypeInv'
  BY <1>0, <1>1, TypeInvOf DEF EditFile, TypeOK, Texts, db, locks
<1>2. ASSUME NEW r \in Runs, NEW state \in {"absent", "differs"}, EditCopy(r, state)
      PROVE  TypeInv'
  <2>1. copies' \in [Runs -> CopyStates]
    BY <1>0, <1>2 DEF EditCopy, TypeOK, CopyStates
  <2>. QED
    BY <1>0, <1>2, <2>1, TypeInvOf DEF EditCopy, TypeOK, db, locks
<1>3. ASSUME NEW b \in Linked, NEW state \in {"changed", "removed"}, EditAttachment(b, state)
      PROVE  TypeInv'
  <2>1. attachments' \in [Linked -> AttachmentStates]
    BY <1>0, <1>3 DEF EditAttachment, TypeOK, AttachmentStates
  <2>. QED
    BY <1>0, <1>3, <2>1, TypeInvOf DEF EditAttachment, TypeOK, db, locks
<1>4. CASE DaysPass
  <2>1. age' \in [Runs -> 0 .. 2]
    BY <1>0, <1>4 DEF DaysPass, TypeOK
  <2>. QED
    BY <1>0, <1>4, <2>1, TypeInvOf DEF DaysPass, TypeOK, db, files, locks
<1>. QED
  BY <1>1, <1>2, <1>3, <1>4 DEF World

LEMMA StepIsOneOf ==
    ASSUME NEW p
    PROVE  Step(p) <=> (RunStep(p) \/ FinishStep(p) \/ PublishStep(p))
BY DEF Step, RunStep, FinishStep, PublishStep

LEMMA TypeInit == Init => TypeInv
<1>. SUFFICES ASSUME Init
              PROVE  TypeInv
  OBVIOUS
<1>1. \A body \in Bodies, published \in BOOLEAN : HistoricRow(body, published) \in Row
  BY NoRowType DEF HistoricRow, Row, Phases, Statuses, Errors
<1>2. rows \in [Runs -> Row] /\ current \in Runs \cup {NoRun} /\ created \in 0 .. MaxRuns
  BY <1>1, NoRowType, MaxRunsAssumption DEF Init, Runs, NoRun
<1>3. file \in Texts \cup {NoText}
  BY <1>2, BodyType DEF Init, Texts
<1>4. proc \in [Proc -> WellTyped]
  BY IdleType DEF Init
<1>. QED
  BY <1>2, <1>3, <1>4, BoundsAssumption
     DEF Init, TypeInv, TypeOK, WellTyped, CopyStates, AttachmentStates

LEMMA TypeNext == TypeInv /\ [Next]_vars => TypeInv'
<1>. SUFFICES ASSUME TypeInv, [Next]_vars
              PROVE  TypeInv'
  OBVIOUS
<1>1. ASSUME NEW p \in Proc, Start(p) \/ Step(p) \/ Fault(p)
      PROVE  TypeInv'
  BY <1>1, StartType, StepIsOneOf, RunStepType, FinishStepType, PublishStepType, FaultType
<1>2. CASE World
  BY <1>2, WorldType
<1>3. CASE UNCHANGED vars
  BY <1>3 DEF vars, db, files, locks, bounds, TypeInv, TypeOK, WellTyped
<1>. QED
  BY <1>1, <1>2, <1>3 DEF Next

(* Every variable keeps its type, and a process that reads or changes a run *)
(* has one (personal::run, finish, repair_output and Publisher::publish).   *)
THEOREM TypeCorrect == Spec => []TypeOK
<1>1. TypeInv => TypeOK
  BY DEF TypeInv
<1>. QED
  BY <1>1, TypeInit, TypeNext, PTL DEF Spec

---------------------------------------------------------------------------
(***************************************************************************)
(* The published versions of a date form one line, whatever the processes, *)
(* crashes, repairs and retention steps behind them.                       *)
(*                                                                         *)
(* The argument does not need the report lock: the comparison of the       *)
(* staged predecessor with the pointer, in the transaction that moves the  *)
(* pointer, is enough.  LinearHistory is not inductive, because a run may  *)
(* be staged against a version that has already been replaced; HistoryInv  *)
(* adds that such a version is never current again.                        *)
(***************************************************************************)

(* Rows are only written for runs that were created.                        *)
CreatedOnly ==
    /\ current <= created
    /\ \A r \in Runs : r > created => rows[r].phase = "absent"

(* A predecessor was published, or retention has removed it since.          *)
Predecessors ==
    \A r \in Runs :
        /\ rows[r].previous <= created
        /\ rows[r].previous # NoRun =>
              rows[rows[r].previous].phase \in {"published", "absent"}

(* The pointer names a published row as soon as there is one, and nothing   *)
(* that was published has replaced that row.                                *)
PointerIsLast ==
    /\ current # NoRun => rows[current].phase = "published"
    /\ \A r \in Published : current # NoRun /\ rows[r].previous # current

PreviewsStayPreviews ==
    \A r \in Runs : rows[r].kind = "preview" =>
        rows[r].phase \notin {"db_committed", "published", "absent"}

HistoryInv ==
    CreatedOnly /\ Predecessors /\ PointerIsLast /\ PreviewsStayPreviews /\ LinearHistory

---------------------------------------------------------------------------
(* What a step of the system does to the tables: one transaction, or        *)
(* nothing.                                                                 *)

Transaction(r) ==
    \/ CanScan(rows[r]) /\ rows' = SetScanning(rows, r)
    \/ CanPrepare(rows[r]) /\ rows' = Prepare(rows, r)
    \/ CanReserveCall(rows[r]) /\ rows' = ReserveCall(rows, r)
    \/ CanResume(rows[r]) /\ rows' = Resume(rows, r)
    \/ \E code \in Errors : rows' = Fail(rows, r, code)
    \/ /\ CanStage(rows[r])
       /\ \E body \in Bodies \cup {NoText} : rows' = StageReport(rows, r, body, current)
    \/ /\ CanFinishPreview(rows[r])
       /\ \E body \in Bodies \cup {NoText} : rows' = FinishPreview(rows, r, body)
    \/ CanFinishScan(rows[r]) /\ rows' = FinishScanPreview(rows, r)

Maintenance ==
    \/ rows' = RecoverInterrupted(rows)
    \/ \E stop \in 0 .. MaxRuns, heavy \in Heavy : Compact(stop, heavy)

Creation ==
    /\ created + 1 \in Runs
    /\ created' = created + 1
    /\ \E kind \in Kinds, regen \in BOOLEAN :
          rows' = [rows EXCEPT ![created + 1] = NewRow(kind, regen)]
    /\ current' = current

Publishes(r) ==
    /\ CanMark(rows, r, rows[r].body, current)
    /\ rows' = MarkPublished(rows, r)
    /\ current' = r
    /\ created' = created

DbStep ==
    \/ UNCHANGED db
    \/ (\E r \in Runs : Transaction(r)) /\ UNCHANGED <<current, created>>
    \/ Maintenance /\ UNCHANGED <<current, created>>
    \/ Creation
    \/ \E r \in Runs : Publishes(r)

LEMMA DbSteps == TypeInv /\ [Next]_vars => DbStep
<1>. SUFFICES ASSUME TypeInv, [Next]_vars
              PROVE  DbStep
  OBVIOUS
<1>. USE DEF At
<1>1. ASSUME NEW p \in Proc, Start(p) \/ Fault(p)
      PROVE  DbStep
  BY <1>1 DEF Start, Fault, AcquireSession, OpenHistory, PublishIoError, Crash, DbStep
<1>2. CASE World
  BY <1>2 DEF World, EditFile, EditCopy, EditAttachment, DaysPass, DbStep
<1>3. ASSUME NEW p \in Proc, RunStep(p)
      PROVE  DbStep
  <2>0. proc[p].step \in WithRun => proc[p].run \in Runs
    BY DEF TypeInv, WellTyped
  <2>1. CASE OpenApp(p) \/ Recover(p)
    BY <2>1 DEF OpenApp, Recover, DbStep, Maintenance
  <2>2. CASE \/ AcquireReportLock(p) \/ LockTimeout(p) \/ UseExisting(p) \/ PublishPending(p)
             \/ OutOfRuns(p) \/ ScanFails(p)
    BY <2>2 DEF AcquireReportLock, LockTimeout, UseExisting, PublishPending, OutOfRuns, ScanFails,
                DbStep
  <2>3. CASE ResumePending(p)
    BY <2>3 DEF ResumePending, First, PersonalPending, Pending, DbStep, Transaction
  <2>4. CASE CreateRun(p)
    <3>1. created + 1 \in Runs
      BY <2>4, MaxRunsAssumption DEF CreateRun, TypeInv, TypeOK, Runs
    <3>. QED
      BY <2>4, <3>1 DEF CreateRun, DbStep, Creation, Kinds
  <2>5. CASE StartScan(p)
    BY <2>0, <2>5 DEF StartScan, WithRun, Locked, DbStep, Transaction, db
  <2>6. CASE FreezeInput(p)
    BY <2>0, <2>6 DEF FreezeInput, WithRun, Locked, DbStep, Transaction, db
  <2>7. CASE FinishDryRun(p)
    BY <2>0, <2>7 DEF FinishDryRun, WithRun, Locked, DbStep, Transaction, db
  <2>. QED
    BY <1>3, <2>1, <2>2, <2>3, <2>4, <2>5, <2>6, <2>7 DEF RunStep
<1>4. ASSUME NEW p \in Proc, FinishStep(p)
      PROVE  DbStep
  <2>0. /\ proc[p].step \in WithRun => proc[p].run \in Runs
        /\ proc[p].draft \in Bodies \cup {NoText}
        /\ proc[p].code \in Errors
    BY DEF TypeInv, WellTyped, Process
  <2>1. CASE \/ FinishFails(p) \/ Repair(p)
             \/ (\E body \in Bodies : Compose(p, body))
             \/ (\E r \in Runs : RepairById(p, r))
    BY <2>1 DEF FinishFails, Repair, Compose, RepairById, DbStep
  <2>2. CASE CallModel(p)
    BY <2>0, <2>2 DEF CallModel, WithRun, Locked, DbStep, Transaction
  <2>3. CASE Stage(p)
    <3>1. proc[p].run \in Runs
      BY <2>0, <2>3 DEF Stage, WithRun, Locked
    <3>2. \/ UNCHANGED db
          \/ /\ CanStage(rows[proc[p].run])
             /\ rows' = StageReport(rows, proc[p].run, proc[p].draft, current)
             /\ UNCHANGED <<current, created>>
      BY <2>3 DEF Stage, db
    <3>. QED
      BY <2>0, <3>1, <3>2 DEF DbStep, Transaction
  <2>4. CASE SavePreview(p)
    <3>1. proc[p].run \in Runs
      BY <2>0, <2>4 DEF SavePreview, WithRun, Locked
    <3>2. \/ UNCHANGED db
          \/ /\ CanFinishPreview(rows[proc[p].run])
             /\ rows' = FinishPreview(rows, proc[p].run, proc[p].draft)
             /\ UNCHANGED <<current, created>>
      BY <2>4 DEF SavePreview, db
    <3>. QED
      BY <2>0, <3>1, <3>2 DEF DbStep, Transaction
  <2>5. CASE CompactAfterFinish(p)
    BY <2>5 DEF CompactAfterFinish, DbStep, Maintenance, db
  <2>6. CASE RecordFailure(p)
    BY <2>0, <2>6 DEF RecordFailure, WithRun, Locked, DbStep, Transaction
  <2>. QED
    BY <1>4, <2>1, <2>2, <2>3, <2>4, <2>5, <2>6 DEF FinishStep
<1>5. ASSUME NEW p \in Proc, PublishStep(p)
      PROVE  DbStep
  <2>0. /\ proc[p].step \in WithRun => proc[p].run \in Runs
        /\ "OUTPUT_CONFLICT_CAPTURED" \in Errors
    BY DEF TypeInv, WellTyped, Errors
  <2>1. CASE \/ ReadTarget(p) \/ PublishAttachment(p) \/ VerifyAttachment(p) \/ Recheck(p)
             \/ LinkTarget(p) \/ ReplaceTarget(p) \/ VerifyTarget(p) \/ CreateCopy(p)
             \/ WriteCopy(p)
    BY <2>1 DEF ReadTarget, PublishAttachment, VerifyAttachment, Recheck, LinkTarget,
                ReplaceTarget, VerifyTarget, CreateCopy, WriteCopy, DbStep
  <2>2. CASE Mark(p)
    BY <2>0, <2>2 DEF Mark, Body, WithRun, Locked, Publishing, DbStep, Publishes, db
  <2>3. CASE RecordCaptured(p)
    BY <2>0, <2>3 DEF RecordCaptured, WithRun, Locked, Publishing, DbStep, Transaction
  <2>. QED
    BY <1>5, <2>1, <2>2, <2>3 DEF PublishStep
<1>6. CASE UNCHANGED vars
  BY <1>6 DEF vars, db, DbStep
<1>. QED
  BY <1>1, <1>2, <1>3, <1>4, <1>5, <1>6, StepIsOneOf DEF Next

---------------------------------------------------------------------------
(* Transactions other than the one that publishes leave the history alone.  *)

(* Row y after, row x before, c the pointer.                                *)
SameVersion(x, y) == y.phase = x.phase /\ y.kind = x.kind /\ y.previous = x.previous

Progress(x, y, c) ==
    /\ x.phase \notin {"absent", "published"}
    /\ y.phase \notin {"absent", "published"}
    /\ y.kind = x.kind
    /\ y.previous \in {x.previous, c}
    /\ x.kind = "preview" => y.phase # "db_committed"

Kept(r) ==
    \/ SameVersion(rows[r], rows'[r])
    \/ Progress(rows[r], rows'[r], current)
    \/ rows'[r] = NoRow /\ r # current

LEMMA TransactionKeeps ==
    ASSUME TypeInv, PreviewsStayPreviews, NEW s \in Runs, Transaction(s), NEW r \in Runs
    PROVE  Kept(r)
<1>0. rows \in [Runs -> Row] /\ rows[r] \in Row
  BY DEF TypeInv, TypeOK
<1>1. CASE s # r
  <2>1. rows'[r] = rows[r]
    BY <1>0, <1>1 DEF Transaction, SetScanning, Prepare, ReserveCall, Resume, Fail, StageReport,
                      FinishPreview, FinishScanPreview
  <2>. QED
    BY <2>1 DEF Kept, SameVersion
<1>2. CASE s = r
  <2>1. CASE CanScan(rows[r]) /\ rows' = SetScanning(rows, r)
    BY <1>0, <2>1 DEF CanScan, SetScanning, Kept, Progress, Row
  <2>2. CASE CanPrepare(rows[r]) /\ rows' = Prepare(rows, r)
    BY <1>0, <2>2 DEF CanPrepare, Prepare, Kept, Progress, Row
  <2>3. CASE CanReserveCall(rows[r]) /\ rows' = ReserveCall(rows, r)
    BY <1>0, <2>3 DEF CanReserveCall, ReserveCall, Kept, Progress, Row
  <2>4. CASE rows' = Resume(rows, r)
    BY <1>0, <2>4 DEF Resume, Kept, SameVersion, Row
  <2>5. ASSUME NEW code \in Errors, rows' = Fail(rows, r, code)
        PROVE  Kept(r)
    BY <1>0, <2>5 DEF Fail, Kept, SameVersion, Row
  <2>6. ASSUME CanStage(rows[r]), NEW body \in Bodies \cup {NoText},
               rows' = StageReport(rows, r, body, current)
        PROVE  Kept(r)
    BY <1>0, <2>6 DEF CanStage, StageReport, Kept, Progress, Row
  <2>7. ASSUME CanFinishPreview(rows[r]), NEW body \in Bodies \cup {NoText},
               rows' = FinishPreview(rows, r, body)
        PROVE  Kept(r)
    BY <1>0, <2>7 DEF CanFinishPreview, FinishPreview, Kept, Progress, PreviewsStayPreviews, Row
  <2>8. CASE rows' = FinishScanPreview(rows, r)
    BY <1>0, <2>8 DEF FinishScanPreview, Kept, SameVersion, Row
  <2>. QED
    BY <1>2, <2>1, <2>2, <2>3, <2>4, <2>5, <2>6, <2>7, <2>8 DEF Transaction
<1>. QED
  BY <1>1, <1>2

LEMMA MaintenanceKeeps ==
    ASSUME TypeInv, Maintenance, NEW r \in Runs
    PROVE  Kept(r)
<1>0. rows[r] \in Row
  BY DEF TypeInv, TypeOK
<1>1. CASE rows' = RecoverInterrupted(rows)
  BY <1>0, <1>1 DEF RecoverInterrupted, Kept, SameVersion, Row
<1>2. ASSUME NEW stop \in 0 .. MaxRuns, NEW heavy \in Heavy, Compact(stop, heavy)
      PROVE  Kept(r)
  <2>1. ASSUME NEW x \in Row
        PROVE  SameVersion(x, CompactInput(x)) /\ CompactInput(x) \in Row
    BY CompactInputType DEF CompactInput, SameVersion, Row
  <2>2. ASSUME NEW x \in Row, NEW c \in BOOLEAN, NEW w \in BOOLEAN, NEW d \in BOOLEAN
        PROVE  \/ SameVersion(x, CompactRow(x, c, w, d))
               \/ CompactRow(x, c, w, d) = NoRow /\ ~c
    <3>. DEFINE kept == IF w THEN CompactInput(x) ELSE x
    <3>1. SameVersion(x, kept) /\ kept \in Row
      BY <2>1 DEF SameVersion
    <3>. HIDE DEF kept
    <3>2. SameVersion(x, [kept EXCEPT !.input = FALSE])
      BY <3>1 DEF SameVersion, Row
    <3>. QED
      BY <3>1, <3>2 DEF CompactRow, kept
  <2>3. \/ rows'[r] = rows[r]
        \/ rows'[r] = CompactRow(rows[r], r = current, age[r] >= 1, age[r] >= 2 \/ r <= heavy)
    BY <1>2 DEF Compact, CompactPersonal
  <2>4. /\ (r = current) \in BOOLEAN
        /\ (age[r] >= 1) \in BOOLEAN
        /\ (age[r] >= 2 \/ r <= heavy) \in BOOLEAN
    OBVIOUS
  <2>5. CASE rows'[r] = rows[r]
    BY <2>5 DEF Kept, SameVersion
  <2>6. CASE rows'[r] = CompactRow(rows[r], r = current, age[r] >= 1, age[r] >= 2 \/ r <= heavy)
    BY <1>0, <2>2, <2>4, <2>6 DEF Kept
  <2>. QED
    BY <2>3, <2>5, <2>6
<1>. QED
  BY <1>1, <1>2 DEF Maintenance

LEMMA KeptHistory ==
    ASSUME TypeInv, TypeInv', HistoryInv, \A r \in Runs : Kept(r),
           current' = current, created' = created
    PROVE  HistoryInv'
<1>0. /\ rows \in [Runs -> Row] /\ rows' \in [Runs -> Row]
      /\ current \in Runs \cup {NoRun} /\ created \in Nat /\ 0 <= created
      /\ NoRow.phase = "absent" /\ NoRow.previous = NoRun /\ NoRow.kind = "report"
      /\ NoRun = 0 /\ Runs \subseteq Nat /\ NoRun \notin Runs
  BY MaxRunsAssumption DEF TypeInv, TypeOK, NoRow, NoRun, Runs
<1>1. \A r \in Runs : rows[r].previous \in Runs \cup {NoRun}
  BY <1>0 DEF Row
<1>2. CreatedOnly'
  BY <1>0 DEF HistoryInv, CreatedOnly, Kept, SameVersion, Progress
<1>3. Predecessors'
  <2>. SUFFICES ASSUME NEW r \in Runs
                PROVE  /\ rows'[r].previous <= created
                       /\ rows'[r].previous # NoRun =>
                             rows'[rows'[r].previous].phase \in {"published", "absent"}
    BY DEF Predecessors
  <2>1. \/ rows'[r].previous = rows[r].previous
        \/ rows'[r].previous = current
        \/ rows'[r].previous = NoRun
    BY <1>0 DEF Kept, SameVersion, Progress
  <2>2. ASSUME NEW s \in Runs, rows[s].phase \in {"published", "absent"}
        PROVE  rows'[s].phase \in {"published", "absent"}
    BY <1>0, <2>2 DEF Kept, SameVersion, Progress
  <2>. QED
    BY <1>0, <1>1, <2>1, <2>2 DEF HistoryInv, Predecessors, PointerIsLast, CreatedOnly
<1>4. ASSUME NEW r \in Runs, rows'[r].phase = "published"
      PROVE  rows[r].phase = "published" /\ rows'[r].previous = rows[r].previous
  BY <1>0, <1>4 DEF Kept, SameVersion, Progress
<1>5. PointerIsLast'
  <2>1. current # NoRun => rows'[current].phase = "published"
    BY <1>0 DEF HistoryInv, PointerIsLast, Kept, SameVersion, Progress
  <2>. QED
    BY <1>0, <1>4, <2>1 DEF HistoryInv, PointerIsLast, Published
<1>6. PreviewsStayPreviews'
  BY <1>0 DEF HistoryInv, PreviewsStayPreviews, Kept, SameVersion, Progress
<1>7. LinearHistory'
  BY <1>4 DEF HistoryInv, LinearHistory, Published
<1>. QED
  BY <1>2, <1>3, <1>5, <1>6, <1>7 DEF HistoryInv

LEMMA CreationHistory ==
    ASSUME TypeInv, HistoryInv, Creation
    PROVE  HistoryInv'
<1>. DEFINE n == created + 1
<1>0. /\ rows \in [Runs -> Row]
      /\ current \in Runs \cup {NoRun} /\ created \in Nat /\ n \in Runs
      /\ created' = n /\ current' = current
      /\ NoRun = 0 /\ Runs \subseteq Nat /\ NoRun \notin Runs
  BY MaxRunsAssumption DEF TypeInv, TypeOK, NoRun, Runs, Creation
<1>1. PICK kind \in Kinds, regen \in BOOLEAN : rows' = [rows EXCEPT ![n] = NewRow(kind, regen)]
  BY DEF Creation
<1>2. /\ rows'[n].phase = "created" /\ rows'[n].previous = NoRun
      /\ \A r \in Runs : r # n => rows'[r] = rows[r]
  BY <1>0, <1>1 DEF NewRow, NoRow
<1>3. rows[n].phase = "absent" /\ current # n
  BY <1>0 DEF HistoryInv, CreatedOnly
<1>4. \A r \in Runs : rows[r].previous \in Runs \cup {NoRun} /\ rows[r].previous # n
  BY <1>0 DEF HistoryInv, Predecessors, Row
<1>. HIDE DEF n
<1>5. CreatedOnly'
  BY <1>0, <1>2 DEF HistoryInv, CreatedOnly, n
<1>6. Predecessors'
  <2>. SUFFICES ASSUME NEW s \in Runs
                PROVE  /\ rows'[s].previous <= n
                       /\ rows'[s].previous # NoRun =>
                             rows'[rows'[s].previous].phase \in {"published", "absent"}
    BY <1>0 DEF Predecessors
  <2>1. CASE s = n
    BY <1>0, <1>2, <2>1
  <2>2. CASE s # n
    <3>1. rows'[s].previous = rows[s].previous /\ rows[s].previous <= created
      BY <1>2, <2>2 DEF HistoryInv, Predecessors
    <3>2. rows[s].previous # NoRun => rows'[rows[s].previous] = rows[rows[s].previous]
      BY <1>2, <1>4
    <3>3. rows[s].previous # NoRun => rows[rows[s].previous].phase \in {"published", "absent"}
      BY DEF HistoryInv, Predecessors
    <3>4. created \in Nat /\ n = created + 1
      BY <1>0 DEF n
    <3>5. rows[s].previous \in Nat
      <4>1. rows[s].previous \in Runs \cup {NoRun}
        BY <1>4
      <4>2. Runs \subseteq Nat /\ NoRun \in Nat
        BY MaxRunsAssumption DEF Runs, NoRun
      <4>. QED
        BY <4>1, <4>2
    <3>6. rows[s].previous <= n
      BY <3>1, <3>4, <3>5
    <3>. QED
      BY <3>1, <3>2, <3>3, <3>5, <3>6
  <2>. QED
    BY <2>1, <2>2
<1>7. PointerIsLast'
  BY <1>0, <1>2, <1>3 DEF HistoryInv, PointerIsLast, Published
<1>8. PreviewsStayPreviews'
  BY <1>2 DEF HistoryInv, PreviewsStayPreviews
<1>9. LinearHistory'
  BY <1>2 DEF HistoryInv, LinearHistory, Published
<1>. QED
  BY <1>5, <1>6, <1>7, <1>8, <1>9 DEF HistoryInv

LEMMA PublishesHistory ==
    ASSUME TypeInv, HistoryInv, NEW r \in Runs, Publishes(r)
    PROVE  HistoryInv'
<1>0. /\ rows \in [Runs -> Row]
      /\ current \in Runs \cup {NoRun} /\ created \in Nat
      /\ created' = created /\ current' = r
      /\ rows[r].phase = "db_committed" /\ rows[r].previous = current
      /\ NoRun = 0 /\ Runs \subseteq Nat /\ NoRun \notin Runs
  BY MaxRunsAssumption DEF TypeInv, TypeOK, NoRun, Runs, Publishes, CanMark
<1>1. /\ rows'[r].phase = "published" /\ rows'[r].previous = current
      /\ rows'[r].kind = rows[r].kind
  BY <1>0 DEF Publishes, MarkPublished, Row
<1>2. \A s \in Runs : s # r => SameVersion(rows[s], rows'[s])
  BY <1>0 DEF Publishes, MarkPublished, SameVersion, Row
<1>3. \A s \in Runs : rows[s].previous \in Runs \cup {NoRun} /\ rows[s].previous # r
  BY <1>0 DEF HistoryInv, Predecessors, Row
<1>4. r # current /\ r <= created
  BY <1>0 DEF HistoryInv, PointerIsLast, CreatedOnly
<1>5. CreatedOnly'
  BY <1>0, <1>2, <1>4 DEF HistoryInv, CreatedOnly, SameVersion
<1>6. Predecessors'
  <2>. SUFFICES ASSUME NEW s \in Runs
                PROVE  /\ rows'[s].previous <= created
                       /\ rows'[s].previous # NoRun =>
                             rows'[rows'[s].previous].phase \in {"published", "absent"}
    BY <1>0 DEF Predecessors
  <2>1. rows'[s].previous = rows[s].previous
    BY <1>0, <1>1, <1>2 DEF SameVersion
  <2>2. rows[s].previous # NoRun =>
            rows'[rows[s].previous].phase = rows[rows[s].previous].phase
    BY <1>2, <1>3 DEF SameVersion
  <2>. QED
    BY <2>1, <2>2 DEF HistoryInv, Predecessors
<1>7. PointerIsLast'
  BY <1>0, <1>1, <1>2, <1>3, <1>4 DEF PointerIsLast, Published, SameVersion
<1>8. PreviewsStayPreviews'
  BY <1>0, <1>1, <1>2 DEF HistoryInv, PreviewsStayPreviews, SameVersion
<1>9. LinearHistory'
  BY <1>0, <1>1, <1>2 DEF HistoryInv, PointerIsLast, LinearHistory, Published, SameVersion
<1>. QED
  BY <1>5, <1>6, <1>7, <1>8, <1>9 DEF HistoryInv

LEMMA HistoryInit == Init => HistoryInv
<1>. SUFFICES ASSUME Init
              PROVE  HistoryInv
  OBVIOUS
<1>. USE DEF NoRun, Runs
<1>0. /\ NoRow.previous = 0 /\ NoRow.kind = "report" /\ NoRow.phase = "absent"
      /\ \A body \in Bodies, published \in BOOLEAN :
            /\ HistoricRow(body, published).previous = 0
            /\ HistoricRow(body, published).kind = "report"
            /\ HistoricRow(body, published).phase =
                  IF published THEN "published" ELSE "db_committed"
  BY DEF HistoricRow, NoRow
<1>1. CASE rows = [r \in Runs |-> NoRow] /\ current = 0 /\ created = 0
  BY <1>0, <1>1 DEF HistoryInv, CreatedOnly, Predecessors, PreviewsStayPreviews, PointerIsLast,
                    Published, LinearHistory
<1>2. ASSUME NEW body \in Bodies, NEW published \in BOOLEAN, MaxRuns >= 1,
             rows = [r \in Runs |-> IF r = 1 THEN HistoricRow(body, published) ELSE NoRow],
             current = (IF published THEN 1 ELSE 0), created = 1
      PROVE  HistoryInv
  <2>. DEFINE first == HistoricRow(body, published)
  <2>1. /\ first.previous = 0 /\ first.kind = "report"
        /\ first.phase = IF published THEN "published" ELSE "db_committed"
    BY <1>0
  <2>. HIDE DEF first
  <2>2. /\ \A r \in Runs : rows[r].previous = 0 /\ rows[r].kind = "report"
        /\ \A r \in Runs : r # 1 => rows[r].phase = "absent"
        /\ 1 \in Runs /\ rows[1].phase = IF published THEN "published" ELSE "db_committed"
    BY <1>0, <1>2, <2>1, MaxRunsAssumption DEF first
  <2>. QED
    BY <1>2, <2>2 DEF HistoryInv, CreatedOnly, Predecessors, PreviewsStayPreviews, PointerIsLast,
                      Published, LinearHistory
<1>. QED
  BY <1>1, <1>2 DEF Init

LEMMA HistoryNext == TypeInv /\ TypeInv' /\ HistoryInv /\ [Next]_vars => HistoryInv'
<1>. SUFFICES ASSUME TypeInv, TypeInv', HistoryInv, [Next]_vars
              PROVE  HistoryInv'
  OBVIOUS
<1>1. CASE UNCHANGED db
  BY <1>1 DEF db, HistoryInv, CreatedOnly, Predecessors, PointerIsLast, PreviewsStayPreviews,
              LinearHistory, Published
<1>2. ASSUME NEW s \in Runs, Transaction(s), UNCHANGED <<current, created>>
      PROVE  HistoryInv'
  BY <1>2, TransactionKeeps, KeptHistory DEF HistoryInv
<1>3. CASE Maintenance /\ UNCHANGED <<current, created>>
  BY <1>3, MaintenanceKeeps, KeptHistory
<1>4. CASE Creation
  BY <1>4, CreationHistory
<1>5. ASSUME NEW r \in Runs, Publishes(r)
      PROVE  HistoryInv'
  BY <1>5, PublishesHistory
<1>. QED
  BY <1>1, <1>2, <1>3, <1>4, <1>5, DbSteps DEF DbStep

(* No two published versions of a date replaced the same one, however many  *)
(* runs were staged against it, abandoned by crashes and repaired later, by *)
(* any number of processes (stage_report and mark_published).               *)
THEOREM HistoryIsLinear == Spec => []LinearHistory
<1>1. HistoryInv => LinearHistory
  BY DEF HistoryInv
<1>2. Init => TypeInv /\ HistoryInv
  BY TypeInit, HistoryInit
<1>3. TypeInv /\ HistoryInv /\ [Next]_vars => (TypeInv /\ HistoryInv)'
  BY TypeNext, HistoryNext
<1>. QED
  BY <1>1, <1>2, <1>3, PTL DEF Spec

---------------------------------------------------------------------------
(* A run that has succeeded is final.  TableInv: what has succeeded was     *)
(* published or is a preview, so no body of it is still to be published.    *)

SucceededKinds ==
    \A r \in Runs : rows[r].status = "succeeded" =>
        rows[r].phase \in {"published", "preview"} \/ rows[r].kind = "preview"

AbsentIsNoRow == \A r \in Runs : rows[r].phase = "absent" => rows[r] = NoRow

TableInv == SucceededKinds /\ AbsentIsNoRow

(* What may become of row x, the current one or not.                        *)
Final(x, y, isCurrent) ==
    x.status = "succeeded" =>
        \/ y = x
        \/ y = [x EXCEPT !.input = FALSE]
        \/ y = NoRow /\ ~isCurrent

LEMMA TransactionTable ==
    ASSUME TypeInv, HistoryInv, TableInv, NEW s \in Runs, Transaction(s), NEW r \in Runs
    PROVE  /\ Final(rows[r], rows'[r], r = current)
           /\ rows'[r].status = "succeeded" =>
                 rows'[r].phase \in {"published", "preview"} \/ rows'[r].kind = "preview"
           /\ rows'[r].phase = "absent" => rows'[r] = NoRow
<1>0. rows \in [Runs -> Row] /\ rows[r] \in Row
  BY DEF TypeInv, TypeOK
<1>a. /\ rows[r].status = "succeeded" =>
            rows[r].phase \in {"published", "preview"} \/ rows[r].kind = "preview"
      /\ rows[r].phase = "absent" => rows[r] = NoRow
      /\ rows[r].kind = "preview" => rows[r].phase # "absent"
  BY DEF TableInv, SucceededKinds, AbsentIsNoRow, HistoryInv, PreviewsStayPreviews
<1>1. CASE rows'[r] = rows[r]
  BY <1>1, <1>a DEF Final
<1>2. CASE s = r /\ rows'[r] # rows[r]
  <2>1. CASE CanScan(rows[r]) /\ rows' = SetScanning(rows, r)
    BY <1>0, <1>a, <2>1 DEF CanScan, SetScanning, Final, Row
  <2>2. CASE CanPrepare(rows[r]) /\ rows' = Prepare(rows, r)
    BY <1>0, <1>a, <2>2 DEF CanPrepare, Prepare, Final, Row
  <2>3. CASE CanReserveCall(rows[r]) /\ rows' = ReserveCall(rows, r)
    BY <1>0, <1>a, <2>3 DEF CanReserveCall, ReserveCall, Final, Row
  <2>4. CASE CanResume(rows[r]) /\ rows' = Resume(rows, r)
    BY <1>0, <1>a, <2>4 DEF CanResume, Resumable, Resume, Final, Row
  <2>5. ASSUME NEW code \in Errors, rows' = Fail(rows, r, code)
        PROVE  /\ rows[r].status # "succeeded" /\ rows[r].phase # "absent"
               /\ rows'[r].status = "failed" /\ rows'[r].phase = rows[r].phase
    BY <1>0, <1>2, <2>5 DEF Fail, Row
  <2>6. ASSUME CanStage(rows[r]), NEW body \in Bodies \cup {NoText},
               rows' = StageReport(rows, r, body, current)
        PROVE  /\ rows[r].status = "running" /\ rows'[r].status = "running"
               /\ rows'[r].phase = "db_committed"
    BY <1>0, <2>6 DEF CanStage, StageReport, Row
  <2>7. ASSUME CanFinishPreview(rows[r]), NEW body \in Bodies \cup {NoText},
               rows' = FinishPreview(rows, r, body)
        PROVE  /\ rows[r].status = "running" /\ rows'[r].phase = "preview"
    BY <1>0, <2>7 DEF CanFinishPreview, FinishPreview, Row
  <2>8. CASE CanFinishScan(rows[r]) /\ rows' = FinishScanPreview(rows, r)
    BY <1>0, <1>a, <2>8 DEF CanFinishScan, FinishScanPreview, Final, Row
  <2>. QED
    BY <1>2, <2>1, <2>2, <2>3, <2>4, <2>5, <2>6, <2>7, <2>8 DEF Transaction, Final
<1>3. s # r => rows'[r] = rows[r]
  BY <1>0 DEF Transaction, SetScanning, Prepare, ReserveCall, Resume, Fail, StageReport,
              FinishPreview, FinishScanPreview
<1>. QED
  BY <1>1, <1>2, <1>3

LEMMA MaintenanceTable ==
    ASSUME TypeInv, HistoryInv, TableInv, Maintenance, NEW r \in Runs
    PROVE  /\ Final(rows[r], rows'[r], r = current)
           /\ rows'[r].status = "succeeded" =>
                 rows'[r].phase \in {"published", "preview"} \/ rows'[r].kind = "preview"
           /\ rows'[r].phase = "absent" => rows'[r] = NoRow
<1>0. rows[r] \in Row
  BY DEF TypeInv, TypeOK
<1>a. /\ rows[r].status = "succeeded" =>
            rows[r].phase \in {"published", "preview"} \/ rows[r].kind = "preview"
      /\ rows[r].phase = "absent" => rows[r] = NoRow
  BY DEF TableInv, SucceededKinds, AbsentIsNoRow
<1>1. CASE rows' = RecoverInterrupted(rows)
  <2>1. \/ rows'[r] = rows[r]
        \/ /\ rows[r].status = "running" /\ rows[r].phase # "absent"
           /\ rows'[r].status = "failed" /\ rows'[r].phase = rows[r].phase
    BY <1>0, <1>1 DEF RecoverInterrupted, Interrupted, Row
  <2>. QED
    BY <1>a, <2>1 DEF Final
<1>2. ASSUME NEW stop \in 0 .. MaxRuns, NEW heavy \in Heavy, Compact(stop, heavy),
             rows'[r] # rows[r]
      PROVE  /\ Final(rows[r], rows'[r], r = current)
             /\ rows'[r].status = "succeeded" =>
                   rows'[r].phase \in {"published", "preview"} \/ rows'[r].kind = "preview"
             /\ rows'[r].phase = "absent" => rows'[r] = NoRow
  <2>. DEFINE x == rows[r]
              w == age[r] >= 1
              kept == IF w THEN CompactInput(x) ELSE x
  <2>0. x \in Row /\ x.phase # "absent"
    BY <1>0, <1>2 DEF Compact, CompactPersonal
  <2>1. /\ kept \in Row /\ kept.phase = x.phase /\ kept.kind = x.kind
        /\ kept.status = "succeeded" => x.status = "succeeded"
        /\ x.status = "succeeded" => kept \in {x, [x EXCEPT !.input = FALSE]}
    <3>1. /\ CompactInput(x) \in Row
          /\ CompactInput(x).phase = x.phase /\ CompactInput(x).kind = x.kind
          /\ CompactInput(x).status = "succeeded" => x.status = "succeeded"
      BY <2>0, CompactInputType DEF CompactInput, Row
    <3>2. x.status = "succeeded" => CompactInput(x) = [x EXCEPT !.input = FALSE]
      BY <2>0 DEF CompactInput, Row
    <3>. QED
      BY <2>0, <3>1, <3>2
  <2>. HIDE DEF kept
  <2>2. \/ rows'[r] = kept
        \/ r = current /\ rows'[r] = [kept EXCEPT !.input = FALSE]
        \/ r # current /\ rows'[r] = NoRow
    BY <1>2 DEF Compact, CompactPersonal, CompactRow, kept
  <2>3. CASE rows'[r] = kept
    BY <1>a, <2>0, <2>1, <2>3 DEF Final
  <2>4. CASE r = current /\ rows'[r] = [kept EXCEPT !.input = FALSE]
    <3>1. /\ rows'[r].phase = x.phase /\ rows'[r].kind = x.kind
          /\ rows'[r].status = kept.status
      BY <2>1, <2>4 DEF Row
    <3>2. x.status = "succeeded" => rows'[r] = [x EXCEPT !.input = FALSE]
      BY <2>0, <2>1, <2>4 DEF Row
    <3>. QED
      BY <1>a, <2>0, <2>1, <3>1, <3>2 DEF Final
  <2>5. CASE r # current /\ rows'[r] = NoRow
    BY <2>5 DEF Final, NoRow
  <2>. QED
    BY <2>2, <2>3, <2>4, <2>5
<1>. QED
  BY <1>a, <1>1, <1>2 DEF Maintenance, Final

LEMMA TableNext ==
    ASSUME TypeInv, HistoryInv, TableInv, [Next]_vars
    PROVE  /\ TableInv'
           /\ \A r \in Runs : Final(rows[r], rows'[r], r = current)
<1>0. /\ rows \in [Runs -> Row]
      /\ NoRow.status = "cancelled" /\ NoRow.phase = "absent"
  BY DEF TypeInv, TypeOK, NoRow
<1>1. CASE UNCHANGED db
  BY <1>1 DEF db, TableInv, SucceededKinds, AbsentIsNoRow, Final
<1>2. ASSUME NEW s \in Runs, Transaction(s)
      PROVE  /\ TableInv'
             /\ \A r \in Runs : Final(rows[r], rows'[r], r = current)
  BY <1>2, TransactionTable DEF TableInv, SucceededKinds, AbsentIsNoRow
<1>3. CASE Maintenance
  BY <1>3, MaintenanceTable DEF TableInv, SucceededKinds, AbsentIsNoRow
<1>4. CASE Creation
  <2>. DEFINE n == created + 1
  <2>1. n \in Runs /\ rows[n] = NoRow
    <3>1. n \in Runs /\ created \in Nat
      BY <1>4, MaxRunsAssumption DEF Creation, TypeInv, TypeOK
    <3>. QED
      BY <3>1 DEF HistoryInv, CreatedOnly, TableInv, AbsentIsNoRow
  <2>2. PICK kind \in Kinds, regen \in BOOLEAN : rows' = [rows EXCEPT ![n] = NewRow(kind, regen)]
    BY <1>4 DEF Creation
  <2>3. /\ rows'[n].phase = "created" /\ rows'[n].status = "running"
        /\ \A r \in Runs : r # n => rows'[r] = rows[r]
    BY <1>0, <2>1, <2>2 DEF NewRow, NoRow
  <2>. QED
    BY <1>0, <2>1, <2>3 DEF TableInv, SucceededKinds, AbsentIsNoRow, Final
<1>5. ASSUME NEW r \in Runs, Publishes(r)
      PROVE  /\ TableInv'
             /\ \A s \in Runs : Final(rows[s], rows'[s], s = current)
  <2>1. rows[r].phase = "db_committed" /\ rows[r].status # "succeeded"
    BY <1>5 DEF Publishes, CanMark, TableInv, SucceededKinds, HistoryInv, PreviewsStayPreviews
  <2>2. rows'[r].phase = "published"
    BY <1>0, <1>5 DEF Publishes, MarkPublished, Row
  <2>3. \A s \in Runs : s # r =>
            \/ rows'[s] = rows[s]
            \/ /\ rows[s].status # "succeeded" /\ rows'[s].status = "cancelled"
               /\ rows[s].phase \in Resumable /\ rows'[s].phase = rows[s].phase
    BY <1>0, <1>5 DEF Publishes, MarkPublished, SupersededBy, Row
  <2>. QED
    BY <2>1, <2>2, <2>3 DEF TableInv, SucceededKinds, AbsentIsNoRow, Final, Resumable
<1>. QED
  BY <1>1, <1>2, <1>3, <1>4, <1>5, DbSteps DEF DbStep

LEMMA TableInit == Init => TableInv
<1>. SUFFICES ASSUME Init
              PROVE  TableInv
  OBVIOUS
<1>1. /\ NoRow.status = "cancelled" /\ NoRow.phase = "absent"
      /\ \A body \in Bodies, published \in BOOLEAN :
            /\ HistoricRow(body, published).status = IF published THEN "succeeded" ELSE "failed"
            /\ HistoricRow(body, published).phase =
                  IF published THEN "published" ELSE "db_committed"
  BY DEF HistoricRow, NoRow
<1>2. \A r \in Runs :
          \/ rows[r] = NoRow
          \/ \E body \in Bodies, published \in BOOLEAN : rows[r] = HistoricRow(body, published)
  BY DEF Init
<1>. QED
  BY <1>1, <1>2 DEF TableInv, SucceededKinds, AbsentIsNoRow

(* A run that has succeeded is final: no step, not even the fail() after a  *)
(* compaction error, changes its row; retention drops its input or, unless  *)
(* it is the current report, the row (Store::fail, compact_personal_until). *)
THEOREM SucceededRunsAreFinal == Spec => SucceededIsFinal
<1>1. Init => TypeInv /\ HistoryInv /\ TableInv
  BY TypeInit, HistoryInit, TableInit
<1>2. TypeInv /\ HistoryInv /\ TableInv /\ [Next]_vars => (TypeInv /\ HistoryInv /\ TableInv)'
  BY TypeNext, HistoryNext, TableNext
<1>3. TypeInv /\ HistoryInv /\ TableInv /\ [Next]_vars =>
        [\A r \in Runs : rows[r].status = "succeeded" =>
            \/ rows'[r] = rows[r]
            \/ rows'[r] = [rows[r] EXCEPT !.input = FALSE]
            \/ rows'[r] = NoRow /\ r # current]_vars
  BY TableNext DEF Final
<1>. QED
  BY <1>1, <1>2, <1>3, PTL DEF Spec, SucceededIsFinal


---------------------------------------------------------------------------
(* What publication promises besides, and the refinement of PublishedReport. *)
(*                                                                           *)
(* Unlike the shape of the history, these need the report lock: what a       *)
(* process has read of the tables and of its run stays true until it is      *)
(* done, because nobody else passes a lock it holds.                         *)

(* Whoever works on the date holds its lock.                                *)
LockHeld == \A p \in Proc : proc[p].step \in Locked => reportLock = p

(* The rows.                                                                *)

FinishedAreSettled ==
    \A r \in Runs :
        /\ rows[r].phase \in {"published", "preview"} => rows[r].status = "succeeded"
        /\ rows[r].phase = "published" => rows[r].error = "none"

StagedHaveBodies == \A r \in Runs : Staged(rows[r]) => rows[r].body \in Bodies

(* Committed against the version that is current: publishable.              *)
Live(r) == rows[r].phase = "db_committed" /\ rows[r].previous = current

LiveKnowThePublished ==
    \A r \in Runs : Live(r) => rows[r].previousBody = BodyOf(rows, current)

SupersededAreOver ==
    \A r \in Runs : rows[r].error = "RUN_SUPERSEDED" =>
        /\ rows[r].status = "cancelled"
        /\ rows[r].phase \in Resumable
        /\ ~Live(r)

RowsInv ==
    /\ FinishedAreSettled
    /\ StagedHaveBodies
    /\ LiveKnowThePublished
    /\ SupersededAreOver
    /\ ItemsNeverLost

(* The files.  As long as a run that displaced an edit can be published,    *)
(* the target holds its body, and that is not what it was to replace.       *)

SwallowedStay ==
    \A r \in swallowed :
        /\ r <= created
        /\ rows[r].phase \in {"db_committed", "published", "absent"}
        /\ Live(r) => file = rows[r].body /\ rows[r].body # rows[r].previousBody

EvidenceInv ==
    \A b \in Linked : b = file \/ b \in backups => attachments[b] # "absent"

(* What process x knows.                                                    *)

Based(x) ==
    /\ x.step \notin WithRun => x.run = NoRun /\ ~x.own
    /\ x.step = "failing" => x.own
    /\ x.code # "RUN_SUPERSEDED"
    /\ x.own => rows[x.run].error # "RUN_SUPERSEDED"

Settled(x) ==
    x.cmd \in Generating /\ x.step \in Locked \ {"recover"} =>
        \A r \in Runs \ {x.run} :
            rows[r].personal /\ rows[r].status = "running" =>
                rows[r].kind = "report" /\ rows[r].phase \in Resumable

Drafted(x) ==
    x.step = "commit" => x.draft \in Bodies /\ Acceptable(x.run, x.draft)

Approved(x) ==
    x.step \in Publishing \ {"publish"} =>
        /\ Staged(rows[x.run])
        /\ current = ExpectedCurrent(x.run)
        /\ rows[x.run].error # "RUN_SUPERSEDED"

Replacing == {"attach", "attached", "recheck", "write"}

Saw(x) ==
    x.step \in Replacing =>
        /\ x.seen \in {NoText, rows[x.run].body, Allowed(x.run)}
        /\ x.step \in {"recheck", "write"} => x.seen # rows[x.run].body
        /\ x.seen # rows[x.run].body => \A r \in swallowed : ~Live(r)

Uncaptured(x) ==
    x.step \in Replacing \cup {"verify", "mark"} =>
        (x.run \in swallowed /\ Live(x.run) => rows[x.run].error # "OUTPUT_CONFLICT_CAPTURED")

Evident(x) ==
    x.step \in {"recheck", "write", "verify", "mark"} =>
        (rows[x.run].body \in Linked => attachments[rows[x.run].body] # "absent")

Knows(x) ==
    Based(x) /\ Settled(x) /\ Drafted(x) /\ Approved(x) /\ Saw(x) /\ Uncaptured(x) /\ Evident(x)

DateInv ==
    LockHeld /\ RowsInv /\ SwallowedStay /\ EvidenceInv /\ \A p \in Proc : Knows(proc[p])

---------------------------------------------------------------------------
(* A process that does not hold the lock knows nothing that could change.   *)

LEMMA QuietKnows ==
    ASSUME NEW x \in WellTyped, x.step \notin Locked, x.run = NoRun, ~x.own,
           x.code # "RUN_SUPERSEDED"
    PROVE  Knows(x)'
<1>1. Based(x)' /\ Settled(x)' /\ Drafted(x)'
  BY DEF Based, Settled, Drafted, Locked
<1>2. Approved(x)' /\ Saw(x)' /\ Uncaptured(x)' /\ Evident(x)'
  BY DEF Approved, Saw, Uncaptured, Evident, Replacing, Locked, Publishing
<1>. QED
  BY <1>1, <1>2 DEF Knows

LEMMA SameKnows ==
    ASSUME NEW x \in WellTyped, Knows(x), UNCHANGED <<db, files, swallowed>>
    PROVE  Knows(x)'
<1>1. Based(x)' /\ Settled(x)' /\ Drafted(x)'
  BY DEF Knows, Based, Settled, Drafted, Acceptable, BodyOf, db
<1>2. Approved(x)' /\ Saw(x)'
  BY DEF Knows, Approved, Saw, ExpectedCurrent, Allowed, Live, db
<1>3. Uncaptured(x)' /\ Evident(x)'
  BY DEF Knows, Uncaptured, Evident, Live, db, files
<1>. QED
  BY <1>1, <1>2, <1>3 DEF Knows

LEMMA KnowsAt ==
    ASSUME NEW q \in Proc, NEW y, y = proc'[q], Knows(y)'
    PROVE  Knows(proc[q])'
<1>1. Based(proc[q])'
  BY DEF Knows, Based
<1>2. Settled(proc[q])'
  BY DEF Knows, Settled
<1>3. Drafted(proc[q])'
  BY DEF Knows, Drafted, Acceptable
<1>4. Approved(proc[q])'
  BY DEF Knows, Approved, ExpectedCurrent
<1>5. Saw(proc[q])'
  BY DEF Knows, Saw, Allowed, Live
<1>6. Uncaptured(proc[q])'
  BY DEF Knows, Uncaptured, Live
<1>7. Evident(proc[q])'
  BY DEF Knows, Evident
<1>. QED
  BY <1>1, <1>2, <1>3, <1>4, <1>5, <1>6, <1>7 DEF Knows

LEMMA KnowsNow ==
    ASSUME TypeInv, DateInv, NEW p \in Proc, NEW x, x = proc[p]
    PROVE  x \in WellTyped /\ x \in Process /\ Knows(x)
<1>1. x \in WellTyped /\ x \in Process
  BY DEF TypeInv, WellTyped
<1>2. Knows(proc[p])
  BY DEF DateInv
<1>3. Based(x)
  BY <1>2 DEF Knows, Based
<1>4. Settled(x)
  BY <1>2 DEF Knows, Settled
<1>5. Drafted(x)
  BY <1>2 DEF Knows, Drafted, Acceptable
<1>6. Approved(x)
  BY <1>2 DEF Knows, Approved, ExpectedCurrent
<1>7. Saw(x)
  BY <1>2 DEF Knows, Saw, Allowed, Live
<1>8. Uncaptured(x)
  BY <1>2 DEF Knows, Uncaptured, Live
<1>9. Evident(x)
  BY <1>2 DEF Knows, Evident
<1>. QED
  BY <1>1, <1>3, <1>4, <1>5, <1>6, <1>7, <1>8, <1>9 DEF Knows

(* A step of p leaves the others where they are.                            *)
LEMMA OthersStay ==
    ASSUME TypeInv, NEW p \in Proc, NEW q \in Proc, q # p, Start(p) \/ Step(p) \/ Fault(p)
    PROVE  proc'[q] = proc[q]
<1>0. proc \in [Proc -> WellTyped]
  BY DEF TypeInv
<1>1. ASSUME NEW s, Goto(p, s)
      PROVE  proc'[q] = proc[q]
  BY <1>0, <1>1 DEF Goto
<1>2. Return(p) => proc'[q] = proc[q]
  BY <1>0 DEF Return
<1>3. ASSUME NEW code, Error(p, code)
      PROVE  proc'[q] = proc[q]
  BY <1>0, <1>2, <1>3 DEF Error
<1>4. ASSUME NEW code, Conflict(p, code)
      PROVE  proc'[q] = proc[q]
  BY <1>0, <1>4 DEF Conflict
<1>5. CASE Start(p)
  BY <1>0, <1>5 DEF Start, AcquireSession, OpenHistory
<1>6. CASE Fault(p)
  BY <1>2, <1>3, <1>6 DEF Fault, PublishIoError, Crash
<1>7. CASE RunStep(p)
  <2>1. CASE \/ OpenApp(p) \/ AcquireReportLock(p) \/ LockTimeout(p) \/ Recover(p)
             \/ OutOfRuns(p) \/ StartScan(p) \/ ScanFails(p) \/ FreezeInput(p) \/ FinishDryRun(p)
    BY <1>1, <1>2, <1>3, <2>1 DEF OpenApp, AcquireReportLock, LockTimeout, Recover, OutOfRuns,
                                 StartScan, ScanFails, FreezeInput, FinishDryRun
  <2>2. CASE UseExisting(p) \/ PublishPending(p) \/ ResumePending(p) \/ CreateRun(p)
    BY <1>0, <2>2 DEF UseExisting, PublishPending, ResumePending, CreateRun
  <2>. QED
    BY <1>7, <2>1, <2>2 DEF RunStep
<1>8. CASE FinishStep(p)
  <2>1. CASE FinishFails(p) \/ CompactAfterFinish(p) \/ RecordFailure(p) \/ CallModel(p)
    BY <1>2, <1>3, <2>1 DEF FinishFails, CompactAfterFinish, RecordFailure, CallModel
  <2>2. CASE (\E body \in Bodies : Compose(p, body)) \/ Stage(p) \/ SavePreview(p)
    BY <1>0, <1>3, <2>2 DEF Compose, Stage, SavePreview
  <2>3. CASE Repair(p) \/ \E r \in Runs : RepairById(p, r)
    BY <1>0, <1>2, <2>3 DEF Repair, RepairById
  <2>. QED
    BY <1>8, <2>1, <2>2, <2>3 DEF FinishStep
<1>9. CASE PublishStep(p)
  <2>1. CASE ReadTarget(p)
    BY <1>0, <1>3, <1>4, <2>1 DEF ReadTarget
  <2>2. CASE PublishAttachment(p) \/ VerifyAttachment(p)
    BY <1>1, <1>3, <2>2 DEF PublishAttachment, VerifyAttachment, AfterAttachment
  <2>3. CASE Recheck(p) \/ LinkTarget(p) \/ ReplaceTarget(p) \/ VerifyTarget(p)
    BY <1>1, <1>3, <1>4, <2>3 DEF Recheck, LinkTarget, ReplaceTarget, VerifyTarget
  <2>4. CASE Mark(p) \/ RecordCaptured(p) \/ WriteCopy(p)
    BY <1>1, <1>2, <1>3, <2>4 DEF Mark, AfterPublish, RecordCaptured, WriteCopy, AfterConflict
  <2>5. CASE CreateCopy(p)
    <3>1. copies[proc[p].run] \in {"absent", "saved", "differs"}
      BY <2>5 DEF TypeInv, TypeOK, CopyStates, CreateCopy, At, WellTyped, WithRun, Locked, Publishing
    <3>. QED
      BY <1>1, <1>3, <2>5, <3>1 DEF CreateCopy, AfterConflict
  <2>. QED
    BY <1>9, <2>1, <2>2, <2>3, <2>4, <2>5 DEF PublishStep
<1>. QED
  BY <1>5, <1>6, <1>7, <1>8, <1>9, StepIsOneOf

(* A step that changes the tables or the files is taken under the lock, or  *)
(* while nobody holds it.                                                   *)
LEMMA OthersSeeNothing ==
    ASSUME TypeInv, LockHeld, NEW p \in Proc, NEW q \in Proc, q # p, proc[q].step \in Locked,
           Start(p) \/ Step(p) \/ Fault(p)
    PROVE  UNCHANGED <<db, files, swallowed>> /\ reportLock' = reportLock
<1>. USE DEF At
<1>1. reportLock = q /\ reportLock # "free" /\ proc[p].step \notin Locked /\ reportLock # p
  BY ProcAssumption DEF LockHeld
<1>2. ~RunStep(p) \/ LockTimeout(p)
  BY <1>1 DEF RunStep, OpenApp, AcquireReportLock, Recover, UseExisting, PublishPending,
              ResumePending, CreateRun, OutOfRuns, StartScan, ScanFails, FreezeInput,
              FinishDryRun, Locked
<1>3. ~FinishStep(p)
  BY <1>1 DEF FinishStep, FinishFails, CallModel, Compose, Stage, SavePreview,
              CompactAfterFinish, RecordFailure, Repair, RepairById, Locked
<1>4. ~PublishStep(p)
  BY <1>1 DEF PublishStep, ReadTarget, PublishAttachment, VerifyAttachment, Recheck, LinkTarget,
              ReplaceTarget, VerifyTarget, Mark, CreateCopy, WriteCopy, RecordCaptured,
              Locked, Publishing
<1>5. CASE LockTimeout(p)
  BY <1>1, <1>5 DEF LockTimeout, Return
<1>6. CASE Start(p)
  BY <1>6 DEF Start, AcquireSession, OpenHistory, locks
<1>7. CASE Fault(p)
  BY <1>1, <1>7 DEF Fault, PublishIoError, Crash, Return, Locked
<1>. QED
  BY <1>2, <1>3, <1>4, <1>5, <1>6, <1>7, StepIsOneOf

---------------------------------------------------------------------------
(* The report lock.                                                         *)

LEMMA OwnLock ==
    ASSUME TypeInv, LockHeld, NEW p \in Proc, Start(p) \/ Step(p) \/ Fault(p)
    PROVE  proc'[p].step \in Locked => reportLock' = p
<1>. USE DEF At
<1>0. proc \in [Proc -> WellTyped] /\ proc[p] \in Process /\ Idle.step \notin Locked
  BY DEF TypeInv, WellTyped, Idle, Locked, Publishing
<1>1. ASSUME NEW s \in Steps, Goto(p, s)
      PROVE  proc'[p].step = s
  BY <1>0, <1>1 DEF Goto
<1>2. Return(p) => proc'[p].step \notin Locked
  BY <1>0 DEF Return
<1>3. ASSUME NEW code, Error(p, code), proc[p].step \in Locked
      PROVE  proc'[p].step \in Locked => reportLock' = p
  BY <1>0, <1>2, <1>3 DEF Error, locks, LockHeld
<1>4. ASSUME UNCHANGED locks, proc[p].step \in Locked
      PROVE  reportLock' = p
  BY <1>4 DEF locks, LockHeld
<1>5. CASE Start(p)
  BY <1>0, <1>5 DEF Start, AcquireSession, OpenHistory, Locked, Publishing, Process
<1>6. CASE Fault(p)
  <2>1. Publishing \subseteq Locked
    BY DEF Locked
  <2>. QED
    BY <1>2, <1>3, <1>6, <2>1 DEF Fault, PublishIoError, Crash
<1>7. CASE RunStep(p)
  <2>1. CASE OpenApp(p)
    BY <1>1, <2>1 DEF OpenApp, Steps, Locked, Publishing
  <2>2. CASE AcquireReportLock(p)
    BY <2>2 DEF AcquireReportLock
  <2>3. CASE LockTimeout(p) \/ OutOfRuns(p)
    BY <1>2, <2>3 DEF LockTimeout, OutOfRuns
  <2>4. CASE \/ Recover(p) \/ UseExisting(p) \/ PublishPending(p) \/ ResumePending(p)
             \/ CreateRun(p)
    BY <1>4, <2>4 DEF Recover, UseExisting, PublishPending, ResumePending, CreateRun, Locked
  <2>5. CASE StartScan(p) \/ ScanFails(p) \/ FreezeInput(p) \/ FinishDryRun(p)
    <3>1. proc[p].step \in Locked
      BY <2>5 DEF StartScan, ScanFails, FreezeInput, FinishDryRun, Locked
    <3>. QED
      BY <1>2, <1>3, <1>4, <2>5, <3>1 DEF StartScan, ScanFails, FreezeInput, FinishDryRun
  <2>. QED
    BY <1>7, <2>1, <2>2, <2>3, <2>4, <2>5 DEF RunStep
<1>8. CASE FinishStep(p)
  <2>1. proc[p].step \in Locked
    BY <1>8 DEF FinishStep, FinishFails, CallModel, Compose, Stage, SavePreview,
                CompactAfterFinish, RecordFailure, Repair, RepairById, Locked
  <2>. QED
    BY <1>2, <1>3, <1>4, <1>8, <2>1
       DEF FinishStep, FinishFails, CallModel, Compose, Stage, SavePreview,
           CompactAfterFinish, RecordFailure, Repair, RepairById
<1>9. CASE PublishStep(p)
  <2>1. proc[p].step \in Locked
    BY <1>9 DEF PublishStep, ReadTarget, PublishAttachment, VerifyAttachment, Recheck, LinkTarget,
                ReplaceTarget, VerifyTarget, Mark, CreateCopy, WriteCopy, RecordCaptured,
                Locked, Publishing
  <2>2. CASE ReadTarget(p) \/ PublishAttachment(p) \/ VerifyAttachment(p)
    BY <1>3, <1>4, <2>1, <2>2 DEF ReadTarget, PublishAttachment, VerifyAttachment
  <2>3. CASE Recheck(p) \/ LinkTarget(p) \/ ReplaceTarget(p) \/ VerifyTarget(p)
    BY <1>3, <1>4, <2>1, <2>3 DEF Recheck, LinkTarget, ReplaceTarget, VerifyTarget
  <2>4. CASE Mark(p) \/ RecordCaptured(p) \/ WriteCopy(p)
    BY <1>2, <1>3, <1>4, <2>1, <2>4 DEF Mark, AfterPublish, RecordCaptured, WriteCopy,
                                       AfterConflict
  <2>5. CASE CreateCopy(p)
    <3>1. copies[proc[p].run] \in {"absent", "saved", "differs"}
      BY <2>5 DEF TypeInv, TypeOK, CopyStates, CreateCopy, WellTyped, WithRun, Locked, Publishing
    <3>. QED
      BY <1>3, <1>4, <2>1, <2>5, <3>1 DEF CreateCopy, AfterConflict
  <2>. QED
    BY <1>9, <2>2, <2>3, <2>4, <2>5 DEF PublishStep
<1>. QED
  BY <1>5, <1>6, <1>7, <1>8, <1>9, StepIsOneOf

LEMMA LockNext ==
    ASSUME TypeInv, LockHeld, NEW p \in Proc, Start(p) \/ Step(p) \/ Fault(p)
    PROVE  LockHeld'
<1>. SUFFICES ASSUME NEW q \in Proc, proc'[q].step \in Locked
              PROVE  reportLock' = q
  BY DEF LockHeld
<1>1. CASE q = p
  BY <1>1, OwnLock
<1>2. CASE q # p
  BY <1>2, OthersStay, OthersSeeNothing DEF LockHeld
<1>. QED
  BY <1>1, <1>2

(* It is enough that the process which takes a step knows what it says.     *)
LEMMA KnowsNext ==
    ASSUME TypeInv, DateInv, NEW p \in Proc, Start(p) \/ Step(p) \/ Fault(p),
           NEW y, y = proc'[p], Knows(y)'
    PROVE  \A q \in Proc : Knows(proc[q])'
<1>. SUFFICES ASSUME NEW q \in Proc, q # p
              PROVE  Knows(proc[q])'
  BY KnowsAt
<1>1. PICK x : x = proc[q] /\ x \in WellTyped /\ x = proc'[q]
  BY OthersStay DEF TypeInv
<1>2. Knows(x) /\ LockHeld
  BY <1>1, KnowsNow DEF DateInv
<1>3. Knows(x)'
  <2>1. CASE x.step \in Locked
    BY <1>1, <1>2, <2>1, OthersSeeNothing, SameKnows
  <2>2. CASE x.step \notin Locked
    <3>1. x.run = NoRun /\ ~x.own /\ x.code # "RUN_SUPERSEDED"
      BY <1>2, <2>2 DEF Knows, Based, WithRun
    <3>. QED
      BY <1>1, <2>2, <3>1, QuietKnows
  <2>. QED
    BY <2>1, <2>2
<1>. QED
  BY <1>1, <1>3, KnowsAt

---------------------------------------------------------------------------
(* The rows.  What a process does to its run, and why it may.               *)

Working(r) ==
    /\ rows[r].error # "RUN_SUPERSEDED"
    /\ \/ CanScan(rows[r]) /\ rows' = SetScanning(rows, r)
       \/ CanPrepare(rows[r]) /\ rows' = Prepare(rows, r)
       \/ CanReserveCall(rows[r]) /\ rows' = ReserveCall(rows, r)
       \/ CanResume(rows[r]) /\ rows' = Resume(rows, r)
       \/ \E code \in Errors \ {"RUN_SUPERSEDED"} : rows' = Fail(rows, r, code)
       \/ /\ CanStage(rows[r])
          /\ \E body \in Bodies :
                Acceptable(r, body) /\ rows' = StageReport(rows, r, body, current)
       \/ /\ CanFinishPreview(rows[r])
          /\ \E body \in Bodies : rows' = FinishPreview(rows, r, body)
       \/ CanFinishScan(rows[r]) /\ rows' = FinishScanPreview(rows, r)

TablesStep ==
    /\ UNCHANGED <<file, backups, attachments, swallowed>>
    /\ \/ (\E r \in Runs : Working(r)) /\ UNCHANGED <<current, created>>
       \/ Maintenance /\ UNCHANGED <<current, created>>
       \/ Creation
       \/ \E r \in Runs :
             /\ Publishes(r)
             /\ r \in swallowed => rows[r].error # "OUTPUT_CONFLICT_CAPTURED"

DateStep == UNCHANGED db \/ TablesStep

LEMMA DateSteps ==
    ASSUME TypeInv, DateInv, NEW p \in Proc, Start(p) \/ Step(p) \/ Fault(p)
    PROVE  DateStep
<1>. USE DEF At
<1>0. PICK x : /\ x = proc[p] /\ x \in Process /\ Knows(x)
               /\ x.step \in WithRun => x.run \in Runs
  BY DEF TypeInv, WellTyped, DateInv, Knows, Based, Settled, Drafted, Acceptable, Approved,
         ExpectedCurrent, Saw, Allowed, Live, Uncaptured, Evident
<1>a. \A r \in Runs : rows[r].status = "running" => rows[r].error # "RUN_SUPERSEDED"
  BY DEF DateInv, RowsInv, SupersededAreOver
<1>b. UNCHANGED files => UNCHANGED <<file, backups, attachments>>
  BY DEF files
<1>1. CASE Start(p) \/ Fault(p)
  BY <1>1 DEF Start, Fault, AcquireSession, OpenHistory, PublishIoError, Crash, DateStep
<1>2. CASE RunStep(p)
  <2>1. CASE OpenApp(p) \/ Recover(p)
    BY <1>b, <2>1 DEF OpenApp, Recover, DateStep, TablesStep, Maintenance
  <2>2. CASE \/ AcquireReportLock(p) \/ LockTimeout(p) \/ UseExisting(p) \/ PublishPending(p)
             \/ OutOfRuns(p) \/ ScanFails(p)
    BY <2>2 DEF AcquireReportLock, LockTimeout, UseExisting, PublishPending, OutOfRuns, ScanFails,
                DateStep
  <2>3. CASE ResumePending(p)
    <3>1. PICK r \in Runs : CanResume(rows[r]) /\ rows' = Resume(rows, r)
      BY <2>3 DEF ResumePending, First, PersonalPending, Pending
    <3>2. Working(r)
      BY <3>1 DEF Working, CanResume
    <3>. QED
      BY <1>b, <2>3, <3>2 DEF ResumePending, DateStep, TablesStep
  <2>4. CASE CreateRun(p)
    <3>1. created + 1 \in Runs
      BY <2>4, MaxRunsAssumption DEF CreateRun, TypeInv, TypeOK, Runs
    <3>. QED
      BY <1>b, <2>4, <3>1 DEF CreateRun, DateStep, TablesStep, Creation, Kinds
  <2>5. CASE StartScan(p)
    <3>1. x.run \in Runs
      BY <1>0, <2>5 DEF StartScan, WithRun, Locked
    <3>2. UNCHANGED db \/ (Working(x.run) /\ UNCHANGED <<current, created>>)
      BY <1>0, <1>a, <2>5, <3>1 DEF StartScan, db, Working, CanScan
    <3>. QED
      BY <1>b, <2>5, <3>1, <3>2 DEF StartScan, DateStep, TablesStep
  <2>6. CASE FreezeInput(p)
    <3>1. x.run \in Runs
      BY <1>0, <2>6 DEF FreezeInput, WithRun, Locked
    <3>2. UNCHANGED db \/ (Working(x.run) /\ UNCHANGED <<current, created>>)
      BY <1>0, <1>a, <2>6, <3>1 DEF FreezeInput, db, Working, CanPrepare
    <3>. QED
      BY <1>b, <2>6, <3>1, <3>2 DEF FreezeInput, DateStep, TablesStep
  <2>7. CASE FinishDryRun(p)
    <3>1. x.run \in Runs
      BY <1>0, <2>7 DEF FinishDryRun, WithRun, Locked
    <3>2. UNCHANGED db \/ (Working(x.run) /\ UNCHANGED <<current, created>>)
      BY <1>0, <1>a, <2>7, <3>1 DEF FinishDryRun, db, Working, CanFinishScan
    <3>. QED
      BY <1>b, <2>7, <3>1, <3>2 DEF FinishDryRun, DateStep, TablesStep
  <2>. QED
    BY <1>2, <2>1, <2>2, <2>3, <2>4, <2>5, <2>6, <2>7 DEF RunStep
<1>3. CASE FinishStep(p)
  <2>1. CASE \/ FinishFails(p) \/ Repair(p)
             \/ (\E body \in Bodies : Compose(p, body))
             \/ (\E r \in Runs : RepairById(p, r))
    BY <2>1 DEF FinishFails, Repair, Compose, RepairById, DateStep
  <2>2. CASE CallModel(p)
    <3>1. x.run \in Runs
      BY <1>0, <2>2 DEF CallModel, WithRun, Locked
    <3>2. Working(x.run)
      BY <1>0, <1>a, <2>2, <3>1 DEF CallModel, Working, CanReserveCall
    <3>. QED
      BY <1>b, <2>2, <3>1, <3>2 DEF CallModel, DateStep, TablesStep
  <2>3. CASE Stage(p)
    <3>1. x.run \in Runs /\ x.draft \in Bodies /\ Acceptable(x.run, x.draft)
      BY <1>0, <2>3 DEF Stage, WithRun, Locked, Knows, Drafted
    <3>2. UNCHANGED db \/ (Working(x.run) /\ UNCHANGED <<current, created>>)
      <4>1. CASE CanStage(rows[x.run])
        <5>1. rows' = StageReport(rows, x.run, x.draft, current) /\ UNCHANGED <<current, created>>
          BY <1>0, <2>3, <4>1 DEF Stage
        <5>2. rows[x.run].error # "RUN_SUPERSEDED"
          BY <1>a, <3>1, <4>1 DEF CanStage
        <5>. QED
          BY <3>1, <4>1, <5>1, <5>2 DEF Working
      <4>2. CASE ~CanStage(rows[x.run])
        BY <1>0, <2>3, <4>2 DEF Stage, db
      <4>. QED
        BY <4>1, <4>2
    <3>. QED
      BY <1>b, <2>3, <3>1, <3>2 DEF Stage, DateStep, TablesStep
  <2>4. CASE SavePreview(p)
    <3>1. x.run \in Runs /\ x.draft \in Bodies
      BY <1>0, <2>4 DEF SavePreview, WithRun, Locked, Knows, Drafted
    <3>2. UNCHANGED db \/ (Working(x.run) /\ UNCHANGED <<current, created>>)
      <4>1. CASE CanFinishPreview(rows[x.run])
        <5>1. rows' = FinishPreview(rows, x.run, x.draft) /\ UNCHANGED <<current, created>>
          BY <1>0, <2>4, <4>1 DEF SavePreview
        <5>2. rows[x.run].error # "RUN_SUPERSEDED"
          BY <1>a, <3>1, <4>1 DEF CanFinishPreview
        <5>. QED
          BY <3>1, <4>1, <5>1, <5>2 DEF Working
      <4>2. CASE ~CanFinishPreview(rows[x.run])
        BY <1>0, <2>4, <4>2 DEF SavePreview, db
      <4>. QED
        BY <4>1, <4>2
    <3>. QED
      BY <1>b, <2>4, <3>1, <3>2 DEF SavePreview, DateStep, TablesStep
  <2>5. CASE CompactAfterFinish(p)
    BY <1>b, <2>5 DEF CompactAfterFinish, DateStep, TablesStep, Maintenance, db
  <2>6. CASE RecordFailure(p)
    <3>1. /\ x.run \in Runs /\ x.code \in Errors \ {"RUN_SUPERSEDED"}
          /\ rows[x.run].error # "RUN_SUPERSEDED"
      BY <1>0, <2>6 DEF RecordFailure, WithRun, Locked, Knows, Based, Process
    <3>2. Working(x.run)
      BY <1>0, <2>6, <3>1 DEF RecordFailure, Working
    <3>. QED
      BY <1>b, <2>6, <3>1, <3>2 DEF RecordFailure, DateStep, TablesStep
  <2>. QED
    BY <1>3, <2>1, <2>2, <2>3, <2>4, <2>5, <2>6 DEF FinishStep
<1>4. CASE PublishStep(p)
  <2>1. CASE \/ ReadTarget(p) \/ PublishAttachment(p) \/ VerifyAttachment(p) \/ Recheck(p)
             \/ LinkTarget(p) \/ ReplaceTarget(p) \/ VerifyTarget(p) \/ CreateCopy(p)
             \/ WriteCopy(p)
    BY <2>1 DEF ReadTarget, PublishAttachment, VerifyAttachment, Recheck, LinkTarget,
                ReplaceTarget, VerifyTarget, CreateCopy, WriteCopy, DateStep
  <2>2. CASE Mark(p)
    <3>1. x.run \in Runs /\ x.step = "mark"
      BY <1>0, <2>2 DEF Mark, WithRun, Locked, Publishing
    <3>2. UNCHANGED db \/ Publishes(x.run)
      BY <1>0, <2>2 DEF Mark, Body, Publishes, db
    <3>3. Publishes(x.run) =>
              (x.run \in swallowed => rows[x.run].error # "OUTPUT_CONFLICT_CAPTURED")
      BY <1>0, <3>1 DEF Publishes, CanMark, Knows, Uncaptured, Live
    <3>. QED
      BY <1>b, <2>2, <3>1, <3>2, <3>3 DEF Mark, DateStep, TablesStep
  <2>3. CASE RecordCaptured(p)
    <3>1. /\ x.run \in Runs /\ "OUTPUT_CONFLICT_CAPTURED" \in Errors \ {"RUN_SUPERSEDED"}
          /\ rows[x.run].error # "RUN_SUPERSEDED"
      BY <1>0, <2>3 DEF RecordCaptured, WithRun, Locked, Publishing, Knows, Approved, Errors
    <3>2. Working(x.run)
      BY <1>0, <2>3, <3>1 DEF RecordCaptured, Working
    <3>. QED
      BY <1>b, <2>3, <3>1, <3>2 DEF RecordCaptured, DateStep, TablesStep
  <2>. QED
    BY <1>4, <2>1, <2>2, <2>3 DEF PublishStep
<1>. QED
  BY <1>1, <1>2, <1>3, <1>4, StepIsOneOf

(* What a step that does not publish makes of row x: y, where c is the      *)
(* current version and text its body.                                       *)
SameRow(x, y) ==
    /\ y.phase = x.phase /\ y.status = x.status /\ y.error = x.error
    /\ y.body = x.body /\ y.previous = x.previous /\ y.previousBody = x.previousBody

Advances(x, y, c, text) ==
    /\ x.phase \notin {"absent", "published"} /\ x.error # "RUN_SUPERSEDED"
    /\ y.phase \notin {"absent", "published"} /\ y.error # "RUN_SUPERSEDED"
    /\ y.phase = "preview" => y.status = "succeeded"
    /\ x.phase = "db_committed" => y.phase = "db_committed"
    /\ y.phase = "db_committed" =>
          \/ /\ x.phase = "db_committed"
             /\ y.body = x.body /\ y.previous = x.previous /\ y.previousBody = x.previousBody
          \/ /\ x.phase # "db_committed"
             /\ y.body \in Bodies /\ y.previous = c /\ y.previousBody = text
             /\ text \in Full => y.body \in Full

Evolves(r) ==
    \/ rows'[r].phase = "absent" /\ rows'[r].error = "none" /\ r # current
    \/ SameRow(rows[r], rows'[r])
    \/ Advances(rows[r], rows'[r], current, BodyOf(rows, current))

LEMMA WorkingEvolves ==
    ASSUME TypeInv, HistoryInv, RowsInv, NEW s \in Runs, Working(s), NEW r \in Runs
    PROVE  Evolves(r)
<1>0. rows \in [Runs -> Row] /\ rows[r] \in Row
  BY DEF TypeInv, TypeOK
<1>a. /\ rows[r].phase \in {"published", "preview"} => rows[r].status = "succeeded"
      /\ rows[r].kind = "preview" => rows[r].phase \notin {"db_committed", "published", "absent"}
  BY DEF RowsInv, FinishedAreSettled, HistoryInv, PreviewsStayPreviews
<1>1. CASE s # r
  <2>1. rows'[r] = rows[r]
    BY <1>0, <1>1 DEF Working, SetScanning, Prepare, ReserveCall, Resume, Fail, StageReport,
                      FinishPreview, FinishScanPreview
  <2>. QED
    BY <2>1 DEF Evolves, SameRow
<1>2. CASE s = r
  <2>0. rows[r].error # "RUN_SUPERSEDED"
    BY <1>2 DEF Working
  <2>1. CASE CanScan(rows[r]) /\ rows' = SetScanning(rows, r)
    BY <1>0, <2>0, <2>1 DEF CanScan, SetScanning, Evolves, Advances, Row
  <2>2. CASE CanPrepare(rows[r]) /\ rows' = Prepare(rows, r)
    BY <1>0, <2>0, <2>2 DEF CanPrepare, Prepare, Evolves, Advances, Row
  <2>3. CASE CanReserveCall(rows[r]) /\ rows' = ReserveCall(rows, r)
    BY <1>0, <2>0, <2>3 DEF CanReserveCall, ReserveCall, Evolves, Advances, Row
  <2>4. CASE CanResume(rows[r]) /\ rows' = Resume(rows, r)
    BY <1>0, <1>a, <2>0, <2>4 DEF CanResume, Resumable, Resume, Evolves, Advances, Row
  <2>5. ASSUME NEW code \in Errors \ {"RUN_SUPERSEDED"}, rows' = Fail(rows, r, code)
        PROVE  Evolves(r)
    BY <1>0, <1>a, <2>0, <2>5 DEF Fail, Evolves, SameRow, Advances, Row
  <2>6. ASSUME CanStage(rows[r]), NEW body \in Bodies, Acceptable(r, body),
               rows' = StageReport(rows, r, body, current)
        PROVE  Evolves(r)
    <3>1. /\ rows[r].phase \notin {"absent", "published", "db_committed"}
          /\ rows'[r].phase = "db_committed" /\ rows'[r].error = rows[r].error
          /\ rows'[r].body = body /\ rows'[r].previous = current
          /\ rows'[r].previousBody = BodyOf(rows, current)
      BY <1>0, <2>6 DEF CanStage, StageReport, Row
    <3>2. current # r
      BY <3>1 DEF HistoryInv, PointerIsLast, Runs, NoRun
    <3>3. BodyOf(rows, current) \in Full => body \in Full
      BY <2>6, <3>2 DEF Acceptable
    <3>. QED
      BY <2>0, <2>6, <3>1, <3>3 DEF Evolves, Advances
  <2>7. ASSUME CanFinishPreview(rows[r]), NEW body \in Bodies,
               rows' = FinishPreview(rows, r, body)
        PROVE  Evolves(r)
    BY <1>0, <1>a, <2>0, <2>7 DEF CanFinishPreview, FinishPreview, Evolves, Advances, Row
  <2>8. CASE CanFinishScan(rows[r]) /\ rows' = FinishScanPreview(rows, r)
    BY <1>0, <2>0, <2>8 DEF CanFinishScan, FinishScanPreview, Evolves, Advances, Row
  <2>. QED
    BY <1>2, <2>1, <2>2, <2>3, <2>4, <2>5, <2>6, <2>7, <2>8 DEF Working
<1>. QED
  BY <1>1, <1>2

LEMMA MaintenanceEvolves ==
    ASSUME TypeInv, HistoryInv, RowsInv, Maintenance, NEW r \in Runs
    PROVE  Evolves(r)
<1>0. rows[r] \in Row
  BY DEF TypeInv, TypeOK
<1>a. /\ rows[r].phase \in {"published", "preview"} => rows[r].status = "succeeded"
      /\ rows[r].error = "RUN_SUPERSEDED" => rows[r].status = "cancelled"
  BY DEF RowsInv, FinishedAreSettled, SupersededAreOver
<1>1. CASE rows' = RecoverInterrupted(rows)
  BY <1>0, <1>a, <1>1 DEF RecoverInterrupted, Interrupted, Evolves, SameRow, Advances, Row
<1>2. ASSUME NEW stop \in 0 .. MaxRuns, NEW heavy \in Heavy, Compact(stop, heavy)
      PROVE  Evolves(r)
  <2>. DEFINE x == rows[r]
              w == age[r] >= 1
              kept == IF w THEN CompactInput(x) ELSE x
  <2>1. CASE rows'[r] = x
    BY <2>1 DEF Evolves, SameRow
  <2>2. CASE rows'[r] # x
    <3>0. x \in Row /\ x.phase # "absent"
      BY <1>0, <1>2, <2>2 DEF Compact, CompactPersonal
    <3>1. /\ kept \in Row
          /\ \/ SameRow(x, kept)
             \/ Advances(x, kept, current, BodyOf(rows, current))
      <4>1. /\ CompactInput(x) \in Row
            /\ \/ SameRow(x, CompactInput(x))
               \/ Advances(x, CompactInput(x), current, BodyOf(rows, current))
        BY <1>a, <3>0, CompactInputType DEF CompactInput, SameRow, Advances, Row
      <4>. QED
        BY <3>0, <4>1 DEF SameRow
    <3>. HIDE DEF kept
    <3>2. \/ rows'[r] = kept
          \/ r = current /\ rows'[r] = [kept EXCEPT !.input = FALSE]
          \/ r # current /\ rows'[r] = NoRow
      BY <1>2, <2>2 DEF Compact, CompactPersonal, CompactRow, kept
    <3>3. CASE rows'[r] = kept
      BY <3>1, <3>3 DEF Evolves
    <3>4. CASE rows'[r] = [kept EXCEPT !.input = FALSE]
      <4>1. SameRow(kept, rows'[r])
        BY <3>1, <3>4 DEF SameRow, Row
      <4>. QED
        BY <3>1, <4>1 DEF Evolves, SameRow, Advances
    <3>5. CASE r # current /\ rows'[r] = NoRow
      BY <3>5 DEF Evolves, NoRow
    <3>. QED
      BY <3>2, <3>3, <3>4, <3>5
  <2>. QED
    BY <2>1, <2>2
<1>. QED
  BY <1>1, <1>2 DEF Maintenance

(* The version the pointer names, and the text under it, stay.              *)
LEMMA EvolvedText ==
    ASSUME TypeInv, HistoryInv, current' = current, \A r \in Runs : Evolves(r)
    PROVE  BodyOf(rows, current)' = BodyOf(rows, current)
<1>1. CASE current = NoRun
  BY <1>1 DEF BodyOf
<1>2. CASE current # NoRun
  <2>1. current \in Runs /\ rows[current].phase = "published"
    BY <1>2 DEF TypeInv, TypeOK, HistoryInv, PointerIsLast
  <2>2. rows'[current].body = rows[current].body
    BY <2>1 DEF Evolves, SameRow, Advances
  <2>. QED
    BY <2>2 DEF BodyOf
<1>. QED
  BY <1>1, <1>2

LEMMA EvolvedRows ==
    ASSUME TypeInv, HistoryInv, RowsInv, SwallowedStay, \A r \in Runs : Evolves(r),
           UNCHANGED <<current, created, file, swallowed>>
    PROVE  RowsInv' /\ SwallowedStay'
<1>0. BodyOf(rows, current)' = BodyOf(rows, current)
  BY EvolvedText
<1>1. FinishedAreSettled'
  BY DEF RowsInv, FinishedAreSettled, Evolves, SameRow, Advances
<1>2. StagedHaveBodies'
  BY DEF RowsInv, StagedHaveBodies, Staged, Evolves, SameRow, Advances
<1>3. LiveKnowThePublished'
  <2>1. ASSUME NEW r \in Runs, Live(r)'
        PROVE  rows'[r].previousBody = BodyOf(rows, current)
    BY <2>1 DEF RowsInv, LiveKnowThePublished, Live, Evolves, SameRow, Advances
  <2>. QED
    BY <1>0, <2>1 DEF LiveKnowThePublished
<1>4. SupersededAreOver'
  BY DEF RowsInv, SupersededAreOver, Live, Evolves, SameRow, Advances
<1>5. ItemsNeverLost'
  BY DEF RowsInv, ItemsNeverLost, Staged, Evolves, SameRow, Advances
<1>6. SwallowedStay'
  <2>. SUFFICES ASSUME NEW r \in swallowed
                PROVE  /\ r <= created
                       /\ rows'[r].phase \in {"db_committed", "published", "absent"}
                       /\ Live(r)' => file = rows'[r].body /\ rows'[r].body # rows'[r].previousBody
    BY DEF SwallowedStay, Live
  <2>1. r \in Runs
    BY DEF TypeInv, TypeOK
  <2>. QED
    BY <2>1 DEF SwallowedStay, Live, Evolves, SameRow, Advances
<1>. QED
  BY <1>1, <1>2, <1>3, <1>4, <1>5, <1>6 DEF RowsInv

LEMMA CreationRows ==
    ASSUME TypeInv, HistoryInv, RowsInv, SwallowedStay, Creation, UNCHANGED <<file, swallowed>>
    PROVE  RowsInv' /\ SwallowedStay'
<1>. DEFINE n == created + 1
<1>0. /\ rows \in [Runs -> Row] /\ created \in Nat /\ n \in Runs /\ n > created
      /\ current' = current /\ created' = n
      /\ swallowed \subseteq Runs
      /\ \A r \in Runs : r \in Nat
  BY MaxRunsAssumption DEF TypeInv, TypeOK, Creation, Runs
<1>1. PICK kind \in Kinds, regen \in BOOLEAN : rows' = [rows EXCEPT ![n] = NewRow(kind, regen)]
  BY DEF Creation
<1>2. /\ rows'[n].phase = "created" /\ rows'[n].error = "none"
      /\ \A r \in Runs : r # n => rows'[r] = rows[r]
  BY <1>0, <1>1 DEF NewRow, NoRow
<1>3. current # n /\ current <= created
  <2>1. current \in Nat
    BY <1>0 DEF TypeInv, TypeOK, NoRun
  <2>. QED
    BY <1>0, <2>1 DEF HistoryInv, CreatedOnly
<1>4. BodyOf(rows, current)' = BodyOf(rows, current)
  BY <1>0, <1>2, <1>3 DEF BodyOf, TypeInv, TypeOK
<1>. HIDE DEF n
<1>5. FinishedAreSettled' /\ StagedHaveBodies' /\ ItemsNeverLost'
  BY <1>2 DEF RowsInv, FinishedAreSettled, StagedHaveBodies, ItemsNeverLost, Staged
<1>6. LiveKnowThePublished' /\ SupersededAreOver'
  BY <1>0, <1>2, <1>4 DEF RowsInv, LiveKnowThePublished, SupersededAreOver, Live
<1>7. SwallowedStay'
  <2>. SUFFICES ASSUME NEW r \in swallowed
                PROVE  /\ r <= n
                       /\ rows'[r].phase \in {"db_committed", "published", "absent"}
                       /\ Live(r)' => file = rows'[r].body /\ rows'[r].body # rows'[r].previousBody
    BY <1>0 DEF SwallowedStay, Live
  <2>1. r \in Runs /\ r <= created /\ r <= n /\ r # n
    BY <1>0 DEF SwallowedStay, n
  <2>. QED
    BY <1>0, <1>2, <2>1 DEF SwallowedStay, Live
<1>. QED
  BY <1>5, <1>6, <1>7 DEF RowsInv

(* The run r becomes the current version.                                   *)
LEMMA PublishedRow ==
    ASSUME TypeInv, HistoryInv, RowsInv, NEW r \in Runs, Publishes(r)
    PROVE  /\ Live(r) /\ r # current /\ rows[r].error # "RUN_SUPERSEDED"
           /\ rows'[r].phase = "published" /\ rows'[r].status = "succeeded"
           /\ rows'[r].error = "none" /\ rows'[r].body = rows[r].body
           /\ rows'[r].previousBody = rows[r].previousBody
           /\ current' = r /\ created' = created
           /\ \A s \in Runs : s # r =>
                 \/ rows'[s] = rows[s]
                 \/ /\ rows[s].phase \in Resumable /\ rows'[s].status = "cancelled"
                    /\ rows'[s].error = "RUN_SUPERSEDED"
                    /\ rows'[s].phase = rows[s].phase /\ rows'[s].body = rows[s].body
                    /\ rows'[s].previous = rows[s].previous
                    /\ rows'[s].previousBody = rows[s].previousBody
           /\ \A s \in Runs : rows[s].previous # r
<1>0. rows \in [Runs -> Row]
  BY DEF TypeInv, TypeOK
<1>1. Live(r) /\ current' = r /\ created' = created
  BY DEF Publishes, CanMark, Live
<1>2. r # current /\ rows[r].error # "RUN_SUPERSEDED"
  BY <1>1 DEF Live, HistoryInv, PointerIsLast, RowsInv, SupersededAreOver, Runs, NoRun
<1>3. /\ rows'[r].phase = "published" /\ rows'[r].status = "succeeded"
      /\ rows'[r].error = "none" /\ rows'[r].body = rows[r].body
      /\ rows'[r].previousBody = rows[r].previousBody
  BY <1>0 DEF Publishes, MarkPublished, Row
<1>4. ASSUME NEW s \in Runs, s # r
      PROVE  \/ rows'[s] = rows[s]
             \/ /\ rows[s].phase \in Resumable /\ rows'[s].status = "cancelled"
                /\ rows'[s].error = "RUN_SUPERSEDED"
                /\ rows'[s].phase = rows[s].phase /\ rows'[s].body = rows[s].body
                /\ rows'[s].previous = rows[s].previous
                /\ rows'[s].previousBody = rows[s].previousBody
  BY <1>0, <1>4 DEF Publishes, MarkPublished, SupersededBy, Row
<1>5. ASSUME NEW s \in Runs
      PROVE  rows[s].previous # r
  BY <1>1 DEF HistoryInv, Predecessors, Live, Runs, NoRun
<1>. QED
  BY <1>1, <1>2, <1>3, <1>4, <1>5

LEMMA PublishesRows ==
    ASSUME TypeInv, HistoryInv, RowsInv, SwallowedStay, NEW r \in Runs, Publishes(r),
           UNCHANGED <<file, swallowed>>
    PROVE  RowsInv' /\ SwallowedStay'
<1>0. swallowed \subseteq Runs /\ NoRun \notin Runs
  BY DEF TypeInv, TypeOK, Runs, NoRun
<1>a. \A s \in Runs : ~Live(s)'
  BY PublishedRow DEF Live
<1>1. FinishedAreSettled'
  BY PublishedRow DEF RowsInv, FinishedAreSettled, Resumable
<1>2. StagedHaveBodies'
  BY PublishedRow DEF RowsInv, StagedHaveBodies, Staged, Live
<1>3. LiveKnowThePublished'
  BY <1>a DEF LiveKnowThePublished
<1>4. SupersededAreOver'
  BY <1>a, PublishedRow DEF RowsInv, SupersededAreOver
<1>5. ItemsNeverLost'
  BY PublishedRow DEF RowsInv, ItemsNeverLost, Staged, Live
<1>6. SwallowedStay'
  BY <1>0, <1>a, PublishedRow DEF SwallowedStay, Live
<1>. QED
  BY <1>1, <1>2, <1>3, <1>4, <1>5, <1>6 DEF RowsInv

LEMMA TablesNext ==
    ASSUME TypeInv, HistoryInv, DateInv, TablesStep
    PROVE  RowsInv' /\ SwallowedStay'
<1>0. RowsInv /\ SwallowedStay /\ UNCHANGED <<file, swallowed>>
  BY DEF DateInv, TablesStep
<1>1. ASSUME NEW r \in Runs, Working(r), UNCHANGED <<current, created>>
      PROVE  RowsInv' /\ SwallowedStay'
  BY <1>0, <1>1, WorkingEvolves, EvolvedRows
<1>2. CASE Maintenance /\ UNCHANGED <<current, created>>
  BY <1>0, <1>2, MaintenanceEvolves, EvolvedRows
<1>3. CASE Creation
  BY <1>0, <1>3, CreationRows
<1>4. ASSUME NEW r \in Runs, Publishes(r)
      PROVE  RowsInv' /\ SwallowedStay'
  BY <1>0, <1>4, PublishesRows
<1>. QED
  BY <1>1, <1>2, <1>3, <1>4 DEF TablesStep

---------------------------------------------------------------------------
(* What the process that takes a step knows afterwards.                     *)

LEMMA ReturnKnows ==
    ASSUME TypeInv, NEW p \in Proc, Return(p), NEW y, y = proc'[p]
    PROVE  Knows(y)'
<1>1. y = Idle
  BY DEF TypeInv, Return
<1>2. y \in WellTyped /\ y.step \notin Locked /\ y.run = NoRun /\ ~y.own
      /\ y.code # "RUN_SUPERSEDED"
  BY <1>1, IdleType DEF Idle, Locked, Publishing
<1>. QED
  BY <1>2, QuietKnows

(* It goes on with its run, or takes one.                                   *)
LEMMA MoveKnows ==
    ASSUME NEW x \in Process, NEW y \in Process, Knows(x),
           x.step \in Locked, x.step # "recover", y.step \in WithRun,
           y.step \notin Publishing \ {"publish"}, y.step # "commit",
           y.run = x.run \/ x.run = NoRun, y.cmd = x.cmd,
           y.code # "RUN_SUPERSEDED", y.step = "failing" => y.own,
           y.own => rows'[y.run].error # "RUN_SUPERSEDED",
           \A r \in Runs : r # y.run => rows'[r] = rows[r] \/ rows'[r].status # "running"
    PROVE  Knows(y)'
<1>1. Based(y)'
  BY DEF Based
<1>2. Settled(y)'
  <2>. SUFFICES ASSUME y.cmd \in Generating, NEW r \in Runs \ {y.run},
                       rows'[r].personal, rows'[r].status = "running"
                PROVE  rows'[r].kind = "report" /\ rows'[r].phase \in Resumable
    BY DEF Settled
  <2>1. rows'[r] = rows[r] /\ r # x.run
    BY DEF Runs, NoRun
  <2>. QED
    BY <2>1 DEF Knows, Settled
<1>3. Drafted(y)' /\ Approved(y)' /\ Saw(y)' /\ Uncaptured(y)' /\ Evident(y)'
  BY DEF Drafted, Approved, Saw, Uncaptured, Evident, Replacing, Publishing
<1>. QED
  BY <1>1, <1>2, <1>3 DEF Knows

LEMMA ErrorKnows ==
    ASSUME TypeInv, NEW p \in Proc, NEW x, x = proc[p], Knows(x), x.step \in WithRun,
           NEW code \in Errors \ {"RUN_SUPERSEDED"}, Error(p, code),
           rows'[x.run].error = "RUN_SUPERSEDED" => rows[x.run].error = "RUN_SUPERSEDED",
           \A r \in Runs : r # x.run => rows'[r] = rows[r],
           NEW y, y = proc'[p]
    PROVE  Knows(y)'
<1>0. x \in Process /\ x.step \in Locked /\ x.step # "recover"
  BY DEF TypeInv, WellTyped, WithRun
<1>1. CASE x.own
  <2>1. y = [x EXCEPT !.step = "failing", !.code = code, !.draft = NoText, !.seen = NoText]
    BY <1>1 DEF Error, TypeInv, WellTyped, Process
  <2>2. /\ y \in Process /\ y.step = "failing" /\ y.run = x.run /\ y.cmd = x.cmd
        /\ y.code = code /\ (y.own <=> x.own)
    BY <1>0, <2>1 DEF Process, Steps, Locked
  <2>3. y.step \in WithRun /\ y.step \notin Publishing \ {"publish"} /\ y.step # "commit"
    BY <2>2 DEF WithRun, Locked, Publishing
  <2>4. rows'[y.run].error # "RUN_SUPERSEDED"
    BY <1>1, <2>2 DEF Knows, Based
  <2>. QED
    BY <1>0, <1>1, <2>2, <2>3, <2>4, MoveKnows
<1>2. CASE ~x.own
  BY <1>2, ReturnKnows DEF Error
<1>. QED
  BY <1>1, <1>2

(* Steps of publish() that leave the tables alone.                          *)
LEMMA PublishingKnows ==
    ASSUME NEW x \in Process, NEW y \in Process, Knows(x), UNCHANGED db,
           x.step \in Publishing, y.step \in Publishing, y.run = x.run, y.cmd = x.cmd,
           y.own <=> x.own, y.code # "RUN_SUPERSEDED"
    PROVE  /\ Based(y)' /\ Settled(y)' /\ Drafted(y)'
           /\ x.step # "publish" => Approved(y)'
<1>1. Based(y)'
  BY DEF Knows, Based, WithRun, Locked, Publishing, db
<1>2. Settled(y)'
  BY DEF Knows, Settled, Locked, Publishing, db
<1>3. Drafted(y)'
  BY DEF Drafted, Publishing
<1>4. x.step # "publish" => Approved(y)'
  BY DEF Knows, Approved, ExpectedCurrent, Staged, db
<1>. QED
  BY <1>1, <1>2, <1>3, <1>4

(* The parts of publish() that do not read the target.                      *)
LEMMA ConflictKnows ==
    ASSUME TypeInv, NEW p \in Proc, NEW x, x = proc[p], Knows(x), UNCHANGED db,
           x.step \in Publishing, x.step # "publish",
           NEW y \in Process, y.step \in {"conflict", "copying", "captured"}, y.run = x.run,
           y.cmd = x.cmd, y.own <=> x.own, y.code # "RUN_SUPERSEDED"
    PROVE  Knows(y)'
<1>1. x \in Process /\ y.step \in Publishing
  BY DEF TypeInv, WellTyped, Publishing
<1>2. Saw(y)' /\ Uncaptured(y)' /\ Evident(y)'
  BY DEF Saw, Uncaptured, Evident, Replacing
<1>. QED
  BY <1>1, <1>2, PublishingKnows DEF Knows

LEMMA StartKnows ==
    ASSUME TypeInv, TypeInv', DateInv, NEW p \in Proc, Start(p), NEW y, y = proc'[p]
    PROVE  Knows(y)'
<1>1. PICK x : x = proc[p] /\ x \in Process /\ Knows(x) /\ x.step = "idle"
  BY KnowsNow DEF Start, AcquireSession, OpenHistory, At
<1>2. x.run = NoRun /\ ~x.own /\ x.code # "RUN_SUPERSEDED"
  BY <1>1 DEF Knows, Based, WithRun, Locked, Publishing
<1>3. PICK s \in {"session", "opened"}, cmd \in Commands : y = [x EXCEPT !.step = s, !.cmd = cmd]
  BY <1>1 DEF Start, AcquireSession, OpenHistory, TypeInv
<1>4. /\ y \in WellTyped /\ y.step \notin Locked /\ y.run = NoRun /\ ~y.own
      /\ y.code # "RUN_SUPERSEDED"
  <2>1. y \in WellTyped
    BY DEF TypeInv
  <2>2. y.step = s /\ y.run = x.run /\ y.own = x.own /\ y.code = x.code
    BY <1>1, <1>3 DEF Process
  <2>. QED
    BY <1>2, <2>1, <2>2 DEF Locked, Publishing
<1>. QED
  BY <1>4, QuietKnows

LEMMA FaultKnows ==
    ASSUME TypeInv, DateInv, NEW p \in Proc, Fault(p), NEW y, y = proc'[p]
    PROVE  Knows(y)'
<1>1. CASE PublishIoError(p)
  <2>1. PICK x : x = proc[p] /\ Knows(x) /\ x.step \in WithRun
    BY <1>1, KnowsNow DEF PublishIoError, WithRun, Locked, Publishing
  <2>2. Error(p, "other") /\ rows' = rows /\ "other" \in Errors \ {"RUN_SUPERSEDED"}
    BY <1>1 DEF PublishIoError, db, Errors
  <2>. QED
    BY <2>1, <2>2, ErrorKnows
<1>2. CASE Crash(p)
  BY <1>2, ReturnKnows DEF Crash
<1>. QED
  BY <1>1, <1>2 DEF Fault

(* A command gets the lock, recovers and chooses a run.                     *)
LEMMA RunKnows ==
    ASSUME TypeInv, TypeInv', HistoryInv, TableInv, DateInv, NEW p \in Proc, RunStep(p),
           NEW y, y = proc'[p]
    PROVE  Knows(y)'
<1>. USE DEF At
<1>0. PICK x : x = proc[p] /\ x \in WellTyped /\ x \in Process /\ Knows(x)
  BY KnowsNow
<1>a. /\ proc \in [Proc -> WellTyped] /\ y \in WellTyped /\ y \in Process
      /\ "other" \in Errors \ {"RUN_SUPERSEDED"}
      /\ rows \in [Runs -> Row] /\ current \in Runs \cup {NoRun}
  BY DEF TypeInv, TypeOK, WellTyped, Errors
<1>b. /\ x.code # "RUN_SUPERSEDED"
      /\ x.step \notin WithRun => x.run = NoRun /\ ~x.own
      /\ x.own => rows[x.run].error # "RUN_SUPERSEDED"
      /\ x.step \in WithRun => x.run \in Runs
  BY <1>0 DEF Knows, Based, WellTyped
<1>c. ASSUME NEW s \in Steps, Goto(p, s)
      PROVE  /\ y.step = s /\ y.run = x.run /\ y.cmd = x.cmd /\ (y.own <=> x.own)
             /\ y.code = x.code
  <2>1. y = [x EXCEPT !.step = s]
    BY <1>0, <1>a, <1>c DEF Goto
  <2>. QED
    BY <1>0, <2>1 DEF Process
<1>1. CASE OpenApp(p)
  <2>1. /\ y.step = "opened" /\ y.run = NoRun /\ ~y.own
        /\ y.code # "RUN_SUPERSEDED"
    BY <1>0, <1>b, <1>c, <1>1 DEF OpenApp, Steps, WithRun, Locked, Publishing
  <2>. QED
    BY <1>a, <2>1, QuietKnows DEF Locked, Publishing
<1>2. CASE AcquireReportLock(p)
  <2>1. /\ y.step \in {"recover", "repair"} /\ y.run = NoRun /\ ~y.own
        /\ y.code # "RUN_SUPERSEDED"
        /\ y.cmd \in Generating => y.step = "recover"
    BY <1>0, <1>b, <1>c, <1>2 DEF AcquireReportLock, Steps, WithRun, Locked, Publishing
  <2>2. Based(y)' /\ Settled(y)' /\ Drafted(y)'
    BY <2>1 DEF Based, Settled, Drafted
  <2>3. Approved(y)' /\ Saw(y)' /\ Uncaptured(y)' /\ Evident(y)'
    BY <2>1 DEF Approved, Saw, Uncaptured, Evident, Replacing, Publishing
  <2>. QED
    BY <2>2, <2>3 DEF Knows
<1>3. CASE LockTimeout(p) \/ OutOfRuns(p)
  BY <1>3, ReturnKnows DEF LockTimeout, OutOfRuns
<1>4. CASE Recover(p)
  <2>1. /\ y.step = "choose" /\ y.run = NoRun /\ ~y.own
        /\ y.code # "RUN_SUPERSEDED"
    BY <1>0, <1>b, <1>c, <1>4 DEF Recover, Steps, WithRun, Locked, Publishing
  <2>2. Settled(y)'
    <3>. SUFFICES ASSUME NEW r \in Runs, rows'[r].personal, rows'[r].status = "running"
                  PROVE  rows'[r].kind = "report" /\ rows'[r].phase \in Resumable
      BY DEF Settled
    <3>1. rows[r] \in Row
      BY <1>a
    <3>2. rows'[r] = rows[r] /\ ~Interrupted(rows[r])
      BY <1>4, <3>1 DEF Recover, RecoverInterrupted, Row
    <3>3. rows[r].phase \notin {"absent", "published", "preview"}
      <4>1. NoRow.status = "cancelled"
        BY DEF NoRow
      <4>. QED
        BY <3>2, <4>1 DEF TableInv, AbsentIsNoRow, DateInv, RowsInv, FinishedAreSettled
    <3>. QED
      BY <3>1, <3>2, <3>3 DEF Interrupted, Resumable, Row, Kinds, Phases
  <2>3. Based(y)' /\ Drafted(y)'
    BY <2>1 DEF Based, Drafted
  <2>4. Approved(y)' /\ Saw(y)' /\ Uncaptured(y)' /\ Evident(y)'
    BY <2>1 DEF Approved, Saw, Uncaptured, Evident, Replacing, Publishing
  <2>. QED
    BY <2>2, <2>3, <2>4 DEF Knows
<1>5. ASSUME NEW r \in Runs, rows' = rows, x.step \in {"choose"},
             y = [x EXCEPT !.step = "publish", !.run = r]
      PROVE  Knows(y)'
  <2>1. /\ y.step = "publish" /\ y.run = r /\ y.cmd = x.cmd /\ ~y.own /\ y.code = x.code
    BY <1>0, <1>b, <1>5 DEF Process, WithRun
  <2>2. x.step \in Locked /\ x.step # "recover" /\ x.run = NoRun /\ y.step \in WithRun
    BY <1>b, <1>5, <2>1 DEF WithRun, Locked, Publishing
  <2>. QED
    BY <1>0, <1>a, <1>b, <1>5, <2>1, <2>2, MoveKnows
<1>6. CASE UseExisting(p)
  BY <1>0, <1>a, <1>5, <1>6 DEF UseExisting, db
<1>7. CASE PublishPending(p)
  <2>1. PICK r \in Runs : proc' = [proc EXCEPT ![p].step = "publish", ![p].run = r]
    BY <1>7 DEF PublishPending, First, PersonalPending, Pending
  <2>. QED
    BY <1>0, <1>a, <1>5, <1>7, <2>1 DEF PublishPending, db
<1>8. ASSUME NEW r \in Runs, x.step = "choose", NEW s \in {"finish", "created"},
             y = [x EXCEPT !.step = s, !.run = r, !.own = TRUE],
             rows'[r].error # "RUN_SUPERSEDED", \A t \in Runs : t # r => rows'[t] = rows[t]
      PROVE  Knows(y)'
  <2>1. /\ y.step = s /\ y.run = r /\ y.cmd = x.cmd /\ y.own /\ y.code = x.code
    BY <1>0, <1>b, <1>8 DEF Process
  <2>2. /\ x.step \in Locked /\ x.step # "recover" /\ x.run = NoRun /\ y.step \in WithRun
        /\ y.step \notin Publishing \ {"publish"} /\ y.step # "commit"
    BY <1>b, <1>8, <2>1 DEF WithRun, Locked, Publishing
  <2>. QED
    BY <1>0, <1>a, <1>b, <1>8, <2>1, <2>2, MoveKnows
<1>9. CASE ResumePending(p)
  <2>1. PICK r \in Runs :
            /\ rows' = Resume(rows, r)
            /\ proc' = [proc EXCEPT ![p].step = "finish", ![p].run = r, ![p].own = TRUE]
    BY <1>9 DEF ResumePending, First, PersonalPending, Pending
  <2>2. rows'[r].error # "RUN_SUPERSEDED" /\ \A t \in Runs : t # r => rows'[t] = rows[t]
    BY <1>a, <2>1 DEF Resume, Row
  <2>. QED
    BY <1>0, <1>a, <1>8, <1>9, <2>1, <2>2 DEF ResumePending
<1>10. CASE CreateRun(p)
  <2>1. created + 1 \in Runs
    BY <1>10, MaxRunsAssumption DEF CreateRun, TypeInv, TypeOK, Runs
  <2>2. PICK kind, regen : rows' = [rows EXCEPT ![created + 1] = NewRow(kind, regen)]
    BY <1>10 DEF CreateRun
  <2>3. /\ rows'[created + 1].error # "RUN_SUPERSEDED"
        /\ \A t \in Runs : t # created + 1 => rows'[t] = rows[t]
    BY <1>a, <2>1, <2>2 DEF NewRow, NoRow
  <2>4. y = [x EXCEPT !.step = "created", !.run = created + 1, !.own = TRUE]
    BY <1>0, <1>a, <1>10 DEF CreateRun
  <2>5. x.step = "choose"
    BY <1>0, <1>10 DEF CreateRun
  <2>. QED
    BY <1>8, <2>1, <2>3, <2>4, <2>5
<1>11. ASSUME x.step \in {"created", "scanning", "prepared"}, NEW s \in {"scanning", "prepared", "finish"},
              Goto(p, s), rows'[x.run].error = rows[x.run].error,
              \A t \in Runs : t # x.run => rows'[t] = rows[t]
       PROVE  Knows(y)'
  <2>1. /\ y.step = s /\ y.run = x.run /\ y.cmd = x.cmd /\ (y.own <=> x.own) /\ y.code = x.code
    BY <1>c, <1>11 DEF Steps, Locked
  <2>2. /\ x.step \in Locked /\ x.step # "recover" /\ y.step \in WithRun
        /\ y.step \notin Publishing \ {"publish"} /\ y.step # "commit"
    BY <1>11, <2>1 DEF WithRun, Locked, Publishing
  <2>. QED
    BY <1>0, <1>a, <1>b, <1>11, <2>1, <2>2, MoveKnows
<1>12. ASSUME x.step \in {"created", "scanning", "prepared"}, Error(p, "other"), rows' = rows
       PROVE  Knows(y)'
  BY <1>0, <1>a, <1>12, ErrorKnows DEF WithRun, Locked
<1>13. CASE StartScan(p)
  <2>1. x.run \in Runs
    BY <1>0, <1>b, <1>13 DEF StartScan, WithRun, Locked
  <2>2. rows' = SetScanning(rows, x.run) =>
            /\ rows'[x.run].error = rows[x.run].error
            /\ \A t \in Runs : t # x.run => rows'[t] = rows[t]
    BY <1>a, <2>1 DEF SetScanning, Row
  <2>. QED
    BY <1>0, <1>11, <1>12, <1>13, <2>2 DEF StartScan
<1>14. CASE ScanFails(p)
  BY <1>0, <1>12, <1>14 DEF ScanFails, db
<1>15. CASE FreezeInput(p)
  <2>1. x.run \in Runs
    BY <1>0, <1>b, <1>15 DEF FreezeInput, WithRun, Locked
  <2>2. rows' = Prepare(rows, x.run) =>
            /\ rows'[x.run].error = rows[x.run].error
            /\ \A t \in Runs : t # x.run => rows'[t] = rows[t]
    BY <1>a, <2>1 DEF Prepare, Row
  <2>. QED
    BY <1>0, <1>11, <1>12, <1>15, <2>2 DEF FreezeInput
<1>16. CASE FinishDryRun(p)
  BY <1>0, <1>12, <1>16, ReturnKnows DEF FinishDryRun
<1>. QED
  BY <1>1, <1>2, <1>3, <1>4, <1>6, <1>7, <1>9, <1>10, <1>13, <1>14, <1>15, <1>16 DEF RunStep

(* finish() and the repair commands.                                        *)
LEMMA FinishKnows ==
    ASSUME TypeInv, TypeInv', DateInv, NEW p \in Proc, FinishStep(p), NEW y, y = proc'[p]
    PROVE  Knows(y)'
<1>. USE DEF At
<1>0. PICK x : x = proc[p] /\ x \in WellTyped /\ x \in Process /\ Knows(x)
  BY KnowsNow
<1>a. /\ proc \in [Proc -> WellTyped] /\ y \in WellTyped /\ y \in Process
      /\ "other" \in Errors \ {"RUN_SUPERSEDED"}
      /\ rows \in [Runs -> Row] /\ current \in Runs \cup {NoRun}
  BY DEF TypeInv, TypeOK, WellTyped, Errors
<1>b. /\ x.code # "RUN_SUPERSEDED"
      /\ x.step \notin WithRun => x.run = NoRun /\ ~x.own
      /\ x.own => rows[x.run].error # "RUN_SUPERSEDED"
      /\ x.step \in WithRun => x.run \in Runs
  BY <1>0 DEF Knows, Based, WellTyped
<1>1. ASSUME x.step \in {"finish", "commit", "compact"}, Error(p, "other"), rows' = rows
      PROVE  Knows(y)'
  BY <1>0, <1>a, <1>1, ErrorKnows DEF WithRun, Locked
<1>2. ASSUME x.step \in {"finish", "commit"}, y.step \in {"finish", "publish", "compact"},
             y.run = x.run, y.cmd = x.cmd, y.own <=> x.own, y.code = x.code,
             rows'[x.run].error = rows[x.run].error,
             \A t \in Runs : t # x.run => rows'[t] = rows[t]
      PROVE  Knows(y)'
  <2>1. /\ x.step \in Locked /\ x.step # "recover" /\ y.step \in WithRun
        /\ y.step \notin Publishing \ {"publish"} /\ y.step # "commit"
    BY <1>2 DEF WithRun, Locked, Publishing
  <2>. QED
    BY <1>0, <1>a, <1>b, <1>2, <2>1, MoveKnows
<1>3. CASE FinishFails(p)
  BY <1>0, <1>1, <1>3 DEF FinishFails, db
<1>4. CASE CallModel(p)
  <2>1. x.run \in Runs
    BY <1>0, <1>b, <1>4 DEF CallModel, WithRun, Locked
  <2>2. /\ rows'[x.run].error = rows[x.run].error
        /\ \A t \in Runs : t # x.run => rows'[t] = rows[t]
    BY <1>0, <1>a, <1>4, <2>1 DEF CallModel, ReserveCall, Row
  <2>3. y = x /\ x.step = "finish"
    BY <1>0, <1>4 DEF CallModel
  <2>. QED
    BY <1>2, <2>2, <2>3
<1>5. ASSUME NEW body \in Bodies, Compose(p, body)
      PROVE  Knows(y)'
  <2>1. y = [x EXCEPT !.step = "commit", !.draft = body] /\ x.step = "finish" /\ UNCHANGED db
    BY <1>0, <1>a, <1>5 DEF Compose
  <2>2. /\ y.step = "commit" /\ y.draft = body /\ y.run = x.run /\ y.cmd = x.cmd
        /\ y.own = x.own /\ y.code = x.code
    BY <1>0, <2>1 DEF Process
  <2>3. Acceptable(x.run, body)
    BY <1>0, <1>5 DEF Compose
  <2>4. Drafted(y)'
    BY <2>1, <2>2, <2>3 DEF Drafted, Acceptable, BodyOf, db
  <2>5. Based(y)'
    BY <1>b, <2>1, <2>2 DEF Based, db, WithRun, Locked, Publishing
  <2>6. Settled(y)'
    BY <1>0, <2>1, <2>2 DEF Knows, Settled, db, Locked
  <2>7. Approved(y)' /\ Saw(y)' /\ Uncaptured(y)' /\ Evident(y)'
    BY <2>2 DEF Approved, Saw, Uncaptured, Evident, Replacing, Publishing
  <2>. QED
    BY <2>4, <2>5, <2>6, <2>7 DEF Knows
<1>6. CASE Stage(p)
  <2>1. x.run \in Runs /\ x.step = "commit"
    BY <1>0, <1>b, <1>6 DEF Stage, WithRun, Locked
  <2>2. CASE CanStage(rows[x.run])
    <3>1. y = [x EXCEPT !.step = "publish", !.draft = NoText]
      BY <1>0, <1>a, <1>6, <2>2 DEF Stage
    <3>2. /\ y.step = "publish" /\ y.run = x.run /\ y.cmd = x.cmd
          /\ y.own = x.own /\ y.code = x.code
      BY <1>0, <3>1 DEF Process
    <3>3. rows' = StageReport(rows, x.run, x.draft, current)
      BY <1>0, <1>6, <2>2 DEF Stage
    <3>4. /\ rows'[x.run].error = rows[x.run].error
          /\ \A t \in Runs : t # x.run => rows'[t] = rows[t]
      BY <1>a, <2>1, <3>3 DEF StageReport, Row
    <3>. QED
      BY <1>2, <2>1, <3>2, <3>4
  <2>3. CASE ~CanStage(rows[x.run])
    BY <1>0, <1>1, <1>6, <2>1, <2>3 DEF Stage
  <2>. QED
    BY <2>2, <2>3
<1>7. CASE SavePreview(p)
  <2>1. x.run \in Runs /\ x.step = "commit"
    BY <1>0, <1>b, <1>7 DEF SavePreview, WithRun, Locked
  <2>2. CASE CanFinishPreview(rows[x.run])
    <3>1. y = [x EXCEPT !.step = "compact", !.draft = NoText]
      BY <1>0, <1>a, <1>7, <2>2 DEF SavePreview
    <3>2. /\ y.step = "compact" /\ y.run = x.run /\ y.cmd = x.cmd
          /\ y.own = x.own /\ y.code = x.code
      BY <1>0, <3>1 DEF Process
    <3>3. rows' = FinishPreview(rows, x.run, x.draft)
      BY <1>0, <1>7, <2>2 DEF SavePreview
    <3>4. /\ rows'[x.run].error = rows[x.run].error
          /\ \A t \in Runs : t # x.run => rows'[t] = rows[t]
      BY <1>a, <2>1, <3>3 DEF FinishPreview, Row
    <3>. QED
      BY <1>2, <2>1, <3>2, <3>4
  <2>3. CASE ~CanFinishPreview(rows[x.run])
    BY <1>0, <1>1, <1>7, <2>1, <2>3 DEF SavePreview
  <2>. QED
    BY <2>2, <2>3
<1>8. CASE CompactAfterFinish(p)
  BY <1>0, <1>1, <1>8, ReturnKnows DEF CompactAfterFinish
<1>9. CASE RecordFailure(p)
  BY <1>9, ReturnKnows DEF RecordFailure
<1>10. ASSUME NEW r \in Runs, rows' = rows, x.step = "repair",
              y = [x EXCEPT !.step = "publish", !.run = r]
       PROVE  Knows(y)'
  <2>1. /\ y.step = "publish" /\ y.run = r /\ y.cmd = x.cmd /\ y.own = x.own /\ y.code = x.code
    BY <1>0, <1>10 DEF Process
  <2>2. /\ x.step \in Locked /\ x.step # "recover" /\ x.run = NoRun /\ ~x.own
        /\ y.step \in WithRun
    BY <1>b, <1>10, <2>1 DEF WithRun, Locked, Publishing
  <2>. QED
    BY <1>0, <1>a, <1>b, <1>10, <2>1, <2>2, MoveKnows
<1>11. CASE Repair(p)
  <2>1. CASE RepairCandidates = {}
    BY <1>11, <2>1, ReturnKnows DEF Repair
  <2>2. CASE RepairCandidates # {}
    <3>1. RepairCandidates \subseteq Runs
      BY <1>a DEF RepairCandidates, First, Committed, Pending
    <3>2. PICK r \in Runs : proc' = [proc EXCEPT ![p].step = "publish", ![p].run = r]
      BY <1>11, <2>2, <3>1 DEF Repair
    <3>3. y = [x EXCEPT !.step = "publish", !.run = r] /\ x.step = "repair" /\ rows' = rows
      BY <1>0, <1>a, <1>11, <3>2 DEF Repair, db
    <3>. QED
      BY <1>10, <3>3
  <2>. QED
    BY <2>1, <2>2
<1>12. ASSUME NEW r \in Runs, RepairById(p, r)
       PROVE  Knows(y)'
  <2>1. CASE rows[r].phase = "absent"
    BY <1>12, <2>1, ReturnKnows DEF RepairById
  <2>2. CASE rows[r].phase # "absent"
    <3>1. y = [x EXCEPT !.step = "publish", !.run = r] /\ x.step = "repair" /\ rows' = rows
      BY <1>0, <1>a, <1>12, <2>2 DEF RepairById, db
    <3>. QED
      BY <1>10, <3>1
  <2>. QED
    BY <2>1, <2>2
<1>. QED
  BY <1>3, <1>4, <1>5, <1>6, <1>7, <1>8, <1>9, <1>11, <1>12 DEF FinishStep

(* Publisher::publish, up to the replacement of the target.                 *)

LEMMA ReadKnows ==
    ASSUME TypeInv, TypeInv', HistoryInv, DateInv, NEW p \in Proc, ReadTarget(p),
           NEW y, y = proc'[p]
    PROVE  Knows(y)'
<1>. USE DEF At
<1>0. PICK x : x = proc[p] /\ x \in WellTyped /\ x \in Process /\ Knows(x)
  BY KnowsNow
<1>. DEFINE r == x.run
<1>a. /\ proc \in [Proc -> WellTyped] /\ y \in WellTyped /\ y \in Process
      /\ rows \in [Runs -> Row] /\ current \in Runs \cup {NoRun}
      /\ x.step = "publish" /\ r \in Runs
      /\ UNCHANGED db /\ UNCHANGED files /\ UNCHANGED swallowed
      /\ x.code # "RUN_SUPERSEDED"
      /\ swallowed \subseteq Runs /\ NoRun \notin Runs
  BY <1>0 DEF TypeInv, TypeOK, WellTyped, WithRun, Locked, Publishing, ReadTarget, Knows, Based,
              Runs, NoRun
<1>1. CASE ~Staged(rows[r]) \/ ~VersionMatches(r) \/ AwaitsUser(r)
  <2>1. PICK code \in Errors \ {"RUN_SUPERSEDED"} : Error(p, code)
    BY <1>0, <1>1 DEF ReadTarget, Errors
  <2>2. x.step \in WithRun /\ rows' = rows
    BY <1>a DEF WithRun, Locked, Publishing, db
  <2>. QED
    BY <1>0, <2>1, <2>2, ErrorKnows
<1>2. CASE Staged(rows[r]) /\ VersionMatches(r) /\ ~AwaitsUser(r)
  <2>1. rows[r].error # "RUN_SUPERSEDED"
    BY <1>2, <1>a DEF Staged, VersionMatches, ExpectedCurrent, DateInv, RowsInv, SupersededAreOver,
                      Live, Resumable
  <2>2. ASSUME y.step \in Publishing, y.run = r
        PROVE  Approved(y)'
    BY <1>2, <1>a, <2>1, <2>2 DEF Approved, Staged, VersionMatches, ExpectedCurrent, db
  <2>3. CASE file \in {NoText, rows[r].body, Allowed(r)}
    <3>1. y = [x EXCEPT !.step = "attach", !.seen = file]
      BY <1>0, <1>2, <1>a, <2>3 DEF ReadTarget
    <3>2. /\ y.step = "attach" /\ y.seen = file /\ y.run = r /\ y.cmd = x.cmd
          /\ y.own = x.own /\ y.code = x.code
      BY <1>0, <3>1 DEF Process
    <3>3. Based(y)' /\ Settled(y)' /\ Drafted(y)' /\ Approved(y)'
      BY <1>0, <1>a, <2>2, <3>2, PublishingKnows DEF Publishing
    <3>4. ASSUME NEW s \in swallowed, Live(s), file # rows[r].body
          PROVE  FALSE
      <4>1. s \in Runs /\ file = rows[s].body /\ rows[s].body # rows[s].previousBody
        BY <1>a, <3>4 DEF DateInv, SwallowedStay
      <4>2. rows[s].body \in Bodies /\ rows[s].previousBody = BodyOf(rows, current)
        BY <3>4, <4>1 DEF DateInv, RowsInv, StagedHaveBodies, LiveKnowThePublished, Staged, Live
      <4>3. file = Allowed(r)
        BY <2>3, <3>4, <4>1, <4>2, BodiesAssumption
      <4>4. rows[r].phase # "published"
        BY <3>4, <4>3 DEF Allowed
      <4>5. Live(r)
        BY <1>2, <4>4 DEF Staged, VersionMatches, ExpectedCurrent, Live
      <4>6. rows[r].previousBody = BodyOf(rows, current)
        BY <1>a, <4>5 DEF DateInv, RowsInv, LiveKnowThePublished
      <4>. QED
        BY <4>1, <4>2, <4>3, <4>4, <4>6 DEF Allowed
    <3>5. Saw(y)'
      <4>1. y.seen \in {NoText, rows'[r].body, Allowed(r)'}
        BY <1>a, <2>3, <3>2 DEF Allowed, db
      <4>2. y.seen # rows'[r].body => \A s \in swallowed' : ~Live(s)'
        BY <1>a, <3>2, <3>4 DEF Live, db
      <4>. QED
        BY <3>2, <4>1, <4>2 DEF Saw, Allowed
    <3>6. Uncaptured(y)'
      <4>1. r \in swallowed /\ Live(r) => rows[r].error # "OUTPUT_CONFLICT_CAPTURED"
        BY <1>2, <1>a DEF DateInv, SwallowedStay, AwaitsUser
      <4>. QED
        BY <1>a, <3>2, <4>1 DEF Uncaptured, Live, db
    <3>7. Evident(y)'
      BY <3>2 DEF Evident
    <3>. QED
      BY <3>3, <3>5, <3>6, <3>7 DEF Knows
  <2>4. CASE file \notin {NoText, rows[r].body, Allowed(r)}
    <3>1. y = [x EXCEPT !.step = "conflict", !.code = "other"]
      BY <1>0, <1>2, <1>a, <2>4 DEF ReadTarget, Conflict
    <3>2. /\ y.step = "conflict" /\ y.run = r /\ y.cmd = x.cmd
          /\ y.own = x.own /\ y.code = "other"
      BY <1>0, <3>1 DEF Process
    <3>3. Based(y)' /\ Settled(y)' /\ Drafted(y)' /\ Approved(y)'
      BY <1>0, <1>a, <2>2, <3>2, PublishingKnows DEF Publishing
    <3>4. Saw(y)' /\ Uncaptured(y)' /\ Evident(y)'
      BY <3>2 DEF Saw, Uncaptured, Evident, Replacing
    <3>. QED
      BY <3>3, <3>4 DEF Knows
  <2>. QED
    BY <2>3, <2>4
<1>. QED
  BY <1>1, <1>2

(* publish() goes on to the replacement and to the mark.                    *)
LEMMA OnwardKnows ==
    ASSUME NEW x \in Process, NEW y \in Process, Knows(x), UNCHANGED db, swallowed' = swallowed,
           x.step \in Replacing \cup {"verify"},
           y.step \in {"attached", "recheck", "write", "verify", "mark"},
           y.run = x.run, y.cmd = x.cmd, y.own <=> x.own, y.code = x.code, y.seen = x.seen,
           y.step \in Replacing => x.step \in Replacing,
           y.step \in {"recheck", "write"} => x.seen # rows[x.run].body,
           Evident(y)'
    PROVE  Knows(y)'
<1>1. /\ x.step \in Publishing /\ x.step # "publish" /\ y.step \in Publishing
      /\ x.code # "RUN_SUPERSEDED"
  BY DEF Replacing, Publishing, Knows, Based
<1>2. Based(y)' /\ Settled(y)' /\ Drafted(y)' /\ Approved(y)'
  BY <1>1, PublishingKnows
<1>3. Saw(y)'
  BY DEF Knows, Saw, Allowed, Live, db
<1>4. Uncaptured(y)'
  BY DEF Knows, Uncaptured, Live, db
<1>. QED
  BY <1>2, <1>3, <1>4 DEF Knows

LEMMA PublishKnows ==
    ASSUME TypeInv, TypeInv', HistoryInv, DateInv, NEW p \in Proc, PublishStep(p),
           NEW y, y = proc'[p]
    PROVE  Knows(y)'
<1>. USE DEF At
<1>0. PICK x : x = proc[p] /\ x \in WellTyped /\ x \in Process /\ Knows(x)
  BY KnowsNow
<1>a. /\ proc \in [Proc -> WellTyped] /\ y \in WellTyped /\ y \in Process
      /\ "other" \in Errors \ {"RUN_SUPERSEDED"}
      /\ "OUTPUT_CONFLICT_CAPTURED" \in Errors \ {"RUN_SUPERSEDED"}
      /\ rows \in [Runs -> Row] /\ current \in Runs \cup {NoRun}
      /\ attachments \in [Linked -> AttachmentStates]
  BY DEF TypeInv, TypeOK, WellTyped, Errors
<1>b. /\ x.code # "RUN_SUPERSEDED"
      /\ x.own => rows[x.run].error # "RUN_SUPERSEDED"
      /\ x.step \in Publishing => x.run \in Runs /\ x.step \in WithRun /\ x.step \in Locked
  BY <1>0 DEF Knows, Based, WellTyped, WithRun, Locked, Publishing
<1>c. ASSUME NEW s \in Steps, Goto(p, s)
      PROVE  /\ y.step = s /\ y.run = x.run /\ y.cmd = x.cmd /\ (y.own <=> x.own)
             /\ y.code = x.code /\ y.seen = x.seen
  <2>1. y = [x EXCEPT !.step = s]
    BY <1>0, <1>a, <1>c DEF Goto
  <2>. QED
    BY <1>0, <2>1 DEF Process
<1>d. ASSUME NEW code \in Errors \ {"RUN_SUPERSEDED"}, Conflict(p, code), UNCHANGED db,
             x.step \in Publishing, x.step # "publish"
      PROVE  Knows(y)'
  <2>1. y = [x EXCEPT !.step = "conflict", !.code = code]
    BY <1>0, <1>a, <1>d DEF Conflict
  <2>2. /\ y.step = "conflict" /\ y.run = x.run /\ y.cmd = x.cmd /\ y.own = x.own
        /\ y.code = code
    BY <1>0, <2>1 DEF Process
  <2>. QED
    BY <1>0, <1>a, <1>d, <2>2, ConflictKnows
<1>e. ASSUME NEW code \in Errors \ {"RUN_SUPERSEDED"}, Error(p, code), rows' = rows,
             x.step \in Publishing
      PROVE  Knows(y)'
  BY <1>0, <1>b, <1>e, ErrorKnows
<1>f. /\ \A s \in Publishing : s \in Steps
      /\ {"attach", "attached", "recheck", "write", "verify", "mark", "conflict", "copying",
          "captured"} \subseteq Publishing
      /\ "compact" \in Steps
  BY DEF Steps, Locked, Publishing
<1>1. CASE ReadTarget(p)
  BY <1>1, ReadKnows
<1>2. CASE PublishAttachment(p)
  <2>. DEFINE b == rows[x.run].body
  <2>0. x.step = "attach" /\ UNCHANGED db /\ swallowed' = swallowed /\ Body(p) = b
    BY <1>0, <1>2 DEF PublishAttachment, Body
  <2>1. CASE b \notin Linked \/ attachments[b] = "intact"
    <3>0. AfterAttachment(p) /\ attachments' = attachments
      BY <1>2, <2>0, <2>1 DEF PublishAttachment
    <3>1. Goto(p, IF x.seen = b THEN "mark" ELSE "recheck")
      BY <1>0, <2>0, <3>0 DEF AfterAttachment
    <3>2. /\ y.step \in {"mark", "recheck"} /\ y.run = x.run /\ y.cmd = x.cmd
          /\ (y.own <=> x.own) /\ y.code = x.code /\ y.seen = x.seen
          /\ y.step = "recheck" => x.seen # b
      BY <1>c, <1>f, <3>1
    <3>3. Evident(y)'
      BY <2>0, <2>1, <3>0, <3>2 DEF Evident, db
    <3>. QED
      BY <1>0, <1>a, <2>0, <3>2, <3>3, OnwardKnows DEF Replacing
  <2>2. CASE b \in Linked /\ attachments[b] = "changed"
    <3>1. Error(p, "other")
      BY <1>2, <2>0, <2>2 DEF PublishAttachment
    <3>. QED
      BY <1>a, <1>e, <1>f, <2>0, <3>1 DEF db
  <2>3. CASE b \in Linked /\ attachments[b] \notin {"intact", "changed"}
    <3>1. Goto(p, "attached")
      BY <1>2, <2>0, <2>3 DEF PublishAttachment
    <3>2. /\ y.step = "attached" /\ y.run = x.run /\ y.cmd = x.cmd
          /\ (y.own <=> x.own) /\ y.code = x.code /\ y.seen = x.seen
      BY <1>c, <1>f, <3>1
    <3>3. Evident(y)'
      BY <3>2 DEF Evident
    <3>. QED
      BY <1>0, <1>a, <2>0, <3>2, <3>3, OnwardKnows DEF Replacing
  <2>. QED
    BY <2>1, <2>2, <2>3
<1>3. CASE VerifyAttachment(p)
  <2>. DEFINE b == rows[x.run].body
  <2>0. /\ x.step = "attached" /\ UNCHANGED db /\ swallowed' = swallowed /\ Body(p) = b
        /\ attachments' = attachments
    BY <1>0, <1>3 DEF VerifyAttachment, Body, files
  <2>1. CASE attachments[b] = "intact"
    <3>1. Goto(p, IF x.seen = b THEN "mark" ELSE "recheck")
      BY <1>0, <1>3, <2>0, <2>1 DEF VerifyAttachment, AfterAttachment
    <3>2. /\ y.step \in {"mark", "recheck"} /\ y.run = x.run /\ y.cmd = x.cmd
          /\ (y.own <=> x.own) /\ y.code = x.code /\ y.seen = x.seen
          /\ y.step = "recheck" => x.seen # b
      BY <1>c, <1>f, <3>1
    <3>3. Evident(y)'
      BY <2>0, <2>1, <3>2 DEF Evident, db
    <3>. QED
      BY <1>0, <1>a, <2>0, <3>2, <3>3, OnwardKnows DEF Replacing
  <2>2. CASE attachments[b] # "intact"
    <3>1. Error(p, "other")
      BY <1>3, <2>0, <2>2 DEF VerifyAttachment
    <3>. QED
      BY <1>a, <1>e, <1>f, <2>0, <3>1 DEF db
  <2>. QED
    BY <2>1, <2>2
<1>g. ASSUME x.step \in {"recheck", "write", "verify"}, NEW s \in {"write", "verify", "mark"},
             s = "write" => x.step = "recheck", Goto(p, s), UNCHANGED db, swallowed' = swallowed,
             attachments' = attachments
      PROVE  Knows(y)'
  <2>1. /\ y.step = s /\ y.run = x.run /\ y.cmd = x.cmd
        /\ (y.own <=> x.own) /\ y.code = x.code /\ y.seen = x.seen
    BY <1>c, <1>f, <1>g
  <2>2. Evident(y)'
    BY <1>0, <1>g, <2>1 DEF Knows, Evident, db
  <2>3. x.step = "recheck" => x.seen # rows[x.run].body
    BY <1>0 DEF Knows, Saw, Replacing
  <2>4. /\ x.step \in Replacing \cup {"verify"}
        /\ y.step \in Replacing => x.step \in Replacing
        /\ y.step \in {"recheck", "write"} => x.seen # rows[x.run].body
        /\ y.step \in {"attached", "recheck", "write", "verify", "mark"}
    BY <1>g, <2>1, <2>3 DEF Replacing
  <2>. QED
    BY <1>0, <1>a, <1>g, <2>1, <2>2, <2>4, OnwardKnows
<1>4. CASE Recheck(p)
  BY <1>0, <1>a, <1>d, <1>f, <1>g, <1>4 DEF Recheck, files
<1>5. CASE LinkTarget(p)
  BY <1>0, <1>a, <1>d, <1>f, <1>g, <1>5 DEF LinkTarget
<1>6. CASE ReplaceTarget(p)
  <2>0. x.step = "write" /\ UNCHANGED db /\ attachments' = attachments
    BY <1>0, <1>6 DEF ReplaceTarget
  <2>1. CASE file = NoText
    BY <1>a, <1>e, <1>f, <1>6, <2>0, <2>1 DEF ReplaceTarget, db
  <2>2. CASE file # NoText /\ file = x.seen
    BY <1>0, <1>g, <1>6, <2>0, <2>2 DEF ReplaceTarget
  <2>3. CASE file # NoText /\ file # x.seen
    BY <1>0, <1>a, <1>d, <1>f, <1>6, <2>0, <2>3 DEF ReplaceTarget
  <2>. QED
    BY <2>1, <2>2, <2>3
<1>7. CASE VerifyTarget(p)
  BY <1>0, <1>a, <1>d, <1>f, <1>g, <1>7 DEF VerifyTarget, files
<1>8. CASE Mark(p)
  <2>0. x.step = "mark" /\ x.run \in Runs
    BY <1>0, <1>b, <1>f, <1>8 DEF Mark
  <2>1. \/ Error(p, "other") /\ rows' = rows
        \/ AfterPublish(p) /\ (rows' = rows \/ Publishes(x.run))
    BY <1>0, <1>8 DEF Mark, Publishes, Body
  <2>2. CASE Goto(p, "compact") /\ (rows' = rows \/ Publishes(x.run))
    <3>1. /\ y.step = "compact" /\ y.run = x.run /\ y.cmd = x.cmd
          /\ (y.own <=> x.own) /\ y.code = x.code
      BY <1>c, <1>f, <2>2
    <3>2. /\ x.step # "recover" /\ y.step \in WithRun /\ x.step \in Locked
          /\ y.step \notin Publishing \ {"publish"}
      BY <2>0, <3>1 DEF WithRun, Locked, Publishing
    <3>3. /\ x.own => rows'[x.run].error # "RUN_SUPERSEDED"
          /\ \A r \in Runs : r # x.run => rows'[r] = rows[r] \/ rows'[r].status # "running"
      BY <1>b, <2>0, <2>2, PublishedRow DEF DateInv
    <3>. QED
      BY <1>0, <1>a, <1>b, <3>1, <3>2, <3>3, MoveKnows
  <2>3. CASE Return(p)
    BY <2>3, ReturnKnows
  <2>4. CASE Error(p, "other") /\ rows' = rows
    BY <1>a, <1>e, <1>f, <2>0, <2>4
  <2>. QED
    BY <2>1, <2>2, <2>3, <2>4 DEF AfterPublish
<1>h. ASSUME x.step \in {"conflict", "copying"}, UNCHANGED db,
             \/ Goto(p, "copying")
             \/ AfterConflict(p)
             \/ Error(p, "other")
      PROVE  Knows(y)'
  <2>1. CASE \E s \in {"copying", "captured"} : Goto(p, s)
    <3>1. PICK s \in {"copying", "captured"} : Goto(p, s)
      BY <2>1
    <3>2. /\ y.step = s /\ y.run = x.run /\ y.cmd = x.cmd
          /\ (y.own <=> x.own) /\ y.code = x.code
      BY <1>c, <1>f, <3>1
    <3>. QED
      BY <1>0, <1>a, <1>b, <1>f, <1>h, <3>2, ConflictKnows
  <2>2. CASE Error(p, "other")
    BY <1>a, <1>e, <1>f, <1>h, <2>2 DEF db
  <2>. QED
    BY <1>h, <2>1, <2>2 DEF AfterConflict
<1>9. CASE CreateCopy(p)
  <2>1. copies[x.run] \in {"absent", "saved", "differs"}
    BY <1>0, <1>b, <1>f, <1>9 DEF TypeInv, TypeOK, CopyStates, CreateCopy
  <2>. QED
    BY <1>0, <1>h, <1>9, <2>1 DEF CreateCopy
<1>10. CASE WriteCopy(p)
  BY <1>0, <1>h, <1>10 DEF WriteCopy
<1>11. CASE RecordCaptured(p)
  <2>0. x.step = "captured" /\ x.run \in Runs /\ x.step \in WithRun
    BY <1>0, <1>b, <1>f, <1>11 DEF RecordCaptured
  <2>1. rows' = Fail(rows, x.run, "OUTPUT_CONFLICT_CAPTURED")
    BY <1>0, <1>11 DEF RecordCaptured
  <2>2. /\ rows'[x.run].error = "RUN_SUPERSEDED" => rows[x.run].error = "RUN_SUPERSEDED"
        /\ \A r \in Runs : r # x.run => rows'[r] = rows[r]
    BY <1>a, <2>0, <2>1 DEF Fail, Row
  <2>. QED
    BY <1>0, <1>a, <1>11, <2>0, <2>2, ErrorKnows DEF RecordCaptured
<1>. QED
  BY <1>1, <1>2, <1>3, <1>4, <1>5, <1>6, <1>7, <1>8, <1>9, <1>10, <1>11 DEF PublishStep

---------------------------------------------------------------------------
(* The files.                                                               *)

LEMMA FilesSteps ==
    ASSUME TypeInv, NEW p \in Proc, Start(p) \/ Step(p) \/ Fault(p)
    PROVE  \/ UNCHANGED <<file, backups, attachments, swallowed>>
           \/ PublishAttachment(p) \/ LinkTarget(p) \/ ReplaceTarget(p)
<1>0. UNCHANGED files => UNCHANGED <<file, backups, attachments>>
  BY DEF files
<1>1. CASE Start(p) \/ Fault(p)
  BY <1>0, <1>1 DEF Start, Fault, AcquireSession, OpenHistory, PublishIoError, Crash
<1>2. CASE RunStep(p)
  BY <1>0, <1>2 DEF RunStep, OpenApp, AcquireReportLock, LockTimeout, Recover, UseExisting,
                    PublishPending, ResumePending, CreateRun, OutOfRuns, StartScan, ScanFails,
                    FreezeInput, FinishDryRun
<1>3. CASE FinishStep(p)
  BY <1>0, <1>3 DEF FinishStep, FinishFails, CallModel, Compose, Stage, SavePreview,
                    CompactAfterFinish, RecordFailure, Repair, RepairById
<1>4. CASE PublishStep(p)
  BY <1>0, <1>4 DEF PublishStep, ReadTarget, VerifyAttachment, Recheck, VerifyTarget, Mark,
                    CreateCopy, WriteCopy, RecordCaptured
<1>. QED
  BY <1>1, <1>2, <1>3, <1>4, StepIsOneOf

LEMMA SameRowsInv ==
    ASSUME RowsInv, UNCHANGED db
    PROVE  RowsInv'
BY DEF db, RowsInv, FinishedAreSettled, StagedHaveBodies, Staged, LiveKnowThePublished, Live,
       BodyOf, SupersededAreOver, ItemsNeverLost

LEMMA FilesNext ==
    ASSUME TypeInv, HistoryInv, DateInv, NEW p \in Proc, Start(p) \/ Step(p) \/ Fault(p)
    PROVE  RowsInv' /\ SwallowedStay' /\ EvidenceInv'
<1>. USE DEF At
<1>0. PICK x : x = proc[p] /\ x \in WellTyped /\ x \in Process /\ Knows(x)
  BY KnowsNow
<1>a. /\ RowsInv /\ SwallowedStay /\ EvidenceInv
      /\ attachments \in [Linked -> AttachmentStates]
      /\ rows \in [Runs -> Row] /\ swallowed \subseteq Runs
      /\ x.step \in Publishing => x.run \in Runs
  BY <1>0 DEF DateInv, TypeInv, TypeOK, WellTyped, WithRun, Locked, Publishing
<1>1. CASE UNCHANGED <<file, backups, attachments, swallowed>>
  <2>1. CASE UNCHANGED db
    <3>1. SwallowedStay'
      BY <1>a, <1>1, <2>1 DEF SwallowedStay, Live, db
    <3>2. EvidenceInv'
      BY <1>a, <1>1 DEF EvidenceInv
    <3>. QED
      BY <1>a, <2>1, <3>1, <3>2, SameRowsInv
  <2>2. CASE TablesStep
    <3>1. EvidenceInv'
      BY <1>a, <1>1 DEF EvidenceInv
    <3>. QED
      BY <2>2, <3>1, TablesNext
  <2>. QED
    BY <2>1, <2>2, DateSteps DEF DateStep
<1>2. CASE PublishAttachment(p)
  <2>0. UNCHANGED <<file, backups, swallowed>> /\ UNCHANGED db
    BY <1>2 DEF PublishAttachment
  <2>1. SwallowedStay'
    BY <1>a, <2>0 DEF SwallowedStay, Live, db
  <2>2. \A b \in Linked : attachments[b] # "absent" => attachments'[b] # "absent"
    BY <1>2, <1>a DEF PublishAttachment
  <2>3. EvidenceInv'
    BY <1>a, <2>0, <2>2 DEF EvidenceInv
  <2>. QED
    BY <1>a, <2>0, <2>1, <2>3, SameRowsInv
<1>3. ASSUME x.step = "write"
      PROVE  /\ \A r \in swallowed : ~Live(r)
             /\ rows[x.run].body \in Linked => attachments[rows[x.run].body] # "absent"
             /\ x.run \in Runs /\ Staged(rows[x.run])
             /\ x.seen # rows[x.run].body /\ x.seen \in {NoText, Allowed(x.run)}
  BY <1>0, <1>a, <1>3 DEF Knows, Saw, Evident, Approved, Replacing, Publishing
<1>4. CASE LinkTarget(p)
  <2>0. /\ x.step = "write" /\ UNCHANGED db /\ UNCHANGED <<backups, attachments, swallowed>>
        /\ file' = file \/ file' = rows[x.run].body
    BY <1>0, <1>4 DEF LinkTarget, Body
  <2>1. SwallowedStay'
    BY <1>a, <1>3, <2>0 DEF SwallowedStay, Live, db
  <2>2. EvidenceInv'
    BY <1>a, <1>3, <2>0 DEF EvidenceInv
  <2>. QED
    BY <1>a, <2>0, <2>1, <2>2, SameRowsInv
<1>5. CASE ReplaceTarget(p)
  <2>0. /\ x.step = "write" /\ UNCHANGED db /\ UNCHANGED attachments
        /\ x.seen # NoText
        /\ \/ UNCHANGED <<file, backups, swallowed>>
           \/ /\ file' = rows[x.run].body /\ backups' = backups \cup {file}
              /\ swallowed' = swallowed \/ swallowed' = swallowed \cup {x.run}
    BY <1>0, <1>5 DEF ReplaceTarget, Body
  <2>1. SwallowedStay'
    <3>1. /\ rows[x.run].phase = "db_committed"
          /\ rows[x.run].body # rows[x.run].previousBody
      BY <1>3, <2>0 DEF Allowed, Staged
    <3>2. x.run <= created
      <4>1. x.run \in Int /\ created \in Int
        BY <1>3, <2>0, MaxRunsAssumption DEF TypeInv, TypeOK, Runs
      <4>2. ~(x.run > created)
        BY <1>3, <2>0, <3>1 DEF HistoryInv, CreatedOnly
      <4>. QED
        BY <4>1, <4>2
    <3>3. CASE UNCHANGED <<file, backups, swallowed>>
      BY <1>a, <2>0, <3>3 DEF SwallowedStay, Live, db
    <3>4. CASE file' = rows[x.run].body /\ swallowed' \subseteq swallowed \cup {x.run}
      <4>. SUFFICES ASSUME NEW r \in swallowed'
                    PROVE  /\ r <= created
                           /\ rows[r].phase \in {"db_committed", "published", "absent"}
                           /\ Live(r) => file' = rows[r].body /\ rows[r].body # rows[r].previousBody
        BY <2>0 DEF SwallowedStay, Live, db
      <4>1. CASE r = x.run
        BY <3>1, <3>2, <3>4, <4>1
      <4>2. CASE r \in swallowed
        BY <1>a, <1>3, <2>0, <4>2 DEF SwallowedStay
      <4>. QED
        BY <3>4, <4>1, <4>2
    <3>. QED
      BY <2>0, <3>3, <3>4
  <2>2. EvidenceInv'
    BY <1>a, <1>3, <2>0 DEF EvidenceInv
  <2>. QED
    BY <1>a, <2>0, <2>1, <2>2, SameRowsInv
<1>. QED
  BY <1>1, <1>2, <1>4, <1>5, FilesSteps

---------------------------------------------------------------------------
(* The inductive invariant.                                                 *)

LEMMA DateInit == Init => DateInv
<1>. SUFFICES ASSUME Init
              PROVE  DateInv
  OBVIOUS
<1>0. /\ NoRow.phase = "absent" /\ NoRow.error = "none" /\ NoRow.previousBody = NoText
      /\ NoRow.previous = NoRun
      /\ \A body \in Bodies, published \in BOOLEAN :
            /\ HistoricRow(body, published).phase = IF published THEN "published" ELSE "db_committed"
            /\ HistoricRow(body, published).status = IF published THEN "succeeded" ELSE "failed"
            /\ HistoricRow(body, published).error = IF published THEN "none" ELSE "other"
            /\ HistoricRow(body, published).body = body
            /\ HistoricRow(body, published).previous = NoRun
            /\ HistoricRow(body, published).previousBody = NoText
  BY DEF HistoricRow, NoRow
<1>1. LockHeld
  BY DEF Init, LockHeld, Idle, Locked, Publishing
<1>2. RowsInv
  <2>1. CASE rows = [r \in Runs |-> NoRow]
    BY <1>0, <2>1 DEF RowsInv, FinishedAreSettled, StagedHaveBodies, Staged, LiveKnowThePublished,
                      Live, SupersededAreOver, ItemsNeverLost
  <2>2. ASSUME NEW body \in Bodies, NEW published \in BOOLEAN, MaxRuns >= 1,
               rows = [r \in Runs |-> IF r = 1 THEN HistoricRow(body, published) ELSE NoRow],
               current = (IF published THEN 1 ELSE NoRun)
        PROVE  RowsInv
    <3>1. 1 \in Runs /\ NoRun # 1
      BY <2>2, MaxRunsAssumption DEF Runs, NoRun
    <3>2. PICK h : h = HistoricRow(body, published)
      OBVIOUS
    <3>3. /\ h.phase = IF published THEN "published" ELSE "db_committed"
          /\ h.status = IF published THEN "succeeded" ELSE "failed"
          /\ h.error = IF published THEN "none" ELSE "other"
          /\ h.body = body /\ h.previous = NoRun /\ h.previousBody = NoText
      BY <1>0, <3>2
    <3>4. /\ rows[1] = h /\ \A r \in Runs : r # 1 => rows[r] = NoRow
      BY <2>2, <3>1, <3>2
    <3>5. FinishedAreSettled /\ StagedHaveBodies /\ SupersededAreOver
      BY <1>0, <3>3, <3>4 DEF FinishedAreSettled, StagedHaveBodies, Staged, SupersededAreOver
    <3>6. ItemsNeverLost
      BY <1>0, <3>3, <3>4, BodiesAssumption DEF ItemsNeverLost, Staged
    <3>7. LiveKnowThePublished
      BY <1>0, <2>2, <3>1, <3>3, <3>4 DEF LiveKnowThePublished, Live, BodyOf
    <3>. QED
      BY <3>5, <3>6, <3>7 DEF RowsInv
  <2>. QED
    BY <2>1, <2>2 DEF Init
<1>3. SwallowedStay
  BY DEF Init, SwallowedStay
<1>4. EvidenceInv
  <2>1. file \notin Linked /\ backups = {}
    <3>1. file \in Edits \cup {NoText} \cup ({BodyOf(rows, current)} \ {NoText}) /\ backups = {}
      BY DEF Init
    <3>2. Linked \cap (Edits \cup {NoText}) = {}
      BY TextsAssumption, BodiesAssumption
    <3>3. CASE current = NoRun
      BY <3>1, <3>2, <3>3 DEF BodyOf
    <3>4. ASSUME NEW body \in Bodies \ Linked, NEW published \in BOOLEAN, MaxRuns >= 1,
                 rows = [r \in Runs |-> IF r = 1 THEN HistoricRow(body, published) ELSE NoRow],
                 current = 1
          PROVE  file \notin Linked
      <4>1. 1 \in Runs /\ 1 # NoRun
        BY <3>4, MaxRunsAssumption DEF Runs, NoRun
      <4>2. BodyOf(rows, current) = body
        BY <1>0, <3>4, <4>1 DEF BodyOf
      <4>. QED
        BY <3>1, <3>2, <4>2
    <3>. QED
      BY <3>1, <3>3, <3>4 DEF Init
  <2>. QED
    BY <2>1 DEF EvidenceInv
<1>5. ASSUME NEW p \in Proc
      PROVE  Knows(proc[p])
  <2>1. /\ proc[p].step = "idle" /\ proc[p].run = NoRun /\ ~proc[p].own
        /\ proc[p].code = "none"
    BY DEF Init, Idle
  <2>2. Based(proc[p]) /\ Settled(proc[p]) /\ Drafted(proc[p])
    BY <2>1 DEF Based, Settled, Drafted, Locked, Publishing
  <2>3. Approved(proc[p]) /\ Saw(proc[p]) /\ Uncaptured(proc[p]) /\ Evident(proc[p])
    BY <2>1 DEF Approved, Saw, Uncaptured, Evident, Replacing, Publishing
  <2>. QED
    BY <2>2, <2>3 DEF Knows
<1>. QED
  BY <1>1, <1>2, <1>3, <1>4, <1>5 DEF DateInv

(* The world outside: somebody edits files, days pass.                      *)
Outside ==
    /\ UNCHANGED db /\ proc' = proc /\ UNCHANGED locks
    /\ swallowed' \subseteq swallowed
    /\ file' = file \/ swallowed' = {}
    /\ \A b \in Linked :
          /\ attachments[b] # "absent" => attachments'[b] # "absent"
          /\ b = file' \/ b \in backups' => b = file \/ b \in backups

LEMMA WorldDate ==
    ASSUME TypeInv, DateInv, World \/ UNCHANGED vars
    PROVE  DateInv'
<1>0. /\ RowsInv /\ SwallowedStay /\ EvidenceInv /\ LockHeld
      /\ attachments \in [Linked -> AttachmentStates]
      /\ proc \in [Proc -> WellTyped]
  BY DEF DateInv, TypeInv, TypeOK
<1>1. Outside
  <2>1. ASSUME NEW text \in Edits \cup backups \cup {NoText}, EditFile(text)
        PROVE  Outside
    <3>1. \A b \in Linked : b = text => b \in backups
      BY TextsAssumption, BodiesAssumption
    <3>. QED
      BY <2>1, <3>1 DEF EditFile, Outside
  <2>2. ASSUME NEW r \in Runs, NEW state \in {"absent", "differs"}, EditCopy(r, state)
        PROVE  Outside
    BY <2>2 DEF EditCopy, Outside
  <2>3. ASSUME NEW b \in Linked, NEW state \in {"changed", "removed"}, EditAttachment(b, state)
        PROVE  Outside
    BY <1>0, <2>3 DEF EditAttachment, Outside
  <2>4. CASE DaysPass \/ UNCHANGED vars
    BY <2>4 DEF DaysPass, vars, files, Outside
  <2>. QED
    BY <2>1, <2>2, <2>3, <2>4 DEF World
<1>2. LockHeld'
  BY <1>0, <1>1 DEF Outside, LockHeld, locks
<1>3. SwallowedStay'
  BY <1>0, <1>1 DEF Outside, SwallowedStay, Live, db
<1>4. EvidenceInv'
  BY <1>0, <1>1 DEF Outside, EvidenceInv
<1>5. ASSUME NEW q \in Proc
      PROVE  Knows(proc[q])'
  <2>1. PICK x : x = proc[q] /\ Knows(x) /\ x = proc'[q]
    BY <1>1, KnowsNow DEF Outside
  <2>2. Based(x)' /\ Settled(x)' /\ Drafted(x)'
    BY <1>1, <2>1 DEF Outside, Knows, Based, Settled, Drafted, Acceptable, BodyOf, db
  <2>3. Approved(x)' /\ Saw(x)'
    BY <1>1, <2>1 DEF Outside, Knows, Approved, Saw, ExpectedCurrent, Allowed, Live, db
  <2>4. Uncaptured(x)' /\ Evident(x)'
    BY <1>1, <2>1 DEF Outside, Knows, Uncaptured, Evident, Live, db
  <2>. QED
    BY <2>1, <2>2, <2>3, <2>4, KnowsAt DEF Knows
<1>. QED
  BY <1>0, <1>1, <1>2, <1>3, <1>4, <1>5, SameRowsInv DEF Outside, DateInv

FullInv == TypeInv /\ HistoryInv /\ TableInv /\ DateInv

LEMMA FullInit == Init => FullInv
BY TypeInit, HistoryInit, TableInit, DateInit DEF FullInv

LEMMA FullNext == FullInv /\ [Next]_vars => FullInv'
<1>. SUFFICES ASSUME FullInv, [Next]_vars
              PROVE  FullInv'
  OBVIOUS
<1>0. TypeInv /\ HistoryInv /\ TableInv /\ DateInv
  BY DEF FullInv
<1>1. TypeInv' /\ HistoryInv' /\ TableInv'
  BY <1>0, TypeNext, HistoryNext, TableNext
<1>2. ASSUME NEW p \in Proc, Start(p) \/ Step(p) \/ Fault(p)
      PROVE  DateInv'
  <2>1. PICK y : y = proc'[p]
    OBVIOUS
  <2>2. Knows(y)'
    BY <1>0, <1>1, <1>2, <2>1, StartKnows, FaultKnows, RunKnows, FinishKnows, PublishKnows,
       StepIsOneOf
  <2>3. \A q \in Proc : Knows(proc[q])'
    BY <1>0, <1>2, <2>1, <2>2, KnowsNext
  <2>4. LockHeld'
    BY <1>0, <1>2, LockNext DEF DateInv
  <2>5. RowsInv' /\ SwallowedStay' /\ EvidenceInv'
    BY <1>0, <1>2, FilesNext
  <2>. QED
    BY <2>3, <2>4, <2>5 DEF DateInv
<1>. QED
  BY <1>0, <1>1, <1>2, WorldDate DEF Next, FullInv

---------------------------------------------------------------------------
(* A process that has passed the version check of publish() writes and      *)
(* marks only what the check approved, whatever other processes, crashes    *)
(* and repairs do meanwhile (Publisher::publish, store/locking.rs).         *)
THEOREM NothingStaleIsPublished == Spec => []NeverStale
<1>1. FullInv => NeverStale
  BY DEF FullInv, DateInv, Knows, Approved, NeverStale
<1>. QED
  BY <1>1, FullInit, FullNext, PTL DEF Spec

(* A committed or published report without items never stands on one that   *)
(* has some: the comparison in finish() is still true when stage_report     *)
(* commits.                                                                 *)
THEOREM ItemsAreKept == Spec => []ItemsNeverLost
<1>1. FullInv => ItemsNeverLost
  BY DEF FullInv, DateInv, RowsInv
<1>. QED
  BY <1>1, FullInit, FullNext, PTL DEF Spec

(* The target never holds a body whose evidence has not been written,       *)
(* whatever step a crash interrupts (publish_attachment).                   *)
THEOREM EvidenceComesFirst == Spec => []EvidenceBeforeSummary
<1>1. FullInv => EvidenceBeforeSummary
  BY DEF FullInv, DateInv, EvidenceInv, EvidenceBeforeSummary
<1>. QED
  BY <1>1, FullInit, FullNext, PTL DEF Spec

(* Once a generating command has passed recover_interrupted, no run but its *)
(* own and the ones that can be resumed claims to be running.               *)
THEOREM InterruptedRunsGetSettled == Spec => []InterruptedRunsSettled
<1>1. FullInv => InterruptedRunsSettled
  BY DEF FullInv, DateInv, Knows, Settled, InterruptedRunsSettled
<1>. QED
  BY <1>1, FullInit, FullNext, PTL DEF Spec

(* The rows of the table are well typed and none is left running by a run   *)
(* that cannot be resumed, once recover_interrupted has passed.             *)
THEOREM RowsStaySound == Spec => []RowsAreSound
<1>1. TypeOK /\ InterruptedRunsSettled <=> RowsAreSound
  BY DEF RowsAreSound
<1>. QED
  BY <1>1, TypeCorrect, InterruptedRunsGetSettled, PTL

(* No step of the program destroys a text only a person wrote: a hard link  *)
(* does not replace, and what ReplaceFileW replaces is a backup.            *)
THEOREM EditsAlwaysSurvive == Spec => EditsSurvive
<1>1. ASSUME FullInv, [Next]_vars, edits' = edits, file \in Edits, file' # file
      PROVE  file \in backups'
  <2>1. ASSUME NEW p \in Proc, Start(p) \/ Step(p) \/ Fault(p)
        PROVE  file \in backups'
    <3>1. file # NoText
      BY <1>1, TextsAssumption
    <3>2. PublishAttachment(p) \/ LinkTarget(p) \/ ReplaceTarget(p)
      BY <1>1, <2>1, FilesSteps DEF FullInv
    <3>. QED
      BY <1>1, <3>1, <3>2 DEF PublishAttachment, LinkTarget, ReplaceTarget
  <2>2. CASE World
    <3>1. edits \in Int
      BY <1>1 DEF FullInv, TypeInv, TypeOK
    <3>. QED
      BY <1>1, <2>2, <3>1 DEF World, EditFile, EditCopy, EditAttachment, DaysPass, files
  <2>3. ~UNCHANGED vars
    BY <1>1 DEF vars, files
  <2>. QED
    BY <1>1, <2>1, <2>2, <2>3 DEF Next
<1>2. FullInv /\ [Next]_vars =>
        [edits' = edits /\ file \in Edits /\ file' # file => file \in backups']_vars
  BY <1>1
<1>. QED
  BY <1>2, FullInit, FullNext, PTL DEF Spec, EditsSurvive

(* A run whose conflict with an edit was recorded is not published before   *)
(* somebody has handled the file (OUTPUT_CONFLICT_CAPTURED in publish.rs).  *)
LEMMA CapturedWaits ==
    ASSUME FullInv, [Next]_vars, NEW r \in swallowed,
           rows[r].error = "OUTPUT_CONFLICT_CAPTURED"
    PROVE  rows'[r].phase # "published"
<1>0. /\ TypeInv /\ HistoryInv /\ DateInv /\ RowsInv /\ r \in Runs
      /\ rows[r].phase # "published"
  BY DEF FullInv, DateInv, RowsInv, FinishedAreSettled, TypeInv, TypeOK
<1>1. CASE UNCHANGED db
  BY <1>0, <1>1 DEF db
<1>2. CASE TablesStep
  <2>1. CASE Evolves(r)
    BY <1>0, <2>1 DEF Evolves, SameRow, Advances
  <2>2. CASE Creation
    <3>1. PICK kind, regen : rows' = [rows EXCEPT ![created + 1] = NewRow(kind, regen)]
      BY <2>2 DEF Creation
    <3>. QED
      BY <1>0, <3>1 DEF NewRow, NoRow, TypeInv, TypeOK
  <2>3. ASSUME NEW s \in Runs, Publishes(s), s # r
        PROVE  rows'[r].phase # "published"
    BY <1>0, <2>3, PublishedRow
  <2>. QED
    BY <1>0, <1>2, <2>1, <2>2, <2>3, WorkingEvolves, MaintenanceEvolves DEF TablesStep
<1>3. DateStep
  <2>1. CASE World \/ UNCHANGED vars
    BY <2>1 DEF World, EditFile, EditCopy, EditAttachment, DaysPass, vars, DateStep
  <2>. QED
    BY <1>0, <2>1, DateSteps DEF Next
<1>. QED
  BY <1>1, <1>2, <1>3 DEF DateStep

(* See CapturedWaits.                                                       *)
THEOREM CapturedEditsAwaitTheUser == Spec => CapturedAwaitsUser
<1>1. FullInv /\ [Next]_vars =>
        [\A r \in swallowed : rows[r].error = "OUTPUT_CONFLICT_CAPTURED" =>
            rows'[r].phase # "published"]_vars
  BY CapturedWaits
<1>. QED
  BY <1>1, FullInit, FullNext, PTL DEF Spec, CapturedAwaitsUser

---------------------------------------------------------------------------
(* The refinement.                                                          *)

LEMMA ReportInit == Init => Report!Init
<1>. SUFFICES ASSUME Init
              PROVE  Report!Init
  OBVIOUS
<1>0. TypeInv /\ RowsInv
  BY TypeInit, DateInit DEF DateInv
<1>1. current \in Runs \cup {NoRun} /\ BodyOf(rows, current) \in Bodies \cup {NoText}
  BY <1>0, BodyType DEF TypeInv, TypeOK
<1>2. Retired = {}
  <2>1. CASE created = 0
    BY <2>1 DEF Retired
  <2>2. ASSUME NEW body \in Bodies, NEW published \in BOOLEAN, MaxRuns >= 1,
               rows = [r \in Runs |-> IF r = 1 THEN HistoricRow(body, published) ELSE NoRow],
               current = (IF published THEN 1 ELSE NoRun), created = 1
        PROVE  Retired = {}
    <3>1. 1 \in Runs
      BY <2>2, MaxRunsAssumption DEF Runs
    <3>2. /\ rows[1].phase = IF published THEN "published" ELSE "db_committed"
          /\ rows[1].error # "RUN_SUPERSEDED"
      BY <2>2, <3>1 DEF HistoricRow, NoRow
    <3>3. \A r \in 1 .. created : r = 1
      BY <2>2
    <3>. QED
      BY <2>2, <3>2, <3>3 DEF Retired
  <2>. QED
    BY <2>1, <2>2 DEF Init
<1>. QED
  BY <1>1, <1>2 DEF Report!Init

(* The current version is not retired.                                      *)
LEMMA RetiredType == FullInv => Retired \subseteq Runs \ {current}
<1>. SUFFICES ASSUME FullInv
              PROVE  Retired \subseteq Runs \ {current}
  OBVIOUS
<1>0. TypeInv /\ HistoryInv /\ RowsInv
  BY DEF FullInv, DateInv
<1>1. Retired \subseteq Runs
  BY <1>0, MaxRunsAssumption DEF Retired, Runs, TypeInv, TypeOK
<1>2. current \notin Retired
  BY <1>0, <1>1 DEF Retired, HistoryInv, PointerIsLast, RowsInv, FinishedAreSettled, Runs, NoRun
<1>. QED
  BY <1>1, <1>2

LEMMA RetiredNext == FullInv' => (Retired \subseteq Runs \ {current})'
BY RetiredType, PTL

LEMMA ReportStep ==
    ASSUME FullInv, FullInv', [Next]_vars
    PROVE  \/ Report!Next
           \/ UNCHANGED <<current, BodyOf(rows, current), Retired>>
<1>0. /\ TypeInv /\ HistoryInv /\ DateInv /\ RowsInv
      /\ rows \in [Runs -> Row] /\ current \in Runs \cup {NoRun} /\ NoRun \notin Runs
      /\ created \in 0 .. MaxRuns /\ MaxRuns \in Nat
  BY MaxRunsAssumption DEF FullInv, DateInv, TypeInv, TypeOK, Runs, NoRun
<1>a. Retired \subseteq Runs \ {current} /\ Retired' \subseteq Runs \ {current'}
  BY RetiredType, RetiredNext
<1>1. CASE UNCHANGED db
  BY <1>1 DEF db, BodyOf, Retired
<1>2. ASSUME \A r \in Runs : Evolves(r), UNCHANGED <<current, created>>
      PROVE  Report!Next
  <2>1. BodyOf(rows, current)' = BodyOf(rows, current)
    BY <1>0, <1>2, EvolvedText
  <2>2. Retired \subseteq Retired'
    <3>. SUFFICES ASSUME NEW r \in Retired
                  PROVE  r \in Retired'
      OBVIOUS
    <3>1. /\ r \in Runs /\ r \in 1 .. created
          /\ \/ rows[r].phase = "absent"
             \/ rows[r].phase = "published" /\ r # current
             \/ rows[r].error = "RUN_SUPERSEDED"
      BY <1>a DEF Retired
    <3>2. \/ rows'[r].phase = "absent"
          \/ rows'[r].phase = "published" /\ r # current
          \/ rows'[r].error = "RUN_SUPERSEDED"
      BY <1>2, <3>1 DEF Evolves, SameRow, Advances
    <3>. QED
      BY <1>2, <3>1, <3>2 DEF Retired
  <2>. QED
    BY <1>2, <1>a, <2>1, <2>2 DEF Report!Next, Report!Retire
<1>3. CASE Creation
  <2>. DEFINE n == created + 1
  <2>0. n \in Runs /\ current' = current /\ created' = n
    BY <1>3 DEF Creation
  <2>1. PICK kind \in Kinds, regen \in BOOLEAN : rows' = [rows EXCEPT ![n] = NewRow(kind, regen)]
    BY <1>3 DEF Creation
  <2>2. \A r \in Runs : r # n => rows'[r] = rows[r]
    BY <1>0, <2>1
  <2>3. current # n
    <3>1. current \in Int /\ current <= created /\ created \in Int
      BY <1>0 DEF HistoryInv, CreatedOnly, Runs, NoRun
    <3>. QED
      BY <3>1
  <2>4. BodyOf(rows, current)' = BodyOf(rows, current)
    BY <1>0, <2>0, <2>2, <2>3 DEF BodyOf
  <2>5. Retired \subseteq Retired'
    <3>. SUFFICES ASSUME NEW r \in Retired
                  PROVE  r \in Retired'
      OBVIOUS
    <3>1. r \in Runs /\ r \in 1 .. created /\ r # n /\ r \in 1 .. n
      BY <1>0, <1>a DEF Retired
    <3>. QED
      BY <2>0, <2>2, <3>1 DEF Retired
  <2>. QED
    BY <1>a, <2>0, <2>4, <2>5 DEF Report!Next, Report!Retire
<1>4. ASSUME NEW r \in Runs, Publishes(r)
      PROVE  Report!Next
  <2>0. Live(r) /\ current' = r /\ created' = created /\ r # current /\ rows'[r].body = rows[r].body
    BY <1>0, <1>4, PublishedRow
  <2>1. r \notin Retired
    BY <1>0, <1>4, <2>0, PublishedRow DEF Retired, Live
  <2>2. BodyOf(rows, current)' = rows[r].body /\ rows[r].body \in Bodies
    BY <1>0, <2>0 DEF BodyOf, RowsInv, StagedHaveBodies, Staged, Live
  <2>3. BodyOf(rows, current) \in Full => rows[r].body \in Full
    BY <1>0, <2>0 DEF RowsInv, LiveKnowThePublished, ItemsNeverLost, Staged, Live
  <2>4. Retired \subseteq Retired'
    <3>. SUFFICES ASSUME NEW s \in Retired
                  PROVE  s \in Retired'
      OBVIOUS
    <3>1. s \in Runs /\ s \in 1 .. created /\ s # r
      BY <1>a, <2>1 DEF Retired
    <3>2. \/ rows'[s] = rows[s]
          \/ rows'[s].error = "RUN_SUPERSEDED"
      BY <1>0, <1>4, <3>1, PublishedRow
    <3>. QED
      BY <2>0, <3>1, <3>2 DEF Retired
  <2>5. current # NoRun => current \in Retired'
    <3>. SUFFICES ASSUME current # NoRun
                  PROVE  current \in Retired'
      OBVIOUS
    <3>1. current \in Runs /\ rows[current].phase = "published" /\ current <= created
      BY <1>0 DEF HistoryInv, PointerIsLast, CreatedOnly
    <3>2. rows'[current].phase = "published"
      BY <1>0, <1>4, <2>0, <3>1, PublishedRow
    <3>3. current \in 1 .. created
      BY <1>0, <3>1 DEF Runs
    <3>. QED
      BY <2>0, <3>2, <3>3 DEF Retired
  <2>6. Report!Publish(r, rows[r].body)
    BY <1>a, <2>0, <2>1, <2>2, <2>3, <2>4, <2>5 DEF Report!Publish
  <2>. QED
    BY <2>2, <2>6 DEF Report!Next
<1>5. CASE TablesStep
  BY <1>0, <1>2, <1>3, <1>4, <1>5, WorkingEvolves, MaintenanceEvolves DEF TablesStep
<1>6. DateStep
  <2>1. CASE World \/ UNCHANGED vars
    BY <2>1 DEF World, EditFile, EditCopy, EditAttachment, DaysPass, vars, DateStep
  <2>. QED
    BY <1>0, <2>1, DateSteps DEF Next
<1>. QED
  BY <1>1, <1>5, <1>6 DEF DateStep

(* The program implements PublishedReport: no crash, repair, resumed run or *)
(* retention step of any number of processes moves the pointer back,        *)
(* revives a superseded run, loses the items or changes the published body  *)
(* (mark_published, compact_personal_until, recover_interrupted).           *)
THEOREM PublicationImplementsReport == Spec => ImplementsPublishedReport
<1>1. FullInv /\ FullInv' /\ [Next]_vars =>
          [Report!Next]_<<current, BodyOf(rows, current), Retired>>
  BY ReportStep
<1>. QED
  BY <1>1, ReportInit, FullInit, FullNext, PTL DEF Spec, ImplementsPublishedReport, Report!Spec

=============================================================================
