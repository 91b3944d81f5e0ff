------------------------------ MODULE ScanRuns ------------------------------
(* The run store of the scanner (scanner_core/src/store): engine processes  *)
(* share one SQLite database in which a scan is a row of scan_runs, the     *)
(* single row of engine_lease says which engine may write, and finished     *)
(* scans keep an artifact that later scans with the same snapshot key       *)
(* reuse.  Every action is one transaction, one read outside a transaction  *)
(* or one step of an engine between them; any of them may be delayed.       *)
(*                                                                          *)
(* Time is relative: lease.age and lease.held are the times since           *)
(* heartbeat_at_ms and acquired_at_ms.  An engine reads its clock before it *)
(* waits for the transaction, so the now_ms it uses lies some lag in the    *)
(* past.  expires_at_ms is heartbeat_at_ms + LEASE_GRACE_MS in every write, *)
(* so the two tests of lease_is_live are one.  All sizes are one unit.      *)
EXTENDS Integers, FiniteSets

CONSTANTS Engine,        \* engine processes
          Request,       \* request ids, each with one canonical request
          Keys,          \* snapshot keys
          Grace,         \* LEASE_GRACE_MS
          MaxCount,      \* TERMINAL_RUN_MAX_COUNT
          MaxArtifacts,  \* CONTEXT_ARTIFACTS_MAX_BYTES
          Batch,         \* RETENTION_DELETE_BATCH_SIZE
          MaxRuns,       \* bound: rows of scan_runs ever inserted
          MaxLag,        \* bound: time between reading the clock and using it
          MaxFaults      \* bound: crashes and failed calls

ASSUME ScanConstants ==
    /\ {Grace, MaxCount, MaxArtifacts, Batch} \subseteq Nat \ {0}
    /\ {MaxRuns, MaxLag, MaxFaults} \subseteq Nat
    /\ {"ineligible", "absent"} \cap Keys = {}
    /\ 0 \notin Engine

VARIABLES lease,      \* engine_lease: the row, or NoLease
          runs,       \* scan_runs with the context_runs and the latest attempt
          created,    \* the AUTOINCREMENT counter of scan_runs
          finished,   \* the pairs of terminal rows ordered by finished_at_ms
          old,        \* the terminal rows older than TERMINAL_RUN_MAX_AGE_DAYS
          artifacts,  \* context_artifacts: the key of an artifact, or "absent"
          made,       \* the AUTOINCREMENT counter of context_artifacts
          eng,        \* what each engine is doing
          faults

vars == <<lease, runs, created, finished, old, artifacts, made, eng, faults>>

RunIds == 1..MaxRuns
None == 0
NoLease == [owner |-> None, age |-> 0, held |-> 0]

(* PersistedRunStatus::is_terminal.                                         *)
Final == {"success", "partial", "error"}
Statuses == Final \cup {"running", "abandoned", "absent"}

(* An engine owns at most one run at a time, so it stands for the random    *)
(* owner_id of that run.  Nothing reads the owner or the fingerprints of a  *)
(* row that is not running: they are forgotten when it stops.               *)
Row == [status   : Statuses,
        request  : Request \cup {None},
        owner    : Engine \cup {None},
        attempt  : Statuses,           \* status of the latest attempt
        workers  : BOOLEAN,            \* its worker fingerprints are recorded
        artifact : RunIds \cup {None},
        reused   : RunIds \cup {None}] \* reused_from_context_run_id

NoRow == [status |-> "absent", request |-> None, owner |-> None, attempt |-> "absent",
          workers |-> FALSE, artifact |-> None, reused |-> None]

(* Mutant: the attempt is forgotten.                                        *)
StopRowOnly(row, status) == [row EXCEPT !.status = status, !.owner = None, !.workers = FALSE]

(* The row and its latest attempt stop running.                             *)
Stop(row, status) == [row EXCEPT !.status = status, !.attempt = status,
                                 !.owner = None, !.workers = FALSE]

Stored == {a \in RunIds : artifacts[a] # "absent"}
Present == {r \in RunIds : runs[r].status # "absent"}
Terminal == {r \in RunIds : runs[r].status \in Final \cup {"abandoned"}}
RowOf(q) == {r \in Present : runs[r].request = q}

EmptyPlan == [arts |-> {}, runs |-> {}, terminal |-> {}]

Idle == [step |-> "idle", run |-> None, out |-> "error", hello |-> TRUE,
         key |-> "ineligible", source |-> None, reuse |-> None, plan |-> EmptyPlan]

Steps == {"idle", "handshake", "work", "prepare", "commit", "abandon", "gc"}

EngineState ==
    [step : Steps, run : RunIds \cup {None},
     out : Final,                      \* FinalizationBatch::status
     hello : BOOLEAN,                  \* no worker handshake has failed
     key : Keys \cup {"ineligible"},   \* snapshot_key
     source : RunIds \cup {None},      \* snapshot_hit: the source run
     reuse : RunIds \cup {None},       \* the artifact hit or deduplicated
     plan : [arts : SUBSET RunIds, runs : SUBSET RunIds, terminal : SUBSET RunIds]]

Init ==
    /\ lease = NoLease
    /\ runs = [r \in RunIds |-> NoRow]
    /\ created = 0 /\ made = 0 /\ faults = 0
    /\ finished = {} /\ old = {}
    /\ artifacts = [a \in RunIds |-> "absent"]
    /\ eng = [e \in Engine |-> Idle]

At(e, step) == eng[e].step = step
Goto(e, step) == eng' = [eng EXCEPT ![e].step = step]
Return(e) == eng' = [eng EXCEPT ![e] = Idle]
Fails == faults < MaxFaults /\ faults' = faults + 1

----------------------------------------------------------------------------
(* lease.rs                                                                 *)

(* Mutant: the time since the clock was read is counted the wrong way.      *)
LiveAtOldClock(lag) == lease # NoLease /\ lease.age + lag < Grace

(* A lease is live at a time lag ago.                                       *)
Live(lag) == lease # NoLease /\ lease.age < lag + Grace

EnsureOwner(e) ==
    /\ runs[eng[e].run].status = "running" /\ runs[eng[e].run].owner = e
    /\ lease.owner = e

(* What an engine may have read from its clock since it took the lease.     *)
Lags == 0..MaxLag
OwnLags == {lag \in Lags : lag <= lease.held}

(* heartbeat_in_transaction                                                 *)
CanBeat(e, lag) == EnsureOwner(e) /\ Live(lag)

Reclaimed(r) == runs[r].owner = lease.owner /\ runs[r].status = "running"

(* Mutant: references to deleted rows stay.                                 *)
DeleteRowsOnly(R, table) == [r \in RunIds |-> IF r \in R THEN NoRow ELSE table[r]]

(* Rows R are gone: the foreign keys clear the references to them.          *)
Delete(R, table) ==
    [r \in RunIds |-> IF r \in R THEN NoRow
                      ELSE IF table[r].reused \in R THEN [table[r] EXCEPT !.reused = None]
                      ELSE table[r]]

(* Mutant: a row keeps its finished_at_ms.                                  *)
WithoutNone(R) == finished

Without(R) == {p \in finished : p[1] \notin R /\ p[2] \notin R}

(* The rows R are deleted or start again, and those of S, of which there is *)
(* never more than one, stop after all that are left.                       *)
Finish(S, R) == Without(R) \cup ((Terminal \ R) \X S)

(* By (finished_at_ms, scan_run_id).                                        *)
Before(r, s) == <<r, s>> \in finished

----------------------------------------------------------------------------
(* begin_run                                                                *)

(* Mutant: an expired lease is never reclaimed.                             *)
StartableUnleased(q, lag) ==
    lease = NoLease /\ \A r \in RowOf(q) : runs[r].status \notin Final

(* A request that is finished gets its stored envelope, and one that finds  *)
(* a live lease is refused; neither changes anything.                       *)
Startable(q, lag) ==
    /\ \A r \in RowOf(q) : runs[r].status \notin Final
    /\ ~Live(lag)

(* An expired lease is reclaimed, then the row of the request is inserted,  *)
(* or restarted when it is abandoned.  (A running row without a lease is    *)
(* RUN_CORRUPT: RunningIsLeased shows that there is none.)                  *)
BeginRun(e, q, lag) ==
    LET lost == {r \in RunIds : lease # NoLease /\ Reclaimed(r)}
        r == IF RowOf(q) = {} THEN created + 1 ELSE CHOOSE x \in RowOf(q) : TRUE
    IN  /\ At(e, "idle") /\ Startable(q, lag)
        /\ r \in RunIds
        /\ runs[r].status \in {"absent", "abandoned"} \/ r \in lost
        /\ lease' = [owner |-> e, age |-> lag, held |-> lag]
        /\ runs' = [x \in RunIds |->
                      IF x = r THEN [NoRow EXCEPT !.status = "running", !.owner = e,
                                       !.request = q, !.attempt = "running"]
                      ELSE IF x \in lost
                             THEN Stop(runs[x], "abandoned")
                      ELSE runs[x]]
        /\ finished' = Finish(lost \ {r}, {r})
        /\ old' = old \ {r}
        /\ created' = IF r > created THEN r ELSE created
        /\ eng' = [eng EXCEPT ![e].step = "handshake", ![e].run = r]
        /\ UNCHANGED <<artifacts, made, faults>>

----------------------------------------------------------------------------
(* The heartbeat thread, from the start of the run to stop().               *)

(* heartbeat: a lost lease is noticed, and the run goes on.                 *)
Heartbeat(e, lag) ==
    /\ eng[e].step \in {"handshake", "work"} /\ CanBeat(e, lag)
    /\ lease' = [lease EXCEPT !.age = lag]
    /\ UNCHANGED <<runs, created, finished, old, artifacts, made, eng, faults>>

----------------------------------------------------------------------------
(* execute_active_build                                                     *)

(* ActiveRunTiming::start fails, before the thread is started.              *)
TimingFails(e) ==
    /\ At(e, "handshake") /\ Fails
    /\ Goto(e, "abandon")
    /\ UNCHANGED <<lease, runs, created, finished, old, artifacts, made>>

(* No time is left for the handshake: an error without fingerprints.        *)
HandshakeLate(e) ==
    /\ At(e, "handshake")
    /\ Goto(e, "prepare")
    /\ UNCHANGED <<lease, runs, created, finished, old, artifacts, made, faults>>

(* record_worker_fingerprints; without both workers the run ends in error.  *)
RecordWorkers(e, ok, lag) ==
    /\ At(e, "handshake") /\ CanBeat(e, lag)
    /\ lease' = [lease EXCEPT !.age = lag]
    /\ runs' = [runs EXCEPT ![eng[e].run].workers = ok]
    /\ eng' = [eng EXCEPT ![e].step = IF ok THEN "work" ELSE "prepare", ![e].hello = ok]
    /\ UNCHANGED <<created, finished, old, artifacts, made, faults>>

(* LeaseLost: the run is left as it is.                                     *)
RecordLost(e, lag) ==
    /\ At(e, "handshake") /\ ~CanBeat(e, lag)
    /\ Return(e)
    /\ UNCHANGED <<lease, runs, created, finished, old, artifacts, made, faults>>

(* snapshot_lookup: the latest successful run with an artifact of this key. *)
Sources(k) == {r \in RunIds : runs[r].status = "success" /\ artifacts[runs[r].artifact] = k}

FinishHit(e, k) ==
    /\ At(e, "work")
    /\ \E s \in Sources(k) :
          /\ \A y \in Sources(k) : y = s \/ Before(y, s)
          /\ eng' = [eng EXCEPT ![e].step = "prepare", ![e].out = "success",
                       ![e].source = s, ![e].reuse = runs[s].artifact]
    /\ UNCHANGED <<lease, runs, created, finished, old, artifacts, made, faults>>

(* The scan was made: no hit, or files changed since.  Only a success       *)
(* without warnings is eligible for a key.                                  *)
FinishScan(e, out, k) ==
    /\ At(e, "work")
    /\ k # "ineligible" => out = "success"
    /\ eng' = [eng EXCEPT ![e].step = "prepare", ![e].out = out, ![e].key = k]
    /\ UNCHANGED <<lease, runs, created, finished, old, artifacts, made, faults>>

----------------------------------------------------------------------------
(* retention.rs: the victims are chosen before the transaction.             *)

(* The first n by (finished_at_ms, scan_run_id), or by artifact_id.         *)
OldestRuns(R, n) == {r \in R : Cardinality({s \in R : Before(s, r)}) < n}
OldestArtifacts(A, n) == {a \in A : Cardinality({b \in A : b < a}) < n}

(* Mutant: only successful runs count as references.                        *)
OrphansOfSuccess(A, R) ==
    {a \in A : \A r \in R : runs[r].status = "success" => runs[r].artifact # a}

Orphans(A, R) == {a \in A : \A r \in R : runs[r].artifact # a}

(* Mutant: the source of a hit is not protected.                            *)
ProtectedCurrent(e) == {eng[e].run}

(* The artifact reused by e's run, if any, and the run it was found in.     *)
ProtectedRuns(e) == {eng[e].run, eng[e].source} \ {None}
Dedup(e) == {a \in Stored : artifacts[a] = eng[e].key /\ eng[e].key # "ineligible"}
Reused(e) == IF eng[e].reuse # None THEN {eng[e].reuse} ELSE Dedup(e)
MakesArtifact(e) == eng[e].out # "error" /\ Reused(e) = {}

(* Mutant: off by one.                                                      *)
OverByOne(p) == Cardinality(Stored \ p.arts) > MaxArtifacts

(* Room for one more artifact: orphans first, then the oldest runs, which   *)
(* make more orphans.                                                       *)
Over(p) == Cardinality(Stored \ p.arts) + 1 > MaxArtifacts

(* Mutant: runs are planned for deletion, the artifacts they leave are not. *)
RoomStepRunsOnly(e, p) ==
    [p EXCEPT !.runs = @ \cup OldestRuns(Terminal \ (p.runs \cup ProtectedRuns(e)), Batch)]

RoomStep(e, p) ==
    LET orphans == Orphans(Stored \ p.arts, Present \ p.runs) \ Reused(e)
    IN  IF orphans # {}
          THEN [p EXCEPT !.arts = @ \cup OldestArtifacts(orphans, Batch)]
          ELSE [p EXCEPT !.runs = @ \cup OldestRuns(Terminal \ (p.runs \cup ProtectedRuns(e)), Batch)]

RoomSteps(e) ==
    LET plan[n \in 0..(2 * MaxRuns)] ==
          IF n = 0 THEN EmptyPlan
          ELSE IF Over(plan[n - 1]) THEN RoomStep(e, plan[n - 1]) ELSE plan[n - 1]
    IN  plan

Room(e) == IF MakesArtifact(e) THEN RoomSteps(e)[2 * MaxRuns] ELSE EmptyPlan

(* Mutant: the current run is not counted.                                  *)
TerminalVictimsOfOthers(e, p) ==
    LET aged == (Terminal \cap old) \ (p.runs \cup ProtectedRuns(e))
        left == Terminal \ (p.runs \cup aged)
    IN  aged \cup OldestRuns(left \ ProtectedRuns(e), Cardinality(left) - MaxCount)

(* Then the runs past their age, and the oldest above the cap.              *)
TerminalVictims(e, p) ==
    LET aged == (Terminal \cap old) \ (p.runs \cup ProtectedRuns(e))
        left == Terminal \ (p.runs \cup aged)
    IN  aged \cup OldestRuns(left \ ProtectedRuns(e), Cardinality(left) + 1 - MaxCount)

(* prepare_finalization_retention_plan fails when no choice makes room.     *)
HasRoom(e, p) == MakesArtifact(e) => ~Over(p)
HasCount(R) == Cardinality(Terminal \ R) + 1 <= MaxCount

Prepare(e) ==
    LET room == Room(e)
        plan == [room EXCEPT !.terminal = TerminalVictims(e, room)]
    IN  /\ At(e, "prepare")
        /\ eng[e].run \notin Terminal
        /\ eng[e].source # None => eng[e].reuse \in Stored
        /\ HasRoom(e, plan) /\ HasCount(plan.runs \cup plan.terminal)
        /\ eng' = [eng EXCEPT ![e].step = "commit", ![e].plan = plan,
                     ![e].reuse = IF eng[e].out # "error" /\ Reused(e) # {}
                                    THEN CHOOSE a \in Reused(e) : TRUE ELSE None]
        /\ UNCHANGED <<lease, runs, created, finished, old, artifacts, made, faults>>

PrepareFails(e) ==
    LET room == Room(e)
    IN  /\ At(e, "prepare")
        /\ \/ eng[e].run \in Terminal
           \/ eng[e].source # None /\ eng[e].reuse \notin Stored
           \/ ~HasRoom(e, room)
           \/ ~HasCount(room.runs \cup TerminalVictims(e, room))
        /\ Goto(e, "abandon")
        /\ UNCHANGED <<lease, runs, created, finished, old, artifacts, made, faults>>

----------------------------------------------------------------------------
(* finalize: the terminal transaction.                                      *)

(* The worker fingerprints are required unless the handshake failed.        *)
Identified(e) == runs[eng[e].run].workers \/ ~eng[e].hello

(* What the plan and the hit were computed from still holds.                *)
PlanHolds(e) ==
    LET p == eng[e].plan
    IN  /\ p.runs \cup p.terminal \subseteq Terminal
        /\ p.arts \subseteq Orphans(Stored, Present \ p.runs)
        /\ HasCount(p.runs \cup p.terminal)
        /\ eng[e].reuse # None => eng[e].reuse \in Stored
        /\ eng[e].source # None => eng[e].source \in Present
        /\ eng[e].reuse = None /\ eng[e].out # "error" => ~Over(p)

CanCommit(e, lag) == CanBeat(e, lag) /\ Identified(e) /\ PlanHolds(e)

Commit(e, lag) ==
    LET p == eng[e].plan
        r == eng[e].run
        gone == p.runs \cup p.terminal
        new == eng[e].reuse = None /\ eng[e].out # "error"
    IN  /\ At(e, "commit") /\ CanCommit(e, lag)
        /\ runs' = Delete(gone, [runs EXCEPT ![r] =
                     [Stop(@, eng[e].out) EXCEPT
                        !.artifact = IF new THEN made + 1 ELSE eng[e].reuse,
                        !.reused = eng[e].source]])
        /\ artifacts' = [a \in RunIds |-> IF a \in p.arts THEN "absent"
                                          ELSE IF new /\ a = made + 1 THEN eng[e].key
                                          ELSE artifacts[a]]
        /\ made' = IF new THEN made + 1 ELSE made
        /\ finished' = Finish({r}, gone)
        /\ old' = old \ gone
        /\ lease' = NoLease
        /\ eng' = [eng EXCEPT ![e] = [Idle EXCEPT !.step = "gc"]]
        /\ UNCHANGED <<created, faults>>

(* A check of the transaction fails, the deadline passes, or it is busy.    *)
CommitFails(e, lag) ==
    /\ At(e, "commit")
    /\ IF CanCommit(e, lag) THEN Fails ELSE UNCHANGED faults
    /\ Goto(e, "abandon")
    /\ UNCHANGED <<lease, runs, created, finished, old, artifacts, made>>

(* Mutant: the run of another owner, which has finished it, is abandoned.   *)
AbandonFinished(e) ==
    LET r == eng[e].run
    IN  /\ At(e, "abandon") /\ (EnsureOwner(e) \/ runs[r].status \in Final)
        /\ runs' = [runs EXCEPT ![r] = [Stop(@, "abandoned") EXCEPT !.artifact = None,
                                                                   !.reused = None]]
        /\ finished' = Finish({r}, {r})
        /\ lease' = IF lease.owner = e THEN NoLease ELSE lease
        /\ Return(e)
        /\ UNCHANGED <<created, old, artifacts, made, faults>>

(* abandon_active_run: whoever still owns the run lets it go.               *)
Abandon(e) ==
    /\ At(e, "abandon") /\ EnsureOwner(e)
    /\ runs' = [runs EXCEPT ![eng[e].run] = Stop(@, "abandoned")]
    /\ finished' = Finish({eng[e].run}, {})
    /\ lease' = NoLease
    /\ Return(e)
    /\ UNCHANGED <<created, old, artifacts, made, faults>>

(* LeaseLost, or the database is busy.                                      *)
AbandonFails(e) ==
    /\ At(e, "abandon")
    /\ IF EnsureOwner(e) THEN Fails ELSE UNCHANGED faults
    /\ Return(e)
    /\ UNCHANGED <<lease, runs, created, finished, old, artifacts, made>>

(* run_opportunistic_gc, after the lease was given back.                    *)
Gc(e) ==
    LET arts == OldestArtifacts(Orphans(Stored, Present), Batch)
        gone == OldestRuns(Terminal \cap old, Batch)
    IN  /\ At(e, "gc")
        /\ runs' = Delete(gone, runs)
        /\ artifacts' = [a \in RunIds |-> IF a \in arts THEN "absent" ELSE artifacts[a]]
        /\ finished' = Finish({}, gone)
        /\ old' = old \ gone
        /\ Return(e)
        /\ UNCHANGED <<lease, created, made, faults>>

SkipGc(e) ==
    /\ At(e, "gc")
    /\ Return(e)
    /\ UNCHANGED <<lease, runs, created, finished, old, artifacts, made, faults>>

----------------------------------------------------------------------------
(* The world.                                                               *)

(* The process ends, its heartbeat thread with it; or the scan ends with an *)
(* error after which nothing is written and the row stays running.          *)
Crash(e) ==
    /\ ~At(e, "idle") /\ Fails
    /\ Return(e)
    /\ UNCHANGED <<lease, runs, created, finished, old, artifacts, made>>

(* Past Grace + MaxLag no clock anybody has read can call the lease live.   *)
Older(t) == IF t < Grace + MaxLag THEN t + 1 ELSE t

Tick ==
    /\ lease # NoLease
    /\ lease' = [lease EXCEPT !.age = Older(@), !.held = Older(@)]
    /\ UNCHANGED <<runs, created, finished, old, artifacts, made, eng, faults>>

(* Ninety days after the oldest young row finished.                         *)
Age ==
    /\ \E r \in Terminal \ old :
          /\ \A s \in Terminal \ old : s = r \/ Before(r, s)
          /\ old' = old \cup {r}
    /\ UNCHANGED <<lease, runs, created, finished, artifacts, made, eng, faults>>

Step(e) ==
    \/ HandshakeLate(e)
    \/ \E lag \in OwnLags :
          \/ \E ok \in BOOLEAN : RecordWorkers(e, ok, lag)
          \/ RecordLost(e, lag)
          \/ Commit(e, lag) \/ CommitFails(e, lag)
    \/ (\E k \in Keys : FinishHit(e, k))
    \/ (\E out \in Final, k \in Keys \cup {"ineligible"} : FinishScan(e, out, k))
    \/ Prepare(e) \/ PrepareFails(e)
    \/ Abandon(e) \/ AbandonFails(e)
    \/ Gc(e) \/ SkipGc(e)

Fault(e) == TimingFails(e) \/ Crash(e)

Begin(e) == \E q \in Request, lag \in Lags : BeginRun(e, q, lag)

Next ==
    \/ \E e \in Engine :
          \/ Begin(e)
          \/ \E lag \in OwnLags : Heartbeat(e, lag)
          \/ Step(e)
          \/ Fault(e)
    \/ Tick
    \/ Age

Spec == Init /\ [][Next]_vars

(* Engines go on, time passes, and a request is made again and again.       *)
FairSpec ==
    /\ Spec
    /\ WF_vars(Tick)
    /\ \A e \in Engine : WF_vars(Step(e)) /\ SF_vars(Begin(e))

----------------------------------------------------------------------------
(* Properties                                                               *)

TypeOK ==
    /\ lease \in {NoLease} \cup [owner : Engine, age : 0..(Grace + MaxLag), held : 0..(Grace + MaxLag)]
    /\ runs \in [RunIds -> Row]
    /\ created \in 0..MaxRuns /\ made \in 0..MaxRuns /\ faults \in 0..MaxFaults
    /\ finished \subseteq Terminal \X Terminal /\ old \subseteq Terminal
    /\ artifacts \in [RunIds -> Keys \cup {"ineligible", "absent"}]
    /\ eng \in [Engine -> EngineState]

(* The terminal rows are in one order.                                      *)
FinishedIsOrder ==
    /\ \A r \in Terminal : ~Before(r, r)
    /\ \A r, s \in Terminal : r = s \/ Before(r, s) \/ Before(s, r)
    /\ \A r, s, t \in Terminal : Before(r, s) /\ Before(s, t) => Before(r, t)

(* A row is running exactly while the engine named in it holds the lease,   *)
(* and there is one such row: begin_run never meets the running row without *)
(* a lease that it calls RUN_CORRUPT, and no lease is left without a run    *)
(* that it protects.  The latest attempt says the same as the row.          *)
RunningIsLeased ==
    /\ \A r \in RunIds :
          /\ runs[r].status = "running" => lease.owner = runs[r].owner
          /\ runs[r].attempt = runs[r].status
    /\ lease # NoLease =>
          \E r \in RunIds : \A s \in RunIds : (runs[s].status = "running") <=> (s = r)

(* begin_run rebuilds the envelope of a finished run from its artifact, so  *)
(* the artifact of a success or partial run is never collected before it.   *)
FinishedRunsReplay ==
    \A r \in RunIds :
        /\ runs[r].status \in {"success", "partial"} => runs[r].artifact \in Stored
        /\ runs[r].status \in {"error", "abandoned"} => runs[r].artifact = None

(* The source named by a reused context is a successful run with the same   *)
(* eligible artifact, whatever retention and GC delete.                     *)
ReuseIsGrounded ==
    \A r \in RunIds :
        LET s == runs[r].reused
        IN  s # None => /\ runs[s].status = "success"
                        /\ runs[s].artifact = runs[r].artifact
                        /\ artifacts[runs[r].artifact] \in Keys

(* A plan made before the transaction still keeps the artifacts within      *)
(* CONTEXT_ARTIFACTS_MAX_BYTES when it is applied.                          *)
ArtifactsWithinCap == Cardinality(Stored) <= MaxArtifacts

(* Retention always makes room for the result of an engine that still owns  *)
(* its run, if the rows it protects fit the cap at all, so that the errors  *)
(* "could not make room" of prepare_finalization_retention_plan are never   *)
(* the end of a good scan.                                                  *)
RetentionMakesRoom ==
    \A e \in Engine :
        At(e, "prepare") /\ EnsureOwner(e) /\ Cardinality(ProtectedRuns(e)) <= MaxCount =>
            LET room == Room(e)
            IN  HasRoom(e, room) /\ HasCount(room.runs \cup TerminalVictims(e, room))

(* The tables of the store agree with the lease and with their caps,        *)
(* whatever retention, GC and stalled engines do.                           *)
StoreIsSound ==
    TypeOK /\ FinishedIsOrder /\ RunningIsLeased /\ ArtifactsWithinCap /\ RetentionMakesRoom

(* What a finished run refers to is there: its artifact, and the source of  *)
(* the artifact it reused.                                                  *)
ResultsReplay == FinishedRunsReplay /\ ReuseIsGrounded

(* A lease that is live now is never taken from its owner, however old the  *)
(* now_ms is that begin_run judges it by.                                   *)
LiveLeaseIsKept ==
    [][lease # NoLease /\ lease.age < Grace /\ lease' # NoLease
          => lease'.owner = lease.owner]_vars

(* The protected set of finalize: the run a snapshot hit was found in       *)
(* survives the finalization that reuses its artifact.                      *)
SourceSurvives ==
    [][\A e \in Engine :
          At(e, "commit") /\ eng'[e].step = "gc" /\ eng[e].source # None
             => runs'[eng[e].source].status = "success"]_vars

(* A running row is never deleted, and a finished one only changes by being *)
(* deleted or by losing its source: neither an engine that lost its lease   *)
(* nor a plan made too early can undo a result.                             *)
ResultsAreFinal ==
    [][\A r \in RunIds :
          /\ runs[r].status = "running" => runs'[r].status # "absent"
          /\ runs[r].status \in Final =>
                runs'[r] \in {runs[r], [runs[r] EXCEPT !.reused = None], NoRow}]_vars

(* No step of any engine undoes what another run has stored or relies on.   *)
ResultsStay == ResultsAreFinal /\ SourceSurvives

(* The lease of an engine that died or gave up blocks nobody for ever: it   *)
(* expires, and the next begin_run takes its place.                         *)
DeadLeaseIsReplaced ==
    \A e \in Engine :
        (lease.owner = e /\ At(e, "idle")) ~> (lease.owner # e \/ ~At(e, "idle"))

=============================================================================
