------------------------------ MODULE ScanBuild ------------------------------
(***************************************************************************)
(* One build_context command from the call to its answer (scanner.rs,      *)
(* run.rs, sources.rs, artifact.rs, the discovery crate, the final checks  *)
(* of store/runs.rs and the evidence of context_audit.rs): preflight,      *)
(* discovery and guards, the inventory, the snapshot of an equal scan or a *)
(* scan, the fingerprints of the excerpts, the terminal commit and the     *)
(* evidence read back after it.                                            *)
(*                                                                         *)
(* Composed by contract: ScanRuns has the clocks of the lease, retention   *)
(* and replay; ScanScheduler the waves of a scan, here one step with its   *)
(* outcome; ScanCache the cap of the parse cache, here a row that may be   *)
(* gone.  The bytes of a file are named by its guard, which never recurs.  *)
(***************************************************************************)
EXTENDS Integers, Sequences, FiniteSets, FiniteSetsExt, SequencesExt, Functions

CONSTANTS
    Files,        \* the files of the work directory, in report order
    Requests,     \* request ids
    Windowed,     \* those with a window: guards are re-observed, excerpts required
    Engines,      \* processes with a Scanner
    MaxRuns,      \* bound: attempts begun
    MaxRewrites,  \* bound: files rewritten
    MaxFaults,    \* bound: crashes, stalls, failures, evictions
    MaxTime       \* bound: a span of a snapshot hit, in milliseconds

Names == Range(Files)

ASSUME BuildAssumption ==
    /\ Files \in Seq(Names)
    /\ Windowed \subseteq Requests
    /\ {MaxRuns, MaxRewrites, MaxFaults, MaxTime} \subseteq Nat

VARIABLES
    disk,       \* each file: its version (mtime and size) and guard
    inventory,  \* file_inventory: version, guard and the run that saw it last
    parse,      \* parse_cache: texts by file, version and guard
    runs,       \* scan_runs with their rows, context_runs and artifacts
    lease,      \* the attempt that holds the engine lease
    eng,        \* the command of every engine
    kept,       \* the sources in every Scanner's resources
    answer,     \* the ContextResult of every engine's last command
    rewrites, faults

vars == <<disk, inventory, parse, runs, lease, eng, kept, answer, rewrites, faults>>
tables == <<inventory, parse, runs, lease>>

NoText == -1
NoAttempt == <<0, 0>>
NoRow == [status |-> "none", text |-> NoText]
NoSource == [status |-> "none", text |-> NoText, hash |-> NoText, by |-> NoAttempt]
NoSources == [f \in Names |-> NoSource]
NoRows == [f \in Names |-> NoRow]
Unseen == [f \in Names |-> [version |-> 0, guard |-> NoText]]
NoTime == [lookup |-> 0, other |-> 0]

Idle == [pc |-> "idle", request |-> "none", run |-> 0, attempt |-> 0, found |-> {},
         seen |-> Unseen, rows |-> NoRows, from |-> 0, time |-> NoTime, kind |-> "none",
         warned |-> FALSE, refused |-> FALSE, at |-> "none"]
NoAnswer == [request |-> "none", run |-> 0, attempt |-> 0, evidence |-> Unseen,
             sources |-> NoSources]

Init ==
    /\ disk = [f \in Names |-> [version |-> 0, guard |-> 0]]
    /\ inventory = [f \in Names |-> [version |-> 0, guard |-> NoText, run |-> 0]]
    /\ parse = {} /\ runs = <<>> /\ lease = NoAttempt
    /\ eng = [e \in Engines |-> Idle]
    /\ kept = [e \in Engines |-> NoSources]
    /\ answer = [e \in Engines |-> NoAnswer]
    /\ rewrites = 0 /\ faults = 0

-----------------------------------------------------------------------------
(* What the steps ask.                                                      *)

Strict(e) == eng[e].request \in Windowed
Attempt(c) == <<c.run, c.attempt>>

(* ensure_owner: the owner id is fresh for every attempt.                    *)
Owned(e) == lease = Attempt(eng[e])
Terminal(r) == runs[r].status \in {"success", "partial", "error"}
Stored(q) == {r \in DOMAIN runs : runs[r].request = q /\ Terminal(r)}

(* SourceGuardObserver::verify of a guard that discovery computed.  It keeps   *)
(* a mismatch in mind; a guard that is gone never recurs here either.        *)
VerifiedNever(e, f) == eng[e].seen[f].guard # NoText
Verified(e, f) ==
    /\ eng[e].seen[f].guard # NoText
    /\ Strict(e) => disk[f].guard = eng[e].seen[f].guard

(* metadata_matches_discovery.                                               *)
MetadataMatches(e, f) == disk[f].version = eng[e].seen[f].version

(* snapshot_key_parts: what the answer depends on.                           *)
SnapshotKey(request, found, seen) == <<request \in Windowed, found, seen>>

CacheKey(e, f) == <<f, eng[e].seen[f].version, eng[e].seen[f].guard>>
Cached(e, f) == {r \in parse : r.key = CacheKey(e, f)}

With(found, rows, statuses) == {f \in found : rows[f].status \in statuses}
Failing == {"error", "timeout"}

(* The outcome of a scan: failing files or files discovery missed make it     *)
(* partial, or an error when nothing is left to report.                      *)
Outcome(found, rows) ==
    IF With(found, rows, Failing) = {} /\ found = Names THEN "success"
    ELSE IF With(found, rows, Failing) # {} /\ With(found, rows, {"success"}) = {} THEN "error"
    ELSE "partial"

(* build_batch_artifact: only a clean success without a warning may answer    *)
(* another scan.                                                             *)
EligibleAlways(c) == c.kind # "error"
Eligible(c) == c.kind = "success" /\ ~c.warned /\ With(c.found, c.rows, Failing) = {}

(* collect_sources.                                                          *)
SourcesOf(c, rows) ==
    [f \in Names |-> IF f \in c.found
                     THEN [status |-> rows[f].status, text |-> rows[f].text, hash |-> NoText,
                           by |-> Attempt(c)]
                     ELSE NoSource]

(* snapshot_sources: every text of the artifact is still in the parse cache.  *)
TextsSurvive(e, rows) ==
    \A f \in eng[e].found :
        rows[f].status = "success" => \E r \in Cached(e, f) : r.text = rows[f].text

-----------------------------------------------------------------------------
(* What a run commits: its rows, a decision for every file and a summary.      *)

Tally(found, rows) ==
    [files |-> Cardinality(found), success |-> Cardinality(With(found, rows, {"success"})),
     timeout |-> Cardinality(With(found, rows, {"timeout"})),
     error |-> Cardinality(With(found, rows, {"error"}))]
Left(t) == t.files - t.success - t.timeout - t.error

Action(row) ==
    CASE row.status = "success" -> "keep"
      [] row.status \in Failing -> "error"
      [] row.status = "not_parsed" -> "omit"
Decisions(found, rows) == [f \in found |-> Action(rows[f])]
Having(decisions, a) == Cardinality({f \in DOMAIN decisions : decisions[f] = a})
Summary(t, included, omitted) == <<t.files, t.success, t.timeout, t.error, included, omitted>>

(* The scheduler's context: the decisions as they were rendered.             *)
ScanContext(found, rows) ==
    LET decisions == Decisions(found, rows)
    IN [decisions |-> decisions,
        summary |-> Summary(Tally(found, rows), Having(decisions, "keep"),
                            Having(decisions, "omit"))]

(* build_error_context_record: an error has none, so one is derived.         *)
ErrorContextOfFailures(found, rows) ==
    LET t == Tally(found, rows)
    IN [decisions |-> Decisions(found, rows),
        summary |-> Summary([t EXCEPT !.error = @ + t.timeout], t.success, Left(t))]
ErrorContext(found, rows) ==
    LET t == Tally(found, rows)
    IN [decisions |-> Decisions(found, rows), summary |-> Summary(t, t.success, Left(t))]

(* Durations: those of the stages together, and the whole.  What both sums     *)
(* contain is left out.  A scan, and the error derived from one, add up the  *)
(* stages; a hit charges its lookup to the stages Cache and Context and      *)
(* measures the whole, where whatever is of no stage comes in: handshakes,   *)
(* snapshot_sources, fingerprint_sources.                                    *)
SummedTime == [stages |-> 0, total |-> 0]
HitTime(c) == [stages |-> 2 * c.time.lookup, total |-> c.time.lookup + c.time.other]

BatchOf(status, found, rows, context, time) ==
    [status |-> status, found |-> found, rows |-> rows, context |-> context, time |-> time]
NoBatch == BatchOf("none", {}, NoRows, ScanContext({}, NoRows), SummedTime)

(* persist_active_error_without_heartbeat: an error without rows.            *)
FailedBatch == [NoBatch EXCEPT !.status = "error"]

(* finalize_snapshot_hit: the decisions and counts of the artifact.          *)
SnapshotBatch(c) ==
    BatchOf("success", c.found, c.rows, runs[c.from].batch.context, HitTime(c))

(* scheduler_outcome_envelope.                                               *)
ScanBatch(c) ==
    BatchOf(c.kind, c.found, c.rows,
            IF c.kind = "error" THEN ErrorContext(c.found, c.rows)
            ELSE ScanContext(c.found, c.rows), SummedTime)

Batch(c) == IF c.pc = "fail" THEN FailedBatch
            ELSE IF c.from # 0 THEN SnapshotBatch(c) ELSE ScanBatch(c)

(* validate_context_relations: the count equations.                          *)
CountsHold(b) ==
    LET t == Tally(b.found, b.rows)
        d == b.context.decisions
    IN /\ DOMAIN d = b.found
       /\ b.context.summary = Summary(t, Having(d, "keep"), Having(d, "omit"))
       /\ Having(d, "keep") = t.success /\ Having(d, "omit") = Left(t)
       /\ Having(d, "error") = t.error + t.timeout

(* validate_context_relations: no whole shorter than the sum of its stages.    *)
DurationsHold(b) == b.time.stages <= b.time.total

(* validate_finalization: the counts, the durations, and every row.           *)
BatchValid(c) ==
    LET b == Batch(c)
    IN /\ CountsHold(b) /\ DurationsHold(b)
       /\ c.pc = "print" /\ c.from # 0 => With(b.found, b.rows, Failing) = {}
       /\ c.pc = "print" => ~c.refused

NewRun == [request |-> "none", status |-> "running", attempt |-> 1, seen |-> Unseen,
           batch |-> NoBatch, artifact |-> 0, eligible |-> FALSE, warned |-> FALSE, from |-> 0]

(* validate_relational_summary: the equations over what was stored.          *)
SummaryHolds(b) ==
    LET t == Tally(b.found, b.rows)
        d == b.context.decisions
    IN /\ DOMAIN d \subseteq b.found /\ Cardinality(DOMAIN d) = t.files
       /\ b.context.summary = Summary(t, t.success, Left(t))
       /\ \A f \in DOMAIN d : d[f] = Action(b.rows[f])
       /\ DurationsHold(b)

(* assemble_scanner_evidence: what the status says of artifact and reuse.     *)
ProvenanceHolds(run) ==
    /\ run.status = "error" <=> run.artifact = 0
    /\ run.from # 0 => run.artifact # 0

(* load_evidence_snapshot: a run that did not end shows nothing.             *)
Loadable(r) ==
    IF Terminal(r) THEN /\ runs[r].batch.status = runs[r].status
                        /\ SummaryHolds(runs[r].batch)
                        /\ ProvenanceHolds(runs[r])
    ELSE runs[r].batch = NoBatch

(* load_file_audits_v2: the rows of the run, joined with the inventory of now. *)
EvidenceOf(r) ==
    [f \in Names |-> IF f \in runs[r].batch.found
                     THEN [version |-> runs[r].seen[f].version, guard |-> inventory[f].guard]
                     ELSE Unseen[f]]

Goto(e, pc) == eng' = [eng EXCEPT ![e].pc = pc]
Fault == faults < MaxFaults /\ faults' = faults + 1

-----------------------------------------------------------------------------
(* The call.                                                                *)

(* Bound: the rest of the world moves while a run is at work or to come.     *)
Begun == FoldSeq(LAMBDA run, n : n + run.attempt, 0, runs)
Observed == Begun < MaxRuns \/ \E e \in Engines : eng[e].pc # "idle"

(* Every command begins by clearing the sources the last one left.           *)
ClearedNever(e) == kept[e]
Cleared(e) == NoSources

(* Dead: nobody works for the run that holds the lease.                      *)
Dead == \A e \in Engines : eng[e].pc = "idle" \/ ~Owned(e)

(* A request that does not validate, a lease that is held, a store that does  *)
(* not answer.                                                               *)
Refuse(e, q) ==
    /\ eng[e].pc = "idle" /\ Observed /\ Stored(q) = {}
    /\ \/ lease # NoAttempt /\ UNCHANGED faults
       \/ lease = NoAttempt /\ Fault
    /\ answer' = [answer EXCEPT ![e] = [NoAnswer EXCEPT !.request = q, !.sources = Cleared(e)]]
    /\ kept' = [kept EXCEPT ![e] = NoSources]
    /\ UNCHANGED <<disk, tables, eng, rewrites>>

(* A request that was answered is answered again from its run.               *)
Replay(e, q) ==
    /\ eng[e].pc = "idle" /\ Observed
    /\ \E r \in Stored(q) :
           eng' = [eng EXCEPT ![e] = [Idle EXCEPT !.pc = "evidence", !.request = q, !.run = r]]
    /\ kept' = [kept EXCEPT ![e] = Cleared(e)]
    /\ answer' = [answer EXCEPT ![e] = NoAnswer]
    /\ UNCHANGED <<disk, tables, rewrites, faults>>

(* reclaim_expired_lease: the run of a holder that does not renew is abandoned. *)
Reclaimed ==
    [r \in DOMAIN runs |-> IF r = lease[1] THEN [runs[r] EXCEPT !.status = "abandoned"]
                           ELSE runs[r]]

(* begin_run: a holder that is dead, or does not renew in time, is replaced;   *)
(* a request whose run was abandoned gets another attempt at that run.       *)
Start(e, q) ==
    /\ eng[e].pc = "idle" /\ Stored(q) = {} /\ Begun < MaxRuns
    /\ \/ (lease = NoAttempt \/ Dead) /\ UNCHANGED faults
       \/ lease # NoAttempt /\ ~Dead /\ Fault
    /\ LET again == {r \in DOMAIN runs : runs[r].request = q}
           r == IF again = {} THEN Len(runs) + 1 ELSE Max(again)
           run == [NewRun EXCEPT !.request = q,
                                 !.attempt = IF again = {} THEN 1 ELSE runs[r].attempt + 1]
       IN /\ runs' = IF again = {} THEN Append(Reclaimed, run) ELSE [Reclaimed EXCEPT ![r] = run]
          /\ lease' = Attempt([run |-> r, attempt |-> run.attempt])
          /\ eng' = [eng EXCEPT ![e] = [Idle EXCEPT !.pc = "preflight", !.request = q,
                                                     !.run = r, !.attempt = run.attempt]]
    /\ kept' = [kept EXCEPT ![e] = Cleared(e)]
    /\ answer' = [answer EXCEPT ![e] = NoAnswer]
    /\ UNCHANGED <<disk, inventory, parse, rewrites>>

-----------------------------------------------------------------------------
(* The pipeline.                                                            *)

(* Handshakes, and their fingerprints recorded under the lease; when that      *)
(* fails the command ends and leaves its run running.                        *)
Preflight(e) ==
    /\ eng[e].pc = "preflight"
    /\ \/ Owned(e) /\ Goto(e, "discover") /\ UNCHANGED faults
       \/ Owned(e) /\ Fault /\ Goto(e, "fail")
       \/ Owned(e) /\ Fault /\ Goto(e, "evidence")
       \/ ~Owned(e) /\ Goto(e, "evidence") /\ UNCHANGED faults
    /\ UNCHANGED <<disk, tables, kept, answer, rewrites>>

(* discover_files_report: a directory or file it cannot read is an issue.     *)
Report(found) ==
    [f \in Names |-> IF f \in found THEN [version |-> disk[f].version, guard |-> NoText]
                     ELSE Unseen[f]]

Discover(e, found) ==
    /\ eng[e].pc = "discover"
    /\ \/ found = Names /\ UNCHANGED faults
       \/ found # Names /\ Fault
    /\ eng' = [eng EXCEPT ![e].pc = "guards", ![e].found = found, ![e].seen = Report(found)]
    /\ UNCHANGED <<disk, tables, kept, answer, rewrites>>

(* Discovery out of time; a hash, prepare, lookup, artifact or scan that fails. *)
StageFails(e) ==
    /\ eng[e].pc \in {"discover", "inventory", "lookup", "reuse", "scan"} /\ Fault
    /\ Goto(e, "fail")
    /\ UNCHANGED <<disk, tables, kept, answer, rewrites>>

(* attach_source_guards; a guard that cannot be computed stays unavailable.   *)
AttachGuards(e, lost) ==
    /\ eng[e].pc = "guards" /\ lost \subseteq eng[e].found
    /\ \/ lost = {} /\ UNCHANGED faults
       \/ lost # {} /\ Fault
    /\ eng' = [eng EXCEPT ![e].pc = "inventory",
                 ![e].seen = [f \in Names |-> IF f \in eng[e].found \ lost
                                THEN [@[f] EXCEPT !.guard = disk[f].guard] ELSE @[f]]]
    /\ UNCHANGED <<disk, tables, kept, answer, rewrites>>

(* prepare_inventory does not ask for the lease.                             *)
PrepareInventory(e) ==
    /\ eng[e].pc = "inventory"
    /\ inventory' = [f \in Names |->
                        IF f \in eng[e].found
                        THEN [version |-> eng[e].seen[f].version, guard |-> eng[e].seen[f].guard,
                              run |-> eng[e].run]
                        ELSE inventory[f]]
    /\ Goto(e, "lookup")
    /\ UNCHANGED <<disk, parse, runs, lease, kept, answer, rewrites, faults>>

(* discovery_guards_are_current, artifact_guards_are_current.                *)
GuardsAreCurrent(e) == \A f \in eng[e].found : Verified(e, f)

(* snapshot_lookup: the last success that refers to an artifact of this key.   *)
Matching(e) ==
    {r \in DOMAIN runs : /\ runs[r].status = "success"
                         /\ runs[runs[r].artifact].eligible
                         /\ SnapshotKey(runs[r].request, runs[r].batch.found, runs[r].seen) =
                                SnapshotKey(eng[e].request, eng[e].found, eng[e].seen)}

Lookup(e) ==
    /\ eng[e].pc = "lookup"
    /\ eng' = IF GuardsAreCurrent(e) /\ Matching(e) # {}
              THEN [eng EXCEPT ![e].pc = "reuse", ![e].from = Max(Matching(e))]
              ELSE [eng EXCEPT ![e].pc = "scan"]
    /\ UNCHANGED <<disk, tables, kept, answer, rewrites, faults>>

(* load_artifact, snapshot_file_results: its rows, without what they cost.    *)
ArtifactRows(r) == runs[r].batch.rows

(* The artifact of the hit: its rows against the files once more, and its      *)
(* texts, without which the hit is dropped: the profile for which it is      *)
(* not, cache_payload_version 0, is one the contract does not admit.         *)
Reuse(e, time) ==
    /\ eng[e].pc = "reuse"
    /\ LET rows == ArtifactRows(eng[e].from)
           usable == GuardsAreCurrent(e) /\ TextsSurvive(e, rows)
       IN \/ /\ usable
             /\ eng' = [eng EXCEPT ![e].pc = "print", ![e].rows = rows, ![e].time = time,
                                   ![e].kind = "success"]
             /\ kept' = [kept EXCEPT ![e] = SourcesOf(eng[e], rows)]
          \/ /\ ~usable
             /\ eng' = [eng EXCEPT ![e].pc = "scan", ![e].from = 0]
             /\ UNCHANGED kept
    /\ UNCHANGED <<disk, tables, answer, rewrites, faults>>

(* What a scan may make of a file: a cached text, the text it parses, text     *)
(* left out by the budget, an error.                                         *)
Results(e, f) ==
    IF f \notin eng[e].found THEN {NoRow}
    ELSE IF ~Verified(e, f) THEN {[status |-> "error", text |-> NoText]}
    ELSE {[status |-> s, text |-> NoText] : s \in {"error", "timeout", "not_parsed"}} \cup
         (IF Cached(e, f) # {} THEN {[status |-> "success", text |-> r.text] : r \in Cached(e, f)}
          ELSE {[status |-> "success", text |-> disk[f].guard]})

(* BudgetedContextScheduler::execute: successes are cached as they come; a     *)
(* worker whose memory is not observed is a warning; the row of a file that  *)
(* failed after a refill planned it bears an audit the store refuses.        *)
Scan(e, rows, warned, refused) ==
    /\ eng[e].pc = "scan"
    /\ \A f \in Names : rows[f] \in Results(e, f)
    /\ refused => With(eng[e].found, rows, Failing) # {}
    /\ LET failed == {f \in With(eng[e].found, rows, Failing) : Verified(e, f)}
       IN IF failed = {} /\ ~warned THEN UNCHANGED faults ELSE Fault
    /\ parse' = parse \cup {[key |-> CacheKey(e, f), text |-> rows[f].text] :
                              f \in {f \in eng[e].found : rows[f].status = "success"}}
    /\ kept' = [kept EXCEPT ![e] = SourcesOf(eng[e], rows)]
    /\ eng' = [eng EXCEPT ![e].pc = "print", ![e].rows = rows,
                 ![e].kind = Outcome(eng[e].found, rows), ![e].warned = warned,
                 ![e].refused = refused]
    /\ UNCHANGED <<disk, inventory, runs, lease, answer, rewrites>>

-----------------------------------------------------------------------------
(* fingerprint_sources, file by file.                                       *)

Excerpt(s) == s.status = "success" /\ s.text # NoText
Unprinted(e) ==
    {i \in DOMAIN Files : Excerpt(kept[e][Files[i]]) /\ kept[e][Files[i]].hash = NoText}
Emptied(s) == [s EXCEPT !.status = "error", !.text = NoText, !.hash = NoText]

StableAlways(e, f) == TRUE
Stable(e, f) == MetadataMatches(e, f) /\ Verified(e, f)

(* The metadata and the guard are checked, the bytes are hashed, and both are  *)
(* checked again; without all of it the excerpt is emptied.                  *)
CheckSource(e) ==
    /\ eng[e].pc = "print" /\ Unprinted(e) # {}
    /\ LET f == Files[Min(Unprinted(e))]
       IN \/ /\ MetadataMatches(e, f) /\ Verified(e, f)
             /\ eng' = [eng EXCEPT ![e].pc = "hash", ![e].at = f]
             /\ UNCHANGED kept
          \/ /\ ~(MetadataMatches(e, f) /\ Verified(e, f))
             /\ kept' = [kept EXCEPT ![e][f] = Emptied(@)]
             /\ UNCHANGED eng
    /\ UNCHANGED <<disk, tables, answer, rewrites, faults>>

HashSource(e) ==
    /\ eng[e].pc = "hash"
    /\ \/ /\ kept' = [kept EXCEPT ![e][eng[e].at].hash = disk[eng[e].at].guard]
          /\ Goto(e, "printed")
          /\ UNCHANGED faults
       \/ /\ Fault
          /\ kept' = [kept EXCEPT ![e][eng[e].at] = Emptied(@)]
          /\ Goto(e, "print")
    /\ UNCHANGED <<disk, tables, answer, rewrites>>

SettleSource(e) ==
    /\ eng[e].pc = "printed"
    /\ kept' = [kept EXCEPT ![e][eng[e].at] = IF Stable(e, eng[e].at) THEN @ ELSE Emptied(@)]
    /\ eng' = [eng EXCEPT ![e].pc = "print", ![e].at = "none"]
    /\ UNCHANGED <<disk, tables, answer, rewrites, faults>>

-----------------------------------------------------------------------------
(* The terminal commit.                                                     *)

(* verify_inventory_snapshot: the receipt is still this run's.               *)
ReceiptOfRun(e) == \A f \in eng[e].found : inventory[f].run = eng[e].run
ReceiptHolds(e) ==
    \A f \in eng[e].found :
        inventory[f] = [version |-> eng[e].seen[f].version, guard |-> eng[e].seen[f].guard,
                        run |-> eng[e].run]

(* The artifact a success or partial run wrote or reused.                    *)
ArtifactOf(c) ==
    IF Batch(c).status = "error" THEN 0 ELSE IF c.from # 0 THEN runs[c.from].artifact ELSE c.run

(* finalize.                                                                 *)
Finalized(e) ==
    LET c == eng[e]
        b == Batch(c)
    IN runs' = [runs EXCEPT ![c.run] =
                  [@ EXCEPT !.status = b.status, !.batch = b,
                            !.seen = IF b.found = {} THEN Unseen ELSE c.seen,
                            !.artifact = ArtifactOf(c),
                            !.eligible = ArtifactOf(c) = c.run /\ Eligible(c),
                            !.warned = c.warned,
                            !.from = IF b.status = "error" THEN 0 ELSE c.from]]

(* abandon_active_run, while the lease is held.                              *)
Abandon(e) ==
    /\ runs' = IF Owned(e) THEN [runs EXCEPT ![eng[e].run].status = "abandoned"] ELSE runs
    /\ lease' = IF Owned(e) THEN NoAttempt ELSE lease
    /\ Goto(e, "evidence")

Ready(e) == eng[e].pc = "fail" \/ (eng[e].pc = "print" /\ Unprinted(e) = {})

(* The terminal transaction; for a failed stage it holds an error without rows. *)
Commit(e) ==
    /\ Ready(e) /\ (BatchValid(eng[e]) \/ eng[e].pc = "fail")
    /\ \/ /\ Owned(e) /\ BatchValid(eng[e])
          /\ eng[e].pc = "print" => ReceiptHolds(e)
          /\ Finalized(e)
          /\ lease' = NoAttempt
          /\ Goto(e, "evidence")
          /\ UNCHANGED faults
       \/ /\ ~(Owned(e) /\ BatchValid(eng[e]) /\ (eng[e].pc = "print" => ReceiptHolds(e)))
          /\ Abandon(e)
          /\ UNCHANGED faults
       \/ Fault /\ Abandon(e)
    /\ UNCHANGED <<disk, inventory, parse, kept, answer, rewrites>>

(* persist_post_outcome_failure_if_invalid: a batch that does not validate      *)
(* becomes an error.                                                         *)
Invalid(e) ==
    /\ eng[e].pc = "print" /\ Ready(e) /\ ~BatchValid(eng[e])
    /\ Goto(e, "fail")
    /\ UNCHANGED <<disk, tables, kept, answer, rewrites, faults>>

(* The clock, the classification of a hit or the serializer fails: the command  *)
(* ends and leaves its run running.                                          *)
GiveUp(e) ==
    /\ Ready(e) /\ Fault
    /\ Goto(e, "evidence")
    /\ UNCHANGED <<disk, tables, kept, answer, rewrites>>

(* load_run_evidence.  When it fails the call fails, and the sources stay.    *)
Evidence(e) ==
    /\ eng[e].pc = "evidence"
    /\ \/ /\ Loadable(eng[e].run)
          /\ answer' = [answer EXCEPT ![e] =
                          [request |-> eng[e].request, run |-> eng[e].run,
                           attempt |-> eng[e].attempt, sources |-> kept[e],
                           evidence |-> EvidenceOf(eng[e].run)]]
          /\ kept' = [kept EXCEPT ![e] = NoSources]
          /\ UNCHANGED faults
       \/ /\ IF Loadable(eng[e].run) THEN Fault ELSE UNCHANGED faults
          /\ answer' = [answer EXCEPT ![e] = NoAnswer]
          /\ UNCHANGED kept
    /\ eng' = [eng EXCEPT ![e] = Idle]
    /\ UNCHANGED <<disk, tables, rewrites>>

-----------------------------------------------------------------------------
(* The environment.                                                         *)

Crash(e) ==
    /\ eng[e].pc # "idle" /\ Fault
    /\ eng' = [eng EXCEPT ![e] = Idle]
    /\ kept' = [kept EXCEPT ![e] = NoSources]
    /\ answer' = [answer EXCEPT ![e] = NoAnswer]
    /\ UNCHANGED <<disk, tables, rewrites>>

(* The cap of the parse cache.                                               *)
Evict(r) ==
    /\ Fault /\ Observed
    /\ parse' = parse \ {r}
    /\ UNCHANGED <<disk, inventory, runs, lease, eng, kept, answer, rewrites>>

(* A file is rewritten; its mtime and size may be kept.                      *)
Rewrite(f, version) ==
    /\ rewrites < MaxRewrites /\ Observed
    /\ rewrites' = rewrites + 1
    /\ disk' = [disk EXCEPT ![f] = [version |-> version, guard |-> @.guard + 1]]
    /\ UNCHANGED <<tables, eng, kept, answer, faults>>

(* What a hit takes, in its lookup and outside of every stage.                *)
Times == [lookup : 0 .. MaxTime, other : 0 .. MaxTime]

Step(e) ==
    \/ Preflight(e) \/ (\E found \in SUBSET Names : Discover(e, found)) \/ StageFails(e)
    \/ (\E lost \in SUBSET Names : AttachGuards(e, lost))
    \/ PrepareInventory(e) \/ Lookup(e) \/ (\E time \in Times : Reuse(e, time))
    \/ (\E rows \in [Names -> UNION {Results(e, f) : f \in Names}]  :
          \E warned, refused \in BOOLEAN : Scan(e, rows, warned, refused))
    \/ CheckSource(e) \/ HashSource(e) \/ SettleSource(e)
    \/ Commit(e) \/ Invalid(e) \/ GiveUp(e) \/ Evidence(e)

Next ==
    \/ \E e \in Engines : \/ \E q \in Requests : Refuse(e, q) \/ Replay(e, q) \/ Start(e, q)
                          \/ Step(e) \/ Crash(e)
    \/ \E r \in parse : Evict(r)
    \/ \E f \in Names : \E v \in {disk[f].version, disk[f].version + 1} : Rewrite(f, v)

Spec == Init /\ [][Next]_vars

-----------------------------------------------------------------------------
(* Safety.                                                                  *)

Committed(r) == runs[r].status \in {"success", "partial"}

(* The text a committed windowed run reports of a file is what the file held   *)
(* when discovery took its guard, whoever wrote the cache row or the         *)
(* artifact it came from.                                                    *)
TextsAreOfTheirFiles ==
    \A r \in DOMAIN runs : Committed(r) /\ runs[r].request \in Windowed =>
        \A f \in runs[r].batch.found :
            runs[r].batch.rows[f].status = "success" => runs[r].batch.rows[f].text = runs[r].seen[f].guard

(* A run that reused an artifact is a success over every file, and what it      *)
(* reused has no failed file and hides no warning of the run that made it.   *)
SnapshotsAreClean ==
    \A r \in DOMAIN runs : runs[r].from # 0 =>
        /\ runs[r].status = "success" /\ runs[r].batch.found = Names
        /\ With(Names, runs[r].batch.rows, Failing) = {}
        /\ ~runs[runs[r].artifact].warned

(* The hash handed out beside an excerpt is that of the bytes the excerpt was  *)
(* made of, for a windowed request, whenever the file is rewritten.          *)
FingerprintMatches ==
    \A e \in Engines : answer[e].request \in Windowed =>
        \A f \in Names : Excerpt(answer[e].sources[f]) =>
            answer[e].sources[f].hash = answer[e].sources[f].text

(* The sources of an answer are those of its own attempt: none of an earlier   *)
(* command that failed, none for a replay or a refusal.                      *)
SourcesAreOfTheAnswer ==
    \A e \in Engines : \A f \in Names :
        answer[e].sources[f] # NoSource => answer[e].sources[f].by = Attempt(answer[e])

(* The sources handed to the report are its own and bear their own hashes.   *)
SourcesAreSound == FingerprintMatches /\ SourcesAreOfTheAnswer

(* Between the observation of the inventory and the commit a run holds no      *)
(* lock on it, and an engine that lost the lease, an earlier attempt of the  *)
(* same run among them, still writes it.  At its commit the evidence of a    *)
(* run is nevertheless what the run saw, and the text it reports of a file   *)
(* for a windowed request is that of the guard the evidence shows.           *)
CommitsShowWhatTheySaw ==
    [][\A r \in DOMAIN runs : ~Committed(r) /\ Committed(r)' =>
          \A f \in runs'[r].batch.found :
              /\ EvidenceOf(r)'[f] = runs'[r].seen[f]
              /\ runs'[r].request \in Windowed /\ runs'[r].batch.rows[f].status = "success" =>
                    runs'[r].batch.rows[f].text = EvidenceOf(r)'[f].guard]_vars

(* What validation refuses, although nothing failed: a hit whose lookup took    *)
(* longer than everything no stage is charged with, and a scan with a failed *)
(* file whose row bears an audit that is not its own.                        *)
RefusedHit(c) == c.from # 0 /\ c.time.lookup > c.time.other
RefusedScan(c) == c.from = 0 /\ c.refused /\ With(c.found, c.rows, Failing) # {}

(* Results are refused in those two cases only: the counts that the scheduler, *)
(* the snapshot hit and the error writer derive in three ways satisfy the    *)
(* validator for any mixture of outcomes, and every run that was stored, an  *)
(* error in the place of a refused result too, loads as evidence.            *)
ResultsPassTheirChecks ==
    /\ \A e \in Engines : Ready(e) =>
          /\ CountsHold(Batch(eng[e]))
          /\ BatchValid(eng[e]) \/ RefusedHit(eng[e]) \/ RefusedScan(eng[e])
    /\ \A r \in DOMAIN runs : Loadable(r)

(* Statements of docs and code that do not hold.                              *)

(* The scanner's design says of the spans of a run that they may contain one   *)
(* another and that adding them up to the whole is forbidden: no result      *)
(* would be refused over such a sum.  The lookup of a hit is in two stages.  *)
DurationsNeverRefuse == \A e \in Engines : Ready(e) => DurationsHold(Batch(eng[e]))

(* scanner.rs calls a result the complete evidence committed for that run: the *)
(* guards it shows would be the ones the run saw.                            *)
EvidenceIsOfTheRun ==
    \A e \in Engines :
        answer[e].run # 0 /\ runs[answer[e].run].attempt = answer[e].attempt =>
        \A f \in runs[answer[e].run].batch.found :
            answer[e].evidence[f] = runs[answer[e].run].seen[f]
=============================================================================
