# TLA+ models of the personal daily report

The repository is a Windows tool that scans a person's work files, asks a language model for a
summary, and publishes one Markdown report per day. The program is the Rust workspace under
`rust/`: `report_app` (commands, report database, model calls, publication) and `scanner_core` (the
scanner and its own database). This directory holds TLA+ models of its stateful parts, TLC
configurations that check them on small instances, and proofs that TLAPS checks for all instances.

`PROJECT.json` lists the components, the runs, the source lines behind every definition, the
hazards each property is aimed at, the findings and the theorems.

## 1. Inventory

Paths are relative to `rust/report_app/src` (A) and `rust/scanner_core/src` (C).

| Component | State it keeps | Operations | Hard behaviour | What makes it correct |
|---|---|---|---|---|
| Run store (A `store/mod.rs`, `store/reports.rs`) | `report_runs`, the pointer `daily_reports.current_run_id` | create, set_scanning, prepare, resume, fail, stage_report, mark_published, previews, recover_interrupted, pending | crashes between transactions; runs staged against the same predecessor and repaired in any order | published versions form one line; succeeded rows are final; interrupted rows are settled |
| Publication (A `publish.rs`) | the date's file, evidence attachments, conflict copies, backups | publish, publish_attachment, conflict, ReplaceFileW or hard link | a person edits the file between any two accesses; a crash leaves the file ahead of the database | edits survive; evidence precedes the summary; a committed body gets published |
| Personal run (A `run/personal.rs`, `run.rs`) | what one command has done so far | daily, regenerate, no-save, dry-run, repair-output by date or id | two processes; errors after a success | only the next version is written; items are not lost |
| Report and processing locks (A `store/locking.rs`, `processing_cache.rs`) | two file locks | acquire with a wait limit, drop | the report lock is dropped and taken again inside one command | what the version check approved stays approved |
| Personal retention (A `store/personal.rs`) | ages and sizes of rows | compact_personal_until | stops at any row; forced by a byte limit | the current report and committed bodies stay |
| Model calls (A `model/mod.rs`, `model/personal.rs`, `store/calls.rs`) | `report_model_calls`, the counter of the date | execute, reserve_call, finish_call, resume | lost answers, crashes after sending, late deadline, changed configuration | bounded attempts, no unrecorded request, no second payment, termination |
| Processing cache (A `processing_cache.rs`, `snapshots.rs`) | entries and counters, `.cache-ledger.json`, snapshot files | open, reserve, track, commit, Drop, prune, put_bytes | a crash or error at any file access | bytes are counted and bounded, snapshots complete, committed snapshots stay |
| Recovery issues (A `personal_recovery.rs`, `run/input.rs`, `run/personal_scan.rs`) | known failures of a source | carried from run to run | sources that come and go | not modelled |
| History maintenance (A `maintenance/`) | manifest of historical files | two-phase cleanup | crash between manifest and deletion | not modelled |
| Engine lease (C `store/lease.rs`) | `engine_lease` | acquire, heartbeat, reclaim, release | clocks read before waiting for the transaction; stalled and dead engines | a live lease is kept, a dead one is replaced |
| Scanner run store (C `store/runs.rs`, `store/retention.rs`, `store/artifacts.rs`, `store/mod.rs`) | `scan_runs`, `scan_run_attempts`, `context_runs`, `context_artifacts` | begin_run, record_worker_fingerprints, finalize, abandon_active_run, snapshot_lookup, retention, GC | plans made outside the transaction, GC after the lease is gone, caps | results are final and replayable, reuse is grounded, caps hold |
| Caches and inventory (C `store/cache.rs`, `store/inventory.rs`, `store/mod.rs`) | `parse_cache`, `classification_cache`, `file_inventory` | lookup, write with eviction, touch, prepare_inventory in batches | files rewritten under the same size and mtime, damaged rows, the cap, batches of a scan that ran out of time | a hit is what the file holds, the cap holds, a file is new once |
| Scheduler (C `scheduler.rs`, `scheduler/refill.rs`, `source_guard.rs`, `deadline.rs`) | plan, classifications, admissions, parse results of one scan | classify in waves, admit, parse in waves, refill twice, finish | the deadline between and inside waves; files changed while they are read; budgets over several rounds | texts are of the files discovery saw, budgets hold, the outcome agrees with its rows, the scan ends |
| Worker sessions (C `session.rs`, `process.rs`, `windows_job.rs`, `parsers/`) | slots, child processes, pipes | checkout, start, send, read, retry, recycle | late, repeated, missing and foreign answers; dead children; deadlines while waiting | an answer belongs to its request, slots are conserved, one retry, every operation ends |
| Budget (C `nominal.rs`, `admission.rs`, `budget_model.rs`, `compressor.rs`) | none across runs | order, plan, reservation, rendering | rounding and fixed wording at the budget | what was admitted fits |
| Context build (C `run.rs`, `scanner.rs`, `sources.rs`, `artifact.rs`, `context_audit.rs`, `decision.rs`; `rust/discovery`) | the command of an engine, its sources, the answer | discover, guard, prepare, look up, reuse or scan, fingerprint, commit, load evidence | files rewritten between the steps, stalled engines, several writers of one result format | answers rest on the files they name, only clean results are reused, results pass their readers' checks |
| Parsers, rendering, command line, search, health, archive, the retired Python program | no protocol state of the daily report | | | not modelled, see section 7 |

How they interact. A `daily` command takes the processing lock, opens the processing cache, compacts
old rows under the report lock, drops and retakes that lock, and then runs everything else under it:
recover interrupted rows, publish or resume what is pending or create a run, call the scanner
(which uses its own database and lease), freeze the input as snapshots, call the model (each request
reserved in the database before it is sent), commit the body, publish the file, move the pointer.
`repair-output` takes only the report lock. People edit the published files at any time.

A scan, inside the scanner: take the lease and a run row, shake hands with the worker binaries,
discover the files and take a guard of each, write the inventory, answer from the artifact of an equal
scan or else classify, admit and parse in waves of workers (through the caches and the worker pool),
hash the sources of the excerpts, commit result, artifact and retention in one transaction that also
gives up the lease, and read the evidence back.

## 2. Modules

- `ReportStore` - the rows of one date and the transactions on them, as operators.
- `Publication` (extends `ReportStore`) - processes, locks, files and people; one action per
  transaction or file access. The scan is one step and so is the sequence of model calls.
- `PublishedReport` - the abstract specification: one current version that only moves on.
  `Publication!ImplementsPublishedReport` instantiates it with the pointer, the body the pointer
  refers to, and the set of rows that can never be current again.
- `ModelCalls` - the calls of one run over all its executions; details the model step of
  `Publication`.
- `ProcessingCache` - the quota ledger and the snapshot files.
- `ScanRuns` - the scanner's run rows, lease, artifacts, retention and GC.
- `ContextBudget` - the budget arithmetic as operators; `ScanScheduler` (extends it) - one budgeted
  scan.
- `WorkerSession` - the worker pool, its sessions and children.
- `ScanCache` - parse cache, classification cache and inventory.
- `ScanBuild` - a whole `build_context` command. It composes the scanner's components by contract:
  the clocks of the lease and retention are in `ScanRuns`, the waves of a scan in `ScanScheduler`, the
  cap of the cache in `ScanCache`, the workers in `WorkerSession`; here a scan is one step with any
  outcome those allow.
- `PublicationProofs` (row types, history, locks, files, edits and the refinement of
  `PublishedReport`), `ModelCallsProofs`, `ProcessingCacheProofs`, `ScanRunsProofs`,
  `ScanSchedulerProofs`, `WorkerSessionProofs`, `ScanCacheProofs`, `ScanBuildProofs` - the theorems,
  each module over the one it is named after.
- `MCPublication`, `MCModelCalls`, `MCProcessingCache`, `MCScanRuns`, `MCScanScheduler`,
  `MCWorkerSession`, `MCScanCache`, `MCScanBuild` - what TLC is started on.

### ReportStore and Publication

`rows[r]` is a row of `report_runs`, `current` the pointer, runs are numbered by `created_at`. A
digest is represented by the text it is the digest of. Bodies differ in whether they have items
(`Full`) and whether they link an attachment (`Linked`). `proc[p].step` is the next step of a process;
its name is that of the code to be executed (`publish`, `attach`, `recheck`, `write`, `verify`,
`mark`, ...). `age` has the three classes retention distinguishes. `swallowed` is an auxiliary
variable: the runs whose replacement displaced a text nobody had read.
A crash drops the locks and forgets everything but tables and files. A database may start empty or
with one row of an earlier version of the program, and the file may already hold somebody's text.

### ModelCalls

`calls` is `report_model_calls` in the order of `call_id`. An answer is valid and short enough,
reducible by dropping whole items, or irreducible. A failure is one of the classes the code branches
on. The deadline may pass, the configuration may change between two executions, and the snapshots of
earlier calls may disappear.

### ProcessingCache

`files` is the disk, `ledger` the saved entries, `entries`, `used` and `reserved` the memory of the
process that holds the lock. `put_bytes` is one action per file access. A write may be torn.

### ScanRuns

One action is one transaction, or one read outside a transaction. Time is relative: `lease.age` and
`lease.held` are the times since the last heartbeat and since the acquisition, and an engine uses a
clock value that is `lag` old, because the code reads the clock before it waits for the transaction.
`begin_run` takes an expired lease and restarts an abandoned row. A request that is already answered
or that meets a live lease changes nothing, so these outcomes are stuttering steps. Sizes are one
unit. The artifacts and runs a plan deletes are sets, not batches, because the batches of a plan are
applied in one transaction. An engine stands for its random `owner_id`: it owns at most one run, and
a row that stopped running is never matched by owner again. Errors after which `run.rs` returns
without writing are the same step as a crash.

### ContextBudget and ScanScheduler

A text is its number of characters, and the fixed wording of a section is the number of characters it
has in the code, because that is all the budget looks at. `scan` holds the discovered files in nominal
order and what the caches know of them; `pc` is the phase of `execute`; `wave` the files handed to the
workers and what came back, in any order. `late` is the work deadline. `result[i].fresh` is history:
whether the text was read from the file discovery saw. `ledger` has the refill rounds that
`RefillAudit::validate` checks. `Finish` renders, validates and chooses the terminal state as the
code does, so a disagreement between the budget model and the renderer is an outcome (`outcome.why`),
not an assumption.

### WorkerSession

An operation walks through `execute_operation`: wait for a slot, check the deadline and whether the
session is due for recycling, start, send, read, and verify the source without the slot. A child has
one pipe; a line it wrote too late stays in it. Its loop (`Open`, `Answer`) is that of the office and
PDF workers: the version of the file is compared before and after the parse, a failed parse is an
error frame, to be retried or final, and a failed classification is a result like any other. A frame
whose payload does not fit its request is refused only after the slot is released, and not retried.
`starts` is history. The preflight freezes the build every later hello has to repeat.

### ScanCache

A file on disk has a version (mtime and size), a guard and a content; a rewrite may keep the version.
Rows are keyed as in the code, by file, version, guard and profile. The clock a scan passes to the
cache is the one the code passes, milliseconds since the scan began.

### ScanBuild

The bytes of a file are named by its guard. An attempt is a run and its attempt number, which is what
a fresh `owner_id` stands for; a restarted run keeps its row. `kept` are the sources a `Scanner` keeps
between its calls. What is committed is built by three writers (scan, snapshot hit, derived error) and
read by two validators, all translated separately. `time` has the two spans of a snapshot hit that the
validators tell apart: its lookup, which the code charges to two stages, and whatever belongs to no
stage. `refused` says that a row of the scan bears an audit its validator refuses; why it does is
`ScanScheduler`'s (section 6). A hit whose texts are not needed, payload version 0, cannot occur: the
contract admits no such profile.

## 3. Runs

Every property is described by the comment above its definition. Where a property is a conjunction,
its conjuncts are named definitions with comments of their own.

| Run | Bounds | Shows |
|---|---|---|
| `publication_recovery` | 2 processes, 3 runs, 1 fault; daily, regenerate, repair by id | `LinearHistory`, `ItemsNeverLost`, `NeverStale`, refinement of `PublishedReport` |
| `publication_edits` | 1 process, 2 runs, 2 edits, 1 fault, 1 age step, retention forced by its byte limit or not; daily, regenerate, repair by date | `EvidenceBeforeSummary`, `EditsSurvive`, `CapturedAwaitsUser`, `SucceededIsFinal` |
| `publication_liveness` | 1 process, 2 runs, 1 edit, 2 faults; daily, no-save, dry-run | `RowsAreSound` (`TypeOK` and `InterruptedRunsSettled`), `CommittedGetsPublished` |
| `model_calls` | 3 attempts per step, 1 retry of invalid answers, 3 faults | `LogIsSound`, `Grounded`, `PaidOnce`, `EventuallyCommitted` |
| `processing_cache` | 2 snapshots of sizes 1 and 2, room for 6, a response of 2, 3 faults, 1 expiry | `LedgerIsSound`, `BytesAreAccounted`, `CommittedStays` |
| `scan_runs` | 2 engines, 2 requests, 2 rows, 1 key, room for 1 artifact and 2 rows, lag up to 1 with grace 1, 1 fault | `StoreIsSound`, `ResultsReplay`, `LiveLeaseIsKept`, `ResultsStay` |
| `scan_liveness` | 1 engine, 2 requests, 2 rows, room for 1 artifact and 1 row, 2 faults | `RetentionMakesRoom`, `DeadLeaseIsReplaced` |
| `context_scan` | 10 corpora of two to five files, 2 workers, 2 candidates, 3 pages, 1 extraction, 1 changed file | `SourcesAreUnchanged`, `BudgetsHold`, `OutcomeIsSound`, `RefillKeepsWork`, `ScanEnds` |
| `worker_session` | 2 operations (one parse, one light parse or classification), 1 slot, 2 requests per session, 2 faults, 1 changed file | `OwnAnswer`, `PoolIsSound`, `RetriedOnce`, `EveryOperationEnds` |
| `scan_cache` | 2 engines, 2 files (one PDF), 2 profiles, both guard policies, cap 3 over rows of 2 (the PDF) and 4, batches of 1, 2 scans, 1 rewrite, 1 fault | `HitsAreCurrent`, `WithinCap`, `NewIsReportedOnce` |
| `scan_build` | 2 engines, 3 requests (two of them windowed), 1 file, 2 attempts, 1 rewrite, 1 fault, spans of a hit of 0 and 1 ms | `TextsAreOfTheirFiles`, `SnapshotsAreClean`, `SourcesAreSound`, `ResultsPassTheirChecks`, `CommitsShowWhatTheySaw` |
| `publication_false_conflict` | as small as the counterexample allows | the finding of section 6 |

Why the bounds are enough for the cases they are aimed at. Three runs are needed for two rivals of
one predecessor and a version on top of the winner. Two processes are enough to meet at either lock in
any order; they are interchangeable, so `publication_recovery` reduces by symmetry. Two faults in
`publication_liveness` allow a crash during the repair of a crash. Two edits allow an edit that is
captured and then handled, or handled and repeated. One age step reaches the seven-day class; the
effect of the thirty-day class, removal of the row, is reached through the byte limit.
In `ModelCalls` the limit of 3 is the largest the configuration accepts.
In `ProcessingCache` four temporary names are one for every put that three faults can interrupt and
one more, and a limit of 6 is reached by both snapshots under both their names. In `ScanRuns` the
artifact cap of 1 makes every finalization that creates an artifact collect the previous one first;
the row cap of `scan_runs` leaves room for the source of a snapshot hit, and that of `scan_liveness`
is exceeded by the second row; with a grace of 1 and a lag of up to 1 an engine uses a fresh
clock or one that is a whole grace period old.
The corpora of `context_scan` are chosen so that each limit is the one that binds in some scan: candidates,
pages, extractions, the global budget in the first pass and again in a refill, and so that every file
type and every reason to leave a file out occurs; waves are smaller than the files to parse.
One slot and two operations make every operation wait behind the other in some behaviour; two faults
are a failure and a failure of its retry. In `ScanCache` the cap of 3 holds one row of the PDF but
not two, the row of the other file is larger than the cap alone, and two scans of two engines overlap or
follow each other. In `ScanBuild` two
attempts are a scan and its reuse, a stalled engine and its replacement, or an abandoned run and its
restart, and the file may be rewritten at any step of either; spans of 0 and 1 ms make the lookup of a hit
shorter than, as long as, and longer than the rest. One file is enough for the races, each of which is
between a file and its row; that the counts of several files that end differently agree is proved for any
number of files (section 5).
The four scanner store runs (`scan_runs`, `scan_liveness`, `scan_cache`, `scan_build`) may stop when
their requests are answered and their bounds reached, so they do not check for deadlock; the others do.

## 4. Fairness

- `Publication`: a process that is running keeps taking steps (weak fairness of its step), and `daily`
  is tried again and again (strong fairness of starting it, because another process or a crash may
  take the lock in between). The operations guide tells the user to run the date again after an
  interruption, and the program is started by a daily schedule.
- `ModelCalls`: the same two assumptions, for the run that is resumed.
- `ScanRuns`: time passes, a running engine keeps taking steps, and scans are started again and again.
  Heartbeats are not fair: the code does not depend on them for progress.
- `ScanScheduler`: the scheduler thread runs, and a worker that was handed a file answers or is timed
  out; the second is what `EveryOperationEnds` of `WorkerSession` shows.
- `WorkerSession`: the caller's threads run and time passes for an operation that waits. Workers are
  not fair: an answer may never come.

Crashes, I/O errors, edits, lost answers and ageing are never fair. Their number is bounded, which in
the liveness runs says that faults stop at some time.

## 5. Proofs

TLAPS checks 37 theorems for all values of the constants: any number of processes, engines, operations,
runs, files, edits and faults, any caps and limits. Each invariant is shown in the same way: an
inductive invariant `IInv` (three named ones for the publication) with its parts as named
definitions, one lemma per action or group of actions that says what the action does to each part, one
lemma that puts them together, and the theorem. The assumptions are the named `ASSUME`s of the
modules. They say that bounds are natural numbers, that limits the configuration rejects at zero are
positive, that names used as "nothing" are not in the sets they are added to, that the sets of
slots and paths are finite, and what the records are made of that a scan starts from.

### Publication (`PublicationProofs`)

- `TypeCorrect`. `TypeOK` alone is not inductive: a step that writes `rows[proc[p].run]` needs a run.
  `TypeInv` adds that every step beyond the choice of a run has one.
- `HistoryIsLinear` (`LinearHistory`) and `SucceededRunsAreFinal` (`SucceededIsFinal`). A run may be
  staged against a version that has been replaced meanwhile, so `HistoryInv` adds that predecessors
  were published or have been removed, that the pointer names a published row no published row has
  replaced, and that numbers are not reused. `DbSteps` reduces every action to one transaction on the
  tables: files and locks play no part, the compare-and-set of `mark_published` alone carries the
  argument.
- `NothingStaleIsPublished`, `ItemsAreKept`, `EvidenceComesFirst`, `InterruptedRunsGetSettled` (with `TypeCorrect`, `RowsStaySound`),
  `EditsAlwaysSurvive`, `CapturedEditsAwaitTheUser`. These do need the report lock. `LockHeld` says that
  whoever works on the date holds it; `Knows` says, step by step, what a process has read of the
  tables and of its run (that its run is next, that its body is committed, that the attachment is
  written, what it found in the file), and stays true because nobody else passes the lock. What a person
  does to the file is not excluded by any lock: for the two properties of edits the proof follows the
  text that is displaced into the backups.
- `PublicationImplementsReport`: the refinement of `PublishedReport`, step by step. Every action leaves
  the mapped variables alone but `mark_published`, and that one is the abstract step, because the
  pointer moves to a row that was never retired and items are kept.

### Model calls (`ModelCallsProofs`)

`LogAlwaysSound`, `CommitsAreGrounded` and `PaidAnswersAreFinal`. The inductive invariant knows which call
is open at each step, that a request is sent only after its reservation, and, for the action property,
that between the look into the log and the end of the attempt the step has no answer yet. The
bound on attempts counts over all executions, so it needs the cardinality of the calls of a step.

### Processing cache (`ProcessingCacheProofs`)

`LedgerStaysSound`, `BytesStayAccounted`, `CommittedSnapshotsStay`. The invariant is about the account in
the middle of `put_bytes`: the bytes of all files but the two names of the snapshot in hand, plus twice
its size, fit the limit; the reservation covers both names; and a commit that fails after it has
counted the snapshot has already given its reservation back. The lemmas at the head of the module
show that the community modules' fold over a set does not depend on the order in which it picks, which
the bytes of a directory need.

### Scanner run store (`ScanRunsProofs`)

- `StoreStaysSound`, `ResultsAlwaysReplay`, `LiveLeaseStays`, `StoredResultsStay`. The invariant adds that
  the order of `finished_at_ms` is a strict total order of the terminal rows, that artifact ids are new
  and belong to runs of their own, and what an engine that waits between two transactions may still
  rely on: the row of its snapshot hit is as it was, or is gone for ever.
- `RetentionAlwaysMakesRoom`: the loop that plans victims ends within its bound with enough room. Each
  pass that does not have room yet adds an artifact or a row that no earlier pass had, so there are no
  more passes than artifacts and rows; and when only protected rows are left, they fit the caps.

### Worker sessions (`WorkerSessionProofs`)

`AnswersAreOwn`, `RetriesAreBounded`, `PoolStaysSound`. The invariant says what a child may have heard of:
not of an operation that waits or has not sent yet (`Unknown`), and it works only for the operation
that reads from its slot and has said nothing about it so far. So a line that was left in the pipe
can be about an earlier operation only, and its id gives it away. Slots are conserved (free once, or
held once), and there are as many restarts as hellos after the first of each slot, which is the
cardinality of a set of pairs that each start adds at most one element to.

### Context build (`ScanBuildProofs`)

`TextsStayOfTheirFiles`, `ReuseStaysClean`, `SourcesStaySound`, `ResultsAlwaysPass`,
`CommitsAreTheirOwn`. Three facts carry the argument. A run that ended is never written again, so what an engine looked up is still there when
it commits, whoever held the lease in between. Guards only grow, so a cache row whose text is not of
its guard is filed under a guard that nobody can verify any more. And the three writers derive the
same counts: the summary of the scheduler counts decisions, that of the derived error counts rows, and
`Counts` shows by cardinalities of disjoint sets that they agree whenever every file found has a row,
which is what the two validators ask. `ResultsAlwaysPass` therefore names exactly two refusals of finished
work: a hit whose lookup took longer than the rest, and a scan with a row of another audit. For
`CommitsAreTheirOwn` nothing keeps a former owner from the inventory; the commit compares the inventory with
what the run saw in its own transaction, so the theorem is about that step, and the text it reports is of
the guard discovery took by the invariant of `TextsStayOfTheirFiles`. The hash of an excerpt is right, still missing, or, between the
hashing and the second check, somewhere between the guard discovery took and that of the file; the
second check excludes everything but the first.

### Scheduler (`ScanSchedulerProofs`)

`TextsAreOfDiscoveredFiles` (`SourcesAreUnchanged`), `OutcomesAreSound` (`OutcomeIsSound`),
`RefillsOnlyAdd` (`RefillKeepsWork`), `QuotasAlwaysHold` (`QuotasHold`, the first half of
`BudgetsHold`) and `BudgetsAlwaysHold` (`BudgetsHold`), for any corpus, any budget, any number of workers and any changes
of the files during the scan. The inductive invariant `ScanInv` has these parts:

- A file that waits does so once, in the queue, among the tasks or in the wave (`WaitInv`), and has no
  result of that phase while it waits. So an answer never meets an earlier one, in whatever order the
  workers finish and whichever round asked.
- A file has a plan, and a verdict that follows from it (`PlanInv`, `ClassifyInv`, `SettledInv`): budget
  omissions, policy omissions, failures of the classification and admissions exclude each other.
  `AuditInv` ties the classification audit to the verdict it was written for, except where a refill has
  planned the file again, which is the case `OwnAudit` leaves out (see `EveryRowIsStorable` in section 6).
- A file whose guard did not match is tainted, and a tainted file never keeps a text (`TaintInv`); a text
  that is kept under a strict guard was read from the file discovery saw (`FreshInv`). A file may change
  after it was read: the invariant is about the state of the file at the check, not at the end.
- What ended the work early (the deadline, a lost worker) is remembered until the end (`StopInv`), so a
  scan with files it did not get to cannot claim success.

At the end `Finish` gives a file one of four forms of evidence (an omission, a failure, a text, metadata),
and for each form one lemma shows which row it makes and that the validator of the store accepts it.
The refills rest on two facts about the budget operators: an admission pass changes no file that it is
not asked about, and reclaiming only lowers a reservation. Both are about recursive functions, which
the proof unfolds once (`Pass` is defined on `0 .. Len(seq)`) and then solves by induction up to the
length.

The quotas are about three sets: the files a plan admits or that have a verdict or a result
(`Candidates`), the pages that plans and verdicts hold, and the PDFs admitted with text. `QuotaInv`
bounds the three by the profile for every state, and its part `LinkInv` ties what a round works on to
what its plan let in: whatever waits, is in the wave or was begun is a candidate. So what a refill
is planned with (the quota less what is used) is what is really left, although files are in flight,
failed or were classified in an earlier round. That a pass never takes more than it was given is shown
step by step: `CountedUnion` splits the cardinality of what a pass took at its last file.

The second half of `BudgetsHold` says that a context never outgrows what was reserved for it
(`AdmittedFits`). Its invariant is `RoomInv`: an admitted file holds the widest section of its route, or
two characters (the separator) more than the section it turned out to have; a file that is not admitted
holds nothing; and once a round has been priced, the fixed sections and all that is held are within the
global budget. The argument has three layers:

- A section. `TextFits`, `BlankFits` and `FailureFits` compare what `render_file_section` writes for a text,
  for a page without text and for a failure with `reserved_delta` of the route, number by number: a
  value never has more digits than the widest the model charges for.
- A round. `AdmissionHolds` follows the admission file by file: each keeps what it held or is charged
  only while the sum fits. Answers and saves do not touch the reservations; reclaiming lowers each to
  no less than what the file shows.
- The context. `BuiltWithin` adds it up: the sections of a status are the files of that status
  (`SectionsWithin`), each within its reservation, the summary of the omitted files is within
  its own or the build ends in `omitted`, and the footers and issues are only appended where they fit.

`AdmittedFits` leaves out two ways in which a scan can still end in an internal error, an omitted summary
whose catch-all row does not fit and a refill whose error lines outgrow the ledger. Both are real and listed in
section 6. Sums over the files are written as a recursive function (`SumOf`), which `SumOfAppend`,
`SumOfChange` and `SumOfLess` reason about by induction up to the length.

`SchedulerAssumption` says what the scan hands over: files as discovery describes them, flags that are
Booleans, and remembered verdicts that the classification cache can hold for that file. The relative
path, which the sections render, is no longer than the path the reservation is charged for: the plan of
a file carries its path as discovery found it (`scheduler.rs:1201`), and `relative_contract_path` only
strips the root from it (`context_audit.rs:1908`). A text is no longer than the excerpt of its route,
because the parsers cut it (`text_parser/src/lib.rs:285`, `parsers/mod.rs:366-378`).

### Caches (`ScanCacheProofs`)

- `CachedTextsAreCurrent` (`HitsAreCurrent`). A file may be rewritten under the same size and mtime, and a
  scan that trusts discovery may store the text of the new content under the old guard. The invariant
  allows such rows: since a guard is never used again, a row of a wrong text is filed under a guard
  that no scan which looks at the file again can still verify.
- `CachesStayWithinCap` (`WithinCap`). The write and its eviction are one transaction. The eviction takes the
  rows in the order of last use until the rest fits; the proof shows that the rows it leaves are within
  the cap, for any order among rows last used in the same bucket.
- `FilesAreNewOnce` (`NewIsReportedOnce`). A scan reports a file as new when its own batch entered it into
  the inventory, and one batch of one scan does: a batch that rolls back enters nothing, and reports
  nothing.

### Induction

The prover cannot instantiate the library's induction theorems, which take a predicate. Where an
induction over a finite set or a number is needed (sums, the greatest element, passes of a plan), the
proof takes a minimal element of the *set* of counterexamples with respect to a well-founded relation
(`SubsetInduction` and `UpTo`, in the modules that use them).

### Only model-checked

- Liveness: `EventuallyCommitted`, `EveryOperationEnds`, `DeadLeaseIsReplaced`, `CommittedGetsPublished`,
  `ScanEnds`. The prover does not handle fairness.

## 6. Findings

`publication_false_conflict` is a run that TLC must end with a counterexample: a regeneration that
crashes between replacing the file and `mark_published` makes every later `daily` report an external
modification nobody made. `PROJECT.json` quotes the text it contradicts. A repair by id that is
interrupted at the same place has the same effect on the next `daily`, which is why
`publication_liveness` has neither regenerations nor repairs among its commands.

The modules also keep statements that a comment or a document makes and the code does not keep. No
listed run checks them; put one as the INVARIANT (the first as PROPERTY) of the named configuration and
TLC shows the counterexample. `ResultsPassTheirChecks` names the two of them in which finished work is
refused, `DurationsNeverRefuse` and `EveryRowIsStorable`, and says that there are no others.

| Statement | Configuration | What is said | What happens |
|---|---|---|---|
| `Publication!CapturedEditIsReported` | `publication_edits` | `publish.rs:238`: a run with a captured edit waits for its author | a crash between the replacement and the recording of the capture lets the next attempt publish at once; the text itself is kept as a backup |
| `Publication!RepairSelectsAVersion` | `publication_recovery` with repair by date | `README.md:31`: repair-output restores the report | a committed run that was overtaken is selected every time and refused every time |
| `ProcessingCache!ConflictMeansFileExists` | `processing_cache` | the error says that another file is there | a put interrupted after its name was registered leaves an entry without a file; the same snapshot is refused for seven days |
| `ScanCache!LastUsedStays` | `scan_cache` with `MaxDays = 1` | `store/cache.rs:1302`: `last_accessed_bucket` is a UTC date, updated once a day | the scheduler passes the milliseconds since the scan began, so the bucket is always 1970-01-01 and eviction does not know what was used last |
| `ScanScheduler!EveryRowIsStorable` | `context_scan` | the row a scan emits is what the contract accepts | a file that failed at run time after a refill planned it keeps a classification audit the validator refuses; in `ScanBuild` the whole scan is then refused (`RefusedScan`) |
| `ScanScheduler!RoundsStayWithinBudget` | `context_scan` | `budget_model.rs:257`: base and reservations stay within the global budget | the error line of a classification that failed in a refill can outgrow what the kept reservations leave, and `RefillAudit::validate` fails the whole scan |
| `ScanScheduler!OmittedSummaryFits` | `context_scan` | `budget_model.rs:186`: the header and the catch-all row are reserved first | the aggregate rows may take the room of the catch-all row, which then does not fit: `BUDGET_MODEL_MISMATCH` |
| `WorkerSession!CorruptionFailsDirectly` | `worker_session` | `session.rs:119`: a corrupt protocol fails directly | it is retried once like a broken transport |
| `ScanBuild!DurationsNeverRefuse` | `scan_build` | the scanner's design (`docs/archive/specs/2026-08-08-scanner-budget-aware-cache-and-pdf-performance-design.md:566`): the spans of a run may contain or overlap one another and must not be added up to the total | `store/runs.rs:1543` refuses a total shorter than the sum of the stages, and a snapshot hit charges its lookup, which observes every guard twice, to Cache and to Context (`run.rs:1605`, `1629`, `1639`): a hit that took longer to look up than for all that belongs to no stage becomes an error |
| `ScanBuild!EvidenceIsOfTheRun` | `scan_build` | `scanner.rs:25`: the complete evidence committed for that run | the evidence joins the inventory of now, which a later scan may have rewritten |

Met while modelling, and not stated as properties: requests without a window never re-observe a guard;
an engine that lost its lease still writes the inventory; a heartbeat warning is lost when the scan
succeeds; damaged cache bytes fail every scan of their key, while a damaged payload is a miss;
waiting for a worker slot is not bounded by the operation's timeout, and a waiter that expired kills the
healthy session of the slot it gets; a flooded stderr is charged to the request that reads it.

## 7. Not modelled

- What the office, PDF and text parsers extract, rendering, prompts and response schemas,
  configuration and command line: they transform text and keep no state of the protocol.
- `archive`, `search`, `health` and the logs: commands of their own or read-only views.
- Recovery issues and history maintenance (section 1).
- The retired Python program under `src/`, scripts and build identity.
- In the modelled components: the audit and model-check commands, historical readers' shared lock,
  the metadata values of retention, code of the processing cache that no command calls; discovery's
  paged walk over directories, the heuristics of the PDF classifier, timings and memory metrics,
  the wire format of the workers, schema migration and the doctor's checks of the scanner's database.
- Windows file semantics beyond what the code relies on: `ReplaceFileW`, a hard link that fails when
  the target exists, and a rename are atomic; a plain write is not. A Windows job object is the kill
  of a child with everything it started.

## 8. Plan

1. Publication core, its abstract specification, the first theorems (done).
2. Model calls, processing cache, scanner run store and lease (done).
3. Scheduler with its budget, worker sessions, caches, and the whole scan command (done).
4. Theorems for every safety property of the modules of section 5 (done).
5. The theorems about `ScanCache` and `ScanScheduler` (done).
6. Recovery issues and history maintenance.
7. Compositions: model calls over the processing cache (a paid answer whose snapshot cannot be
   saved); the scan step of `Publication` over `ScanBuild` (a request id that is scanned again after
   a crash).
