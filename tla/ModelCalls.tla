----------------------------- MODULE ModelCalls -----------------------------
(***************************************************************************)
(* The model calls of one personal run: ModelRunner::execute               *)
(* (model/mod.rs) for the summary and, when the summary is too long, for    *)
(* its compaction (generate in model/personal.rs), over the transactions    *)
(* reserve_call, finish_call, resume and recover_interrupted of the store.  *)
(*                                                                         *)
(* generation_id is the run's own id, so the calls of the generation are    *)
(* the calls of the run.  The run is executed once and resumed after a      *)
(* crash or a failure; calls of all executions share one limit per step.    *)
(***************************************************************************)
EXTENDS Integers, Sequences, FiniteSets

CONSTANTS
    MaxAttempts,     \* llm.max_retries: calls per step and generation
    InvalidRetries,  \* llm.invalid_response_retries: per execution
    MaxFaults        \* bound on crashes and I/O errors

ASSUME LimitsAssumption ==
    MaxAttempts \in 1 .. 3 /\ InvalidRetries \in Nat /\ MaxFaults \in Nat

LogicalSteps == {"summary", "compact"}

(* A valid answer fits the ceiling, or whole items can be left out of it    *)
(* until it does, or it cannot be reduced (one item, or next steps only).   *)
Answers  == {"fits", "reducible", "irreducible"}
NoAnswer == "none"

(* What comes of a request: a valid answer, or                              *)
Failures == {"denied",      \* the permission is gone: nothing is sent
             "lost",        \* sent, no complete response
             "http",        \* an HTTP error status
             "invalid",     \* MODEL_RESPONSE_INVALID
             "truncated"}   \* any other error of validate_response

(* What the report is made of.                                              *)
Outcomes == {"none", "draft", "compact", "reduced"}

Call == [step : LogicalSteps, status : {"reserved", "succeeded", "failed", "unknown"},
         answer : Answers \cup {NoAnswer}]

Configs == {"same",          \* app.fingerprint(false) is the run's
            "compatible",    \* only app.fingerprint(true) is the frozen input's
            "incompatible"}

VARIABLES
    calls,      \* report_model_calls of the run, in the order of call_id
    counted,    \* personal_calls of the date
    sent,       \* auxiliary: requests that left the machine
    phase,      \* phase of the run
    status,     \* its status
    outcome,    \* what the committed report is made of
    pc,         \* where execute() or its caller is
    step,       \* the logical step being executed
    draft,      \* the summary, while its compaction is executed
    reply,      \* the outcome of the request just sent
    invalid,    \* invalid_retries
    late,       \* the deadline of this execution has passed
    config,     \* the configuration compared with the run's
    lost,       \* the snapshots of the calls up to this one have been removed
    faults

table == <<calls, counted>>
row   == <<phase, status, outcome>>
local == <<step, draft, reply, invalid>>
world == <<late, config, lost, faults>>
vars  == <<table, sent, row, pc, local, world>>

Places == {"idle", "choose", "begin", "lookup", "check", "reserve", "reserved", "save",
           "record", "retry", "commit", "failing"}

TypeOK ==
    /\ calls \in Seq(Call)
    /\ counted \in Nat
    /\ sent \in Nat
    /\ phase \in {"prepared", "generating", "db_committed"}
    /\ status \in {"running", "failed"}
    /\ outcome \in Outcomes
    /\ pc \in Places
    /\ step \in LogicalSteps
    /\ draft \in Answers \cup {NoAnswer}
    /\ reply \in Answers \cup Failures \cup {NoAnswer}
    /\ invalid \in 0 .. InvalidRetries
    /\ late \in BOOLEAN
    /\ config \in Configs
    /\ lost \in Nat
    /\ faults \in 0 .. MaxFaults

(* The input has just been frozen and finish() begins.                      *)
Init ==
    /\ calls = <<>> /\ counted = 0 /\ sent = 0
    /\ phase = "prepared" /\ status = "running" /\ outcome = "none"
    /\ pc = "begin" /\ step = "summary" /\ draft = NoAnswer /\ reply = NoAnswer
    /\ invalid = 0
    /\ late = FALSE /\ config = "same" /\ lost = 0 /\ faults = 0

---------------------------------------------------------------------------
CallsOf(s) == {i \in 1 .. Len(calls) : calls[i].step = s}

Succeeded(s) == {i \in CallsOf(s) : calls[i].status = "succeeded"}

Outstanding == {i \in 1 .. Len(calls) : calls[i].status = "reserved"}

(* Mutant: a call whose result is unknown stays reserved.                   *)
SettleNothing == UNCHANGED calls

(* reserved becomes unknown, in resume and in recover_interrupted.          *)
SettleReserved ==
    calls' = [i \in 1 .. Len(calls) |->
                IF calls[i].status = "reserved" THEN [calls[i] EXCEPT !.status = "unknown"]
                ELSE calls[i]]

(* The call of this execution is the last one.                              *)
FinishCall(result, answer) ==
    calls' = [calls EXCEPT ![Len(calls)] = [@ EXCEPT !.status = result, !.answer = answer]]

Goto(place) == pc' = place /\ UNCHANGED local

(* generate() is over; finish() goes on with what it has.                   *)
Composed(what) ==
    /\ pc' = "commit"
    /\ outcome' = what
    /\ step' = "summary" /\ draft' = NoAnswer /\ reply' = NoAnswer /\ invalid' = 0

(* Mutant: the ceiling is not looked at.                                    *)
AnswerAnyLength(answer) == Composed(IF step = "summary" THEN "draft" ELSE "compact")

(* A valid answer: a summary over the ceiling is compacted first.           *)
Answer(answer) ==
    IF step = "summary" /\ answer # "fits"
    THEN /\ pc' = "lookup" /\ step' = "compact" /\ draft' = answer /\ invalid' = 0
         /\ reply' = NoAnswer
         /\ UNCHANGED outcome
    ELSE Composed(IF step = "summary" THEN "draft" ELSE "compact")

(* execute() fails.  Without a summary the report has no items; without its *)
(* compaction, items of the lowest priority are left out.                   *)
StepFails ==
    Composed(IF step = "compact" /\ draft = "reducible" THEN "reduced" ELSE "none")

---------------------------------------------------------------------------
(* A later command: recover_interrupted, then resume if the run is pending. *)

Recover ==
    /\ pc = "idle"
    /\ SettleReserved
    /\ pc' = "choose"
    /\ late' = FALSE
    /\ UNCHANGED <<counted, sent, row, local, config, lost, faults>>

Resume ==
    /\ pc = "choose" /\ phase # "db_committed"
    /\ SettleReserved
    /\ status' = "running"
    /\ pc' = "begin"
    /\ UNCHANGED <<counted, sent, phase, outcome, local, world>>

(* The run is committed: the command goes on to publish it.                 *)
Leave ==
    /\ pc = "choose" /\ phase = "db_committed"
    /\ Goto("idle")
    /\ UNCHANGED <<table, sent, row, world>>

(* finish() reads the frozen input, which retention keeps for 7 days.       *)
ReadInput ==
    /\ pc = "begin"
    /\ Goto(IF config = "incompatible" THEN "failing" ELSE "lookup")
    /\ UNCHANGED <<table, sent, row, world>>

InputUnreadable ==
    /\ pc = "begin"
    /\ faults < MaxFaults /\ faults' = faults + 1
    /\ Goto("failing")
    /\ UNCHANGED <<table, sent, row, late, config, lost>>

---------------------------------------------------------------------------
(* execute().                                                               *)

(* Mutant: an answer is only looked for on the first attempt.               *)
LookupOnce ==
    /\ pc = "lookup"
    /\ IF Succeeded(step) # {} /\ Cardinality(CallsOf(step)) = 1 /\ lost = 0
       THEN \E i \in Succeeded(step) : Answer(calls[i].answer)
       ELSE Goto("check") /\ UNCHANGED outcome
    /\ UNCHANGED <<table, sent, phase, status, world>>

(* The answer of the last succeeded call of the step is used again.         *)
Lookup ==
    /\ pc = "lookup"
    /\ IF Succeeded(step) = {}
       THEN Goto("check") /\ UNCHANGED outcome
       ELSE \E i \in Succeeded(step) :
               /\ i > lost
               /\ \A j \in Succeeded(step) : j <= i
               /\ Answer(calls[i].answer)
    /\ UNCHANGED <<table, sent, phase, status, world>>

(* The plan or the answer of an earlier call of the step cannot be read:    *)
(* that is an error, not a reason to ask again.                             *)
SnapshotMissing ==
    /\ pc = "lookup"
    /\ \E i \in CallsOf(step) : i <= lost
    /\ StepFails
    /\ UNCHANGED <<table, sent, phase, status, world>>

(* The deadline, a changed configuration, the size of the request, missing  *)
(* permissions or the quota of the processing cache stop the execution      *)
(* before anything is reserved.                                             *)
Check ==
    /\ pc = "check"
    /\ \/ ~late /\ config = "same" /\ Goto("reserve") /\ UNCHANGED outcome
       \/ StepFails
    /\ UNCHANGED <<table, sent, phase, status, world>>

(* The frozen plan is no longer the one the configuration yields.           *)
PlanChanged ==
    /\ pc = "lookup"
    /\ config # "same"
    /\ StepFails
    /\ UNCHANGED <<table, sent, phase, status, world>>

(* Mutant: the limit is checked against the attempts of this execution.     *)
ReserveAgain ==
    /\ pc = "reserve"
    /\ calls' = Append(calls, [step |-> step, status |-> "reserved", answer |-> NoAnswer])
    /\ counted' = counted + 1
    /\ phase' = "generating"
    /\ Goto("reserved")
    /\ UNCHANGED <<sent, status, outcome, world>>

(* Mutant: the reservation waits for an attempt instead of failing.         *)
ReserveWaits ==
    /\ pc = "reserve"
    /\ Cardinality(CallsOf(step)) < MaxAttempts
    /\ calls' = Append(calls, [step |-> step, status |-> "reserved", answer |-> NoAnswer])
    /\ counted' = counted + 1
    /\ phase' = "generating"
    /\ Goto("reserved")
    /\ UNCHANGED <<sent, status, outcome, world>>

Reserve ==
    /\ pc = "reserve"
    /\ IF /\ status = "running" /\ phase \in {"prepared", "generating"}
          /\ Cardinality(CallsOf(step)) < MaxAttempts
       THEN /\ calls' = Append(calls, [step |-> step, status |-> "reserved", answer |-> NoAnswer])
            /\ counted' = counted + 1
            /\ phase' = "generating"
            /\ Goto("reserved")
            /\ UNCHANGED <<status, outcome>>
       ELSE StepFails /\ UNCHANGED <<table, phase, status>>
    /\ UNCHANGED <<sent, world>>

(* The deadline passes between the reservation and the request: the call    *)
(* stays reserved, until a later command settles it.                        *)
DeadlinePassed ==
    /\ pc = "reserved"
    /\ late
    /\ StepFails
    /\ UNCHANGED <<table, sent, phase, status, world>>

(* Mutant: a request without a response is sent a second time at once.      *)
SendTwice(what) ==
    /\ pc = "reserved"
    /\ ~late
    /\ sent' = sent + (IF what = "denied" THEN 0 ELSE IF what = "lost" THEN 2 ELSE 1)
    /\ reply' = what
    /\ pc' = IF what \in {"denied", "lost"} THEN "record" ELSE "save"
    /\ UNCHANGED <<table, row, step, draft, invalid, world>>

Send(what) ==
    /\ pc = "reserved"
    /\ ~late
    /\ sent' = IF what = "denied" THEN sent ELSE sent + 1
    /\ reply' = what
    /\ pc' = IF what \in {"denied", "lost"} THEN "record" ELSE "save"
    /\ UNCHANGED <<table, row, step, draft, invalid, world>>

SaveResponse ==
    /\ pc = "save"
    /\ Goto("record")
    /\ UNCHANGED <<table, sent, row, world>>

(* The response cannot be saved: the call is unknown, or stays reserved     *)
(* when that cannot be recorded either.                                     *)
SaveFails ==
    /\ pc = "save"
    /\ faults < MaxFaults /\ faults' = faults + 1
    /\ FinishCall("unknown", NoAnswer) \/ UNCHANGED calls
    /\ StepFails
    /\ UNCHANGED <<counted, sent, phase, status, late, config, lost>>

(* finish_call, and what execute() makes of the result.                     *)
Record ==
    /\ pc = "record"
    /\ FinishCall(CASE reply \in Answers -> "succeeded"
                    [] reply \in {"denied", "lost"} -> "unknown"
                    [] OTHER -> "failed",
                  IF reply \in Answers THEN reply ELSE NoAnswer)
    /\ IF reply \in Answers THEN Answer(reply)
       ELSE IF reply = "invalid" /\ invalid < InvalidRetries
            THEN /\ invalid' = invalid + 1
                 /\ pc' = "retry"
                 /\ UNCHANGED <<step, draft, reply, outcome>>
            ELSE StepFails
    /\ UNCHANGED <<counted, sent, phase, status, world>>

(* The database fails: the call stays reserved.                             *)
RecordFails ==
    /\ pc = "record"
    /\ faults < MaxFaults /\ faults' = faults + 1
    /\ StepFails
    /\ UNCHANGED <<table, sent, phase, status, late, config, lost>>

(* Another attempt, if there is one left and time to wait for it.           *)
Retry ==
    /\ pc = "retry"
    /\ \/ /\ Cardinality(CallsOf(step)) < MaxAttempts /\ ~late
          /\ Goto("lookup") /\ UNCHANGED outcome
       \/ StepFails
    /\ UNCHANGED <<table, sent, phase, status, world>>

---------------------------------------------------------------------------
(* The rest of finish(): the body is committed, or an error is recorded.    *)

Commit ==
    /\ pc = "commit"
    /\ phase' = "db_committed"
    /\ Goto("idle")
    /\ UNCHANGED <<table, sent, status, outcome, world>>

CommitFails ==
    /\ pc = "commit"
    /\ faults < MaxFaults /\ faults' = faults + 1
    /\ Goto("failing")
    /\ UNCHANGED <<table, sent, row, late, config, lost>>

RecordFailure ==
    /\ pc = "failing"
    /\ status' = "failed"
    /\ outcome' = "none"
    /\ Goto("idle")
    /\ UNCHANGED <<table, sent, phase, world>>

Crash ==
    /\ pc # "idle"
    /\ faults < MaxFaults /\ faults' = faults + 1
    /\ pc' = "idle" /\ step' = "summary" /\ draft' = NoAnswer /\ reply' = NoAnswer
    /\ invalid' = 0
    /\ outcome' = IF phase = "db_committed" THEN outcome ELSE "none"
    /\ UNCHANGED <<table, sent, phase, status, late, config, lost>>

TimePasses ==
    /\ pc # "idle" /\ ~late
    /\ late' = TRUE
    /\ UNCHANGED <<table, sent, row, pc, local, config, lost, faults>>

(* Between two commands somebody changes the configuration or loses files.  *)
ChangeConfig(c) ==
    /\ pc = "idle" /\ c # config
    /\ config' = c
    /\ UNCHANGED <<table, sent, row, pc, local, late, lost, faults>>

LoseSnapshots ==
    /\ pc = "idle" /\ lost < Len(calls)
    /\ lost' = Len(calls)
    /\ UNCHANGED <<table, sent, row, pc, local, late, config, faults>>

Progress ==
    \/ ReadInput \/ InputUnreadable \/ Lookup \/ SnapshotMissing \/ PlanChanged \/ Check \/ Reserve \/ DeadlinePassed
    \/ \E what \in Answers \cup Failures :
          (step = "compact" => what \notin {"reducible", "irreducible"}) /\ Send(what)
    \/ SaveResponse \/ SaveFails \/ Record \/ RecordFails \/ Retry
    \/ Commit \/ CommitFails \/ RecordFailure

Next ==
    \/ Recover \/ Resume \/ Leave
    \/ Progress
    \/ Crash \/ TimePasses \/ LoseSnapshots
    \/ \E c \in Configs : ChangeConfig(c)

Spec == Init /\ [][Next]_vars

(* A command that runs keeps going, and the date is tried again and again.  *)
FairSpec == Spec /\ WF_vars(Progress) /\ WF_vars(Recover) /\ WF_vars(Resume)

---------------------------------------------------------------------------
(* The limit of a step holds over all executions of the run, whatever       *)
(* crashed in between (reserve_call counts the generation's calls).         *)
AttemptsBounded ==
    \A s \in LogicalSteps : Cardinality(CallsOf(s)) <= MaxAttempts

(* Nothing leaves the machine without a row: a crash after the request      *)
(* leaves its reservation behind, and every row is in the date's counter.   *)
SentIsRecorded == sent <= Len(calls) /\ counted = Len(calls)

(* At most one call is open, and while a request is under way it is the     *)
(* last: earlier ones were settled before anything new was reserved.        *)
OneOutstanding ==
    /\ Cardinality(Outstanding) <= 1
    /\ pc \in {"reserved", "save", "record"} => Outstanding = {Len(calls)}

(* The log of the calls is sound at every moment: the limits, the counter and *)
(* the open call agree with what was really sent.                           *)
LogIsSound == TypeOK /\ AttemptsBounded /\ SentIsRecorded /\ OneOutstanding

(* What is committed was answered: items come from a succeeded summary that *)
(* fits, from its succeeded compaction, or from dropping whole items.       *)
Grounded ==
    phase = "db_committed" =>
        CASE outcome = "draft"   -> \E i \in Succeeded("summary") : calls[i].answer = "fits"
          [] outcome = "compact" -> \E i \in Succeeded("compact") : calls[i].answer = "fits"
          [] outcome = "reduced" -> \E i \in Succeeded("summary") : calls[i].answer = "reducible"
          [] OTHER -> TRUE

(* A paid answer is final: once a step has one, no execution asks again,    *)
(* even when the snapshots of the answer are gone.                          *)
PaidOnce ==
    [][\A s \in LogicalSteps : Succeeded(s) # {} =>
          /\ Succeeded(s)' = Succeeded(s)
          /\ CallsOf(s)' = CallsOf(s)]_vars

(* Trying again settles the run, whatever was interrupted: the body is      *)
(* committed, with or without items, unless the configuration keeps being   *)
(* incompatible with the frozen input.                                      *)
EventuallyCommitted ==
    <>(phase = "db_committed") \/ []<>(config = "incompatible")

=============================================================================
