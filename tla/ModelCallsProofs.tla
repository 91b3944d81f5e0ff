-------------------------- MODULE ModelCallsProofs --------------------------
(***************************************************************************)
(* The log of the model calls, for every limit and every number of faults: *)
(* it is sound, what is committed was answered, and a paid answer is never *)
(* asked for again.                                                        *)
(***************************************************************************)
EXTENDS ModelCalls, TLAPS, FiniteSetTheorems

(* Where the open call is settled, and where it is under way.              *)
Quiet == {"choose", "begin", "lookup", "check", "reserve", "retry"}
Busy  == {"reserved", "save", "record"}

OpenCall ==
    /\ Outstanding \subseteq {Len(calls)}
    /\ pc \in Quiet => Outstanding = {}
    /\ pc \in Busy => Outstanding = {Len(calls)} /\ calls[Len(calls)].step = step

(* A request is sent once per reservation, and not before it.              *)
SentOnce ==
    /\ sent <= Len(calls) /\ counted = Len(calls)
    /\ pc = "reserved" => sent < Len(calls)

(* Between the look into the log and the end of the attempt the step has no *)
(* answer: this is what makes a second request for a paid answer impossible. *)
Unanswered ==
    pc \in {"check", "reserve", "reserved", "save", "record", "retry"} => Succeeded(step) = {}

(* A succeeded call has an answer; a compaction that is valid fits.         *)
AnswersAreValid ==
    /\ \A i \in 1 .. Len(calls) : calls[i].status = "succeeded" =>
          /\ calls[i].answer \in Answers
          /\ calls[i].step = "compact" => calls[i].answer = "fits"
    /\ step = "compact" => reply \notin {"reducible", "irreducible"}

Answered(s, answer) == \E i \in Succeeded(s) : calls[i].answer = answer

(* What the run is about to commit is grounded already, and so is the draft *)
(* whose compaction is executed.                                            *)
GroundedAlways ==
    /\ outcome = "draft" => Answered("summary", "fits")
    /\ outcome = "compact" => Answered("compact", "fits")
    /\ outcome = "reduced" => Answered("summary", "reducible")
    /\ draft = "reducible" => Answered("summary", "reducible")

IInv ==
    /\ TypeOK /\ OpenCall /\ SentOnce /\ AttemptsBounded
    /\ Unanswered /\ AnswersAreValid /\ GroundedAlways

---------------------------------------------------------------------------
(* What the four ways of writing the log do to it.                          *)

(* Nothing that an answer is found by is touched.                           *)
AnswersKept ==
    /\ Len(calls') = Len(calls)
    /\ \A s \in LogicalSteps : CallsOf(s)' = CallsOf(s) /\ Succeeded(s)' = Succeeded(s)
    /\ \A i \in 1 .. Len(calls) : calls'[i].step = calls[i].step
    /\ \A i \in 1 .. Len(calls) :
          calls[i].status = "succeeded" \/ calls'[i].status = "succeeded" => calls'[i] = calls[i]

LEMMA LogUntouched ==
    ASSUME UNCHANGED calls
    PROVE  AnswersKept /\ Outstanding' = Outstanding
BY DEF AnswersKept, CallsOf, Succeeded, Outstanding

LEMMA LogSettled ==
    ASSUME calls \in Seq(Call), SettleReserved
    PROVE  calls' \in Seq(Call) /\ AnswersKept /\ Outstanding' = {}
<1>1. \A i \in 1 .. Len(calls) : calls[i] \in Call
  OBVIOUS
<1>2. \A i \in 1 .. Len(calls) :
         /\ [calls[i] EXCEPT !.status = "unknown"] \in Call
         /\ [calls[i] EXCEPT !.status = "unknown"].status = "unknown"
         /\ [calls[i] EXCEPT !.status = "unknown"].step = calls[i].step
  BY <1>1 DEF Call
<1>3. calls' \in Seq(Call) /\ Len(calls') = Len(calls)
  BY <1>1, <1>2 DEF SettleReserved
<1>4. \A i \in 1 .. Len(calls) :
         /\ calls'[i] = IF calls[i].status = "reserved"
                        THEN [calls[i] EXCEPT !.status = "unknown"] ELSE calls[i]
  BY DEF SettleReserved
<1>5. \A i \in 1 .. Len(calls) :
         /\ calls'[i].status # "reserved" /\ calls'[i].step = calls[i].step
         /\ calls[i].status = "succeeded" \/ calls'[i].status = "succeeded" => calls'[i] = calls[i]
  BY <1>2, <1>4
<1>. QED
  BY <1>3, <1>5 DEF AnswersKept, CallsOf, Succeeded, Outstanding

LEMMA LogFinished ==
    ASSUME calls \in Seq(Call), Outstanding = {Len(calls)},
           NEW result \in {"succeeded", "failed", "unknown"},
           NEW answer \in Answers \cup {NoAnswer},
           FinishCall(result, answer)
    PROVE  /\ calls' \in Seq(Call) /\ Len(calls') = Len(calls) /\ Len(calls) \in 1 .. Len(calls)
           /\ Outstanding' = {}
           /\ \A s \in LogicalSteps : CallsOf(s)' = CallsOf(s)
           /\ \A i \in 1 .. Len(calls) : i # Len(calls) => calls'[i] = calls[i]
           /\ calls'[Len(calls)].step = calls[Len(calls)].step
           /\ calls'[Len(calls)].status = result /\ calls'[Len(calls)].answer = answer
           /\ calls[Len(calls)].status = "reserved"
<1>1. Len(calls) \in 1 .. Len(calls) /\ calls[Len(calls)].status = "reserved"
  BY DEF Outstanding
<1>2. \A i \in 1 .. Len(calls) : i # Len(calls) => calls[i].status # "reserved"
  BY DEF Outstanding
<1> DEFINE c == [calls[Len(calls)] EXCEPT !.status = result, !.answer = answer]
<1>a. calls[Len(calls)] \in Call
  BY <1>1
<1>3. c \in Call /\ c.status = result /\ c.answer = answer /\ c.step = calls[Len(calls)].step
  BY <1>a DEF Call
<1>4. calls' = [calls EXCEPT ![Len(calls)] = c]
  BY DEF FinishCall
<1> HIDE DEF c
<1>5. calls' \in Seq(Call) /\ Len(calls') = Len(calls)
  BY <1>1, <1>3, <1>4
<1>6. /\ \A i \in 1 .. Len(calls) : i # Len(calls) => calls'[i] = calls[i]
      /\ calls'[Len(calls)] = c
  BY <1>1, <1>4
<1>7. \A i \in 1 .. Len(calls) : calls'[i].step = calls[i].step /\ calls'[i].status # "reserved"
  BY <1>2, <1>3, <1>6
<1>8. Outstanding' = {} /\ \A s \in LogicalSteps : CallsOf(s)' = CallsOf(s)
  BY <1>5, <1>7 DEF Outstanding, CallsOf
<1>. QED
  BY <1>1, <1>3, <1>5, <1>6, <1>8

LEMMA LogReserved ==
    ASSUME calls \in Seq(Call), Outstanding = {}, NEW s \in LogicalSteps,
           calls' = Append(calls, [step |-> s, status |-> "reserved", answer |-> NoAnswer])
    PROVE  /\ calls' \in Seq(Call) /\ Len(calls') = Len(calls) + 1
           /\ Outstanding' = {Len(calls')} /\ calls'[Len(calls')].step = s
           /\ \A i \in 1 .. Len(calls) : calls'[i] = calls[i]
           /\ \A t \in LogicalSteps : Succeeded(t)' = Succeeded(t)
           /\ CallsOf(s)' = CallsOf(s) \cup {Len(calls) + 1}
           /\ \A t \in LogicalSteps \ {s} : CallsOf(t)' = CallsOf(t)
<1> DEFINE c == [step |-> s, status |-> "reserved", answer |-> NoAnswer]
<1>1. c \in Call /\ c.step = s /\ c.status = "reserved"
  BY DEF Call
<1> HIDE DEF c
<1>2. calls' = Append(calls, c)
  BY DEF c
<1>3. /\ calls' \in Seq(Call) /\ Len(calls') = Len(calls) + 1
      /\ \A i \in 1 .. Len(calls) : calls'[i] = calls[i]
      /\ calls'[Len(calls) + 1] = c
  BY <1>1, <1>2
<1>4. Outstanding' = {Len(calls')}
  BY <1>1, <1>3 DEF Outstanding
<1>5. \A t \in LogicalSteps : Succeeded(t)' = Succeeded(t)
  BY <1>1, <1>3 DEF Succeeded, CallsOf
<1>6. /\ CallsOf(s)' = CallsOf(s) \cup {Len(calls) + 1}
      /\ \A t \in LogicalSteps \ {s} : CallsOf(t)' = CallsOf(t)
  BY <1>1, <1>3 DEF CallsOf
<1>. QED
  BY <1>1, <1>3, <1>4, <1>5, <1>6

LEMMA CallsAreFinite ==
    ASSUME calls \in Seq(Call), NEW s
    PROVE  IsFiniteSet(CallsOf(s)) /\ Cardinality(CallsOf(s)) \in Nat
<1>1. IsFiniteSet(1 .. Len(calls))
  BY FS_Interval
<1>2. CallsOf(s) \subseteq 1 .. Len(calls)
  BY DEF CallsOf
<1>. QED
  BY <1>1, <1>2, FS_Subset, FS_CardinalityType

---------------------------------------------------------------------------
(* The end of a step of generate(): what it makes of the run.               *)

LEMMA GroundedKept ==
    ASSUME GroundedAlways, AnswersKept
    PROVE  /\ Answered("summary", "fits") => Answered("summary", "fits")'
           /\ Answered("compact", "fits") => Answered("compact", "fits")'
           /\ Answered("summary", "reducible") => Answered("summary", "reducible")'
BY DEF AnswersKept, Answered, Succeeded, CallsOf, LogicalSteps

(* execute() fails, after steps that kept the answers.                      *)
LEMMA FailureKeeps ==
    ASSUME IInv, AnswersKept, StepFails, calls' \in Seq(Call),
           Outstanding' \subseteq {Len(calls)}, counted' = counted, sent' = sent,
           phase' = phase, status' = status, late' = late, config' = config, lost' = lost,
           faults' \in 0 .. MaxFaults
    PROVE  IInv'
<1>1. TypeOK'
  BY LimitsAssumption DEF IInv, TypeOK, StepFails, Composed, Outcomes, Places, LogicalSteps
<1>2. OpenCall'
  BY DEF OpenCall, AnswersKept, StepFails, Composed, Quiet, Busy
<1>3. SentOnce'
  BY DEF IInv, SentOnce, AnswersKept, StepFails, Composed
<1>4. AttemptsBounded'
  BY DEF IInv, AttemptsBounded, AnswersKept
<1>5. Unanswered'
  BY DEF Unanswered, StepFails, Composed
<1>6. AnswersAreValid'
  BY DEF IInv, AnswersAreValid, AnswersKept, StepFails, Composed, NoAnswer
<1>7. GroundedAlways'
  BY GroundedKept DEF IInv, GroundedAlways, StepFails, Composed, NoAnswer
<1>. QED
  BY <1>1, <1>2, <1>3, <1>4, <1>5, <1>6, <1>7 DEF IInv

(* A step that only moves on, with the log as it is.                        *)
LEMMA MoveKeeps ==
    ASSUME IInv, TypeOK', AnswersKept, Outstanding' \subseteq Outstanding, sent' = sent,
           counted' = counted, step' = step, reply' = reply,
           draft' = draft, outcome' \in {outcome, "none"},
           pc' \in Quiet => Outstanding' = {},
           pc' \in Busy => pc \in Busy /\ Outstanding' = Outstanding,
           pc' = "reserved" => pc = "reserved",
           pc' \in {"check", "reserve", "reserved", "save", "record", "retry"} =>
               Succeeded(step) = {}
    PROVE  IInv'
<1>2. OpenCall'
  BY DEF IInv, OpenCall, AnswersKept, TypeOK, Outstanding
<1>3. SentOnce'
  BY DEF IInv, SentOnce, AnswersKept
<1>4. AttemptsBounded'
  BY DEF IInv, AttemptsBounded, AnswersKept
<1>5. Unanswered'
  BY DEF IInv, TypeOK, Unanswered, AnswersKept
<1>6. AnswersAreValid'
  BY DEF IInv, AnswersAreValid, AnswersKept
<1>7. GroundedAlways'
  BY GroundedKept DEF IInv, GroundedAlways
<1>. QED
  BY <1>2, <1>3, <1>4, <1>5, <1>6, <1>7 DEF IInv

LEMMA InitIInv == Init => IInv
<1> SUFFICES ASSUME Init PROVE IInv
  OBVIOUS
<1>1. TypeOK
  <2>1. late \in BOOLEAN
    BY Zenon DEF Init
  <2>. QED
    BY <2>1, LimitsAssumption DEF Init, TypeOK, Outcomes, Places, LogicalSteps, Configs, NoAnswer
<1>2. Len(calls) = 0 /\ 1 .. Len(calls) = {}
  BY DEF Init
<1>3. Outstanding = {} /\ \A s : CallsOf(s) = {} /\ Succeeded(s) = {}
  BY <1>2 DEF Outstanding, CallsOf, Succeeded
<1>4. AttemptsBounded
  BY <1>3, FS_EmptySet, LimitsAssumption DEF AttemptsBounded
<1>5. OpenCall /\ SentOnce /\ Unanswered
  BY <1>2, <1>3 DEF Init, OpenCall, SentOnce, Unanswered, Busy
<1>6. AnswersAreValid /\ GroundedAlways
  BY <1>2 DEF Init, AnswersAreValid, GroundedAlways, NoAnswer
<1>. QED
  BY <1>1, <1>4, <1>5, <1>6 DEF IInv

(* A valid answer is used, new or found: the log that holds it is settled.   *)
LEMMA AnswerKeeps ==
    ASSUME IInv, NEW answer \in Answers, Answer(answer),
           step = "compact" => answer = "fits",
           calls' \in Seq(Call), Len(calls') = Len(calls), Outstanding' = {},
           \A s \in LogicalSteps : CallsOf(s)' = CallsOf(s),
           \A i \in 1 .. Len(calls) : calls'[i].status = "succeeded" =>
               /\ calls'[i].answer \in Answers
               /\ calls'[i].step = "compact" => calls'[i].answer = "fits",
           \A i \in 1 .. Len(calls) : calls[i].status = "succeeded" => calls'[i] = calls[i],
           \E i \in 1 .. Len(calls) : calls'[i].step = step /\ calls'[i].status = "succeeded"
                                      /\ calls'[i].answer = answer,
           UNCHANGED <<counted, sent, phase, status, world>>
    PROVE  IInv'
<1>1. TypeOK'
  <2>1. pc' \in Places /\ step' \in LogicalSteps /\ draft' \in Answers \cup {NoAnswer}
        /\ reply' = NoAnswer /\ invalid' = 0 /\ outcome' \in Outcomes
    BY DEF IInv, TypeOK, Answer, Composed, Outcomes, Places, LogicalSteps
  <2>. QED
    BY <2>1, LimitsAssumption DEF IInv, TypeOK, world
<1>2. OpenCall'
  BY DEF OpenCall, Answer, Composed, Quiet, Busy
<1>3. SentOnce'
  BY DEF IInv, SentOnce, Answer, Composed
<1>4. AttemptsBounded'
  BY DEF IInv, AttemptsBounded
<1>5. Unanswered'
  BY DEF Unanswered, Answer, Composed
<1>6. AnswersAreValid'
  BY DEF AnswersAreValid, Answer, Composed, NoAnswer
<1>7. GroundedAlways'
  <2>1. \A s \in LogicalSteps, a \in Answers : Answered(s, a) => Answered(s, a)'
    BY DEF Answered, Succeeded, CallsOf
  <2>3. step = "summary" => Answered("summary", answer)'
    BY DEF Answered, Succeeded, CallsOf
  <2>4. step = "compact" => Answered("compact", "fits")'
    BY DEF Answered, Succeeded, CallsOf
  <2>5. "summary" \in LogicalSteps /\ "compact" \in LogicalSteps
        /\ "fits" \in Answers /\ "reducible" \in Answers
    BY DEF LogicalSteps, Answers
  <2>6. CASE step = "summary" /\ answer # "fits"
    BY <2>1, <2>3, <2>5, <2>6 DEF IInv, GroundedAlways, Answer, NoAnswer
  <2>7. CASE ~(step = "summary" /\ answer # "fits")
    BY <2>1, <2>3, <2>4, <2>5, <2>7 DEF IInv, TypeOK, LogicalSteps, GroundedAlways, Answer, Composed, NoAnswer
  <2>. QED
    BY <2>6, <2>7
<1>. QED
  BY <1>1, <1>2, <1>3, <1>4, <1>5, <1>6, <1>7 DEF IInv

---------------------------------------------------------------------------
(* One lemma for the actions around execute(), one for its own.             *)

LEMMA CommandKeeps ==
    ASSUME IInv,
           \/ Recover \/ Resume \/ Leave \/ ReadInput \/ InputUnreadable
           \/ Commit \/ CommitFails \/ RecordFailure
    PROVE  IInv'
<1>1. CASE Recover
  <2>1. calls' \in Seq(Call) /\ AnswersKept /\ Outstanding' = {}
    BY <1>1, LogSettled DEF IInv, TypeOK, Recover
  <2>2. TypeOK'
    <3>1. late' \in BOOLEAN
      BY <1>1, Zenon DEF Recover
    <3>. QED
      BY <1>1, <2>1, <3>1 DEF IInv, TypeOK, Recover, Places, row, local
  <2>. QED
    BY <1>1, <2>1, <2>2, MoveKeeps DEF Recover, row, local, Busy
<1>2. CASE Resume
  <2>1. calls' \in Seq(Call) /\ AnswersKept /\ Outstanding' = {}
    BY <1>2, LogSettled DEF IInv, TypeOK, Resume
  <2>2. TypeOK'
    BY <1>2, <2>1 DEF IInv, TypeOK, Resume, Places, world, local
  <2>. QED
    BY <1>2, <2>1, <2>2, MoveKeeps DEF Resume, world, local, Busy
<1>3. CASE Leave
  <2>1. AnswersKept /\ Outstanding' = Outstanding
    BY <1>3, LogUntouched DEF Leave, table
  <2>2. TypeOK'
    BY <1>3 DEF IInv, TypeOK, Leave, Goto, Places, table, row, world, local
  <2>. QED
    BY <1>3, <2>1, <2>2, MoveKeeps DEF Leave, Goto, table, row, local, Busy, Quiet
<1>4. CASE ReadInput
  <2>1. AnswersKept /\ Outstanding' = Outstanding
    BY <1>4, LogUntouched DEF ReadInput, table
  <2>2. TypeOK'
    BY <1>4 DEF IInv, TypeOK, ReadInput, Goto, Places, table, row, world, local
  <2>. QED
    BY <1>4, <2>1, <2>2, MoveKeeps DEF IInv, OpenCall, ReadInput, Goto, table, row, local, Busy, Quiet
<1>5. CASE InputUnreadable
  <2>1. AnswersKept /\ Outstanding' = Outstanding
    BY <1>5, LogUntouched DEF InputUnreadable, table
  <2>2. TypeOK'
    BY <1>5, LimitsAssumption DEF IInv, TypeOK, InputUnreadable, Goto, Places, table, row, local
  <2>. QED
    BY <1>5, <2>1, <2>2, MoveKeeps DEF InputUnreadable, Goto, table, row, local, Busy, Quiet
<1>6. CASE Commit
  <2>1. AnswersKept /\ Outstanding' = Outstanding
    BY <1>6, LogUntouched DEF Commit, table
  <2>2. TypeOK'
    BY <1>6 DEF IInv, TypeOK, Commit, Goto, Places, table, world, local
  <2>. QED
    BY <1>6, <2>1, <2>2, MoveKeeps DEF Commit, Goto, table, local, Busy, Quiet
<1>7. CASE CommitFails
  <2>1. AnswersKept /\ Outstanding' = Outstanding
    BY <1>7, LogUntouched DEF CommitFails, table
  <2>2. TypeOK'
    BY <1>7, LimitsAssumption DEF IInv, TypeOK, CommitFails, Goto, Places, table, row, local
  <2>. QED
    BY <1>7, <2>1, <2>2, MoveKeeps DEF CommitFails, Goto, table, row, local, Busy, Quiet
<1>8. CASE RecordFailure
  <2>1. AnswersKept /\ Outstanding' = Outstanding
    BY <1>8, LogUntouched DEF RecordFailure, table
  <2>2. TypeOK'
    BY <1>8 DEF IInv, TypeOK, RecordFailure, Goto, Outcomes, Places, table, world, local
  <2>. QED
    BY <1>8, <2>1, <2>2, MoveKeeps DEF RecordFailure, Goto, table, local, Busy, Quiet
<1>. QED
  BY <1>1, <1>2, <1>3, <1>4, <1>5, <1>6, <1>7, <1>8

(* What happens to a command and around it.                                 *)
LEMMA EnvironmentKeeps ==
    ASSUME IInv, Crash \/ TimePasses \/ LoseSnapshots \/ \E c \in Configs : ChangeConfig(c)
    PROVE  IInv'
<1>1. CASE Crash
  <2>1. AnswersKept /\ Outstanding' = Outstanding /\ calls' = calls
    BY <1>1, LogUntouched DEF Crash, table
  <2>2. TypeOK'
    BY <1>1, LimitsAssumption
    DEF IInv, TypeOK, Crash, Places, LogicalSteps, Outcomes, NoAnswer, table
  <2>3. OpenCall' /\ SentOnce' /\ Unanswered' /\ AttemptsBounded'
    BY <1>1, <2>1 DEF IInv, OpenCall, SentOnce, Unanswered, AttemptsBounded, AnswersKept,
                      Crash, table, Busy, Quiet
  <2>4. AnswersAreValid' /\ GroundedAlways'
    BY <1>1, <2>1, GroundedKept
    DEF IInv, AnswersAreValid, GroundedAlways, AnswersKept, Crash, table, NoAnswer
  <2>. QED
    BY <2>2, <2>3, <2>4 DEF IInv
<1>2. CASE TimePasses
  <2>1. AnswersKept /\ Outstanding' = Outstanding
    BY <1>2, LogUntouched DEF TimePasses, table
  <2>2. TypeOK'
    <3>1. late' \in BOOLEAN
      BY <1>2, Zenon DEF TimePasses
    <3>. QED
      BY <1>2, <3>1 DEF IInv, TypeOK, TimePasses, table, row, local
  <2>. QED
    BY <1>2, <2>1, <2>2, MoveKeeps
    DEF IInv, OpenCall, Unanswered, TimePasses, table, row, local, Busy, Quiet
<1>3. CASE LoseSnapshots
  <2>1. AnswersKept /\ Outstanding' = Outstanding
    BY <1>3, LogUntouched DEF LoseSnapshots, table
  <2>2. TypeOK'
    BY <1>3 DEF IInv, TypeOK, LoseSnapshots, table, row, local
  <2>. QED
    BY <1>3, <2>1, <2>2, MoveKeeps DEF LoseSnapshots, table, row, local, Busy, Quiet
<1>4. CASE \E c \in Configs : ChangeConfig(c)
  <2>1. AnswersKept /\ Outstanding' = Outstanding
    BY <1>4, LogUntouched DEF ChangeConfig, table
  <2>2. TypeOK'
    BY <1>4 DEF IInv, TypeOK, ChangeConfig, table, row, local
  <2>. QED
    BY <1>4, <2>1, <2>2, MoveKeeps DEF ChangeConfig, table, row, local, Busy, Quiet
<1>. QED
  BY <1>1, <1>2, <1>3, <1>4

(* Before the request: the log is looked at, then a call is reserved.        *)
LEMMA ReserveKeeps ==
    ASSUME IInv, Lookup \/ SnapshotMissing \/ PlanChanged \/ Check \/ Reserve \/ Retry
    PROVE  IInv'
<1>1. CASE Lookup
  <2>1. AnswersKept /\ Outstanding' = Outstanding /\ calls' = calls
    BY <1>1, LogUntouched DEF Lookup, table
  <2>2. CASE Succeeded(step) = {}
    <3>1. TypeOK'
      BY <1>1, <2>2 DEF IInv, TypeOK, Lookup, Goto, Places, table, world, local
    <3>. QED
      BY <1>1, <2>1, <2>2, <3>1, MoveKeeps
      DEF IInv, OpenCall, Lookup, Goto, table, local, Busy, Quiet
  <2>3. CASE Succeeded(step) # {}
    <3>1. PICK i \in Succeeded(step) : Answer(calls[i].answer)
      BY <1>1, <2>3 DEF Lookup
    <3>2. /\ i \in 1 .. Len(calls) /\ calls[i].step = step /\ calls[i].status = "succeeded"
          /\ calls[i].answer \in Answers /\ (step = "compact" => calls[i].answer = "fits")
      BY <3>1 DEF Succeeded, CallsOf, IInv, AnswersAreValid
    <3>3. Outstanding' = {}
      BY <1>1, <2>1 DEF IInv, OpenCall, Lookup, Quiet
    <3>. QED
      BY <1>1, <2>1, <3>1, <3>2, <3>3, AnswerKeeps
      DEF IInv, TypeOK, AnswersAreValid, AnswersKept, Lookup, table
  <2>. QED
    BY <2>2, <2>3
<1>2. CASE SnapshotMissing \/ PlanChanged
  <2>1. AnswersKept /\ Outstanding' = Outstanding
    BY <1>2, LogUntouched DEF SnapshotMissing, PlanChanged, table
  <2>. QED
    BY <1>2, <2>1, FailureKeeps
    DEF IInv, TypeOK, OpenCall, SnapshotMissing, PlanChanged, table, world
<1>3. CASE Check
  <2>1. AnswersKept /\ Outstanding' = Outstanding
    BY <1>3, LogUntouched DEF Check, table
  <2>2. CASE StepFails
    BY <1>3, <2>1, <2>2, FailureKeeps DEF IInv, TypeOK, OpenCall, Check, table, world
  <2>3. CASE Goto("reserve") /\ UNCHANGED outcome
    <3>1. TypeOK'
      BY <1>3, <2>3 DEF IInv, TypeOK, Check, Goto, Places, table, world, local
    <3>. QED
      BY <1>3, <2>1, <2>3, <3>1, MoveKeeps
      DEF IInv, OpenCall, Unanswered, Check, Goto, table, local, Busy, Quiet
  <2>. QED
    BY <1>3, <2>2, <2>3 DEF Check
<1>4. CASE Retry
  <2>1. AnswersKept /\ Outstanding' = Outstanding
    BY <1>4, LogUntouched DEF Retry, table
  <2>2. CASE StepFails
    BY <1>4, <2>1, <2>2, FailureKeeps DEF IInv, TypeOK, OpenCall, Retry, table, world
  <2>3. CASE Goto("lookup") /\ UNCHANGED outcome
    <3>1. TypeOK'
      BY <1>4, <2>3 DEF IInv, TypeOK, Retry, Goto, Places, table, world, local
    <3>. QED
      BY <1>4, <2>1, <2>3, <3>1, MoveKeeps
      DEF IInv, OpenCall, Retry, Goto, table, local, Busy, Quiet
  <2>. QED
    BY <1>4, <2>2, <2>3 DEF Retry
<1>5. CASE Reserve
  <2>1. CASE StepFails /\ UNCHANGED <<table, phase, status>>
    <3>1. AnswersKept /\ Outstanding' = Outstanding
      BY <2>1, LogUntouched DEF table
    <3>. QED
      BY <1>5, <2>1, <3>1, FailureKeeps DEF IInv, TypeOK, OpenCall, Reserve, table, world
  <2>2. CASE /\ Cardinality(CallsOf(step)) < MaxAttempts
             /\ calls' = Append(calls, [step |-> step, status |-> "reserved", answer |-> NoAnswer])
             /\ counted' = counted + 1
             /\ phase' = "generating"
             /\ Goto("reserved")
             /\ UNCHANGED <<status, outcome>>
    <3>1. Outstanding = {} /\ calls \in Seq(Call)
      BY <1>5 DEF Reserve, IInv, TypeOK, OpenCall, Quiet
    <3>a. PICK s \in LogicalSteps : s = step
      BY DEF IInv, TypeOK
    <3>2. /\ calls' \in Seq(Call) /\ Len(calls') = Len(calls) + 1
          /\ Outstanding' = {Len(calls')} /\ calls'[Len(calls')].step = s
          /\ \A i \in 1 .. Len(calls) : calls'[i] = calls[i]
          /\ \A t \in LogicalSteps : Succeeded(t)' = Succeeded(t)
          /\ CallsOf(s)' = CallsOf(s) \cup {Len(calls) + 1}
          /\ \A t \in LogicalSteps \ {s} : CallsOf(t)' = CallsOf(t)
      BY <2>2, <3>1, <3>a, LogReserved
    <3>b. calls'[Len(calls')].status = "reserved"
      BY <3>2 DEF Outstanding
    <3>3. TypeOK'
      BY <1>5, <2>2, <3>2 DEF IInv, TypeOK, Reserve, Goto, Places, world, local
    <3>4. OpenCall'
      BY <2>2, <3>a, <3>2 DEF OpenCall, Goto, local, Quiet, Busy
    <3>5. SentOnce'
      BY <1>5, <2>2, <3>1, <3>2 DEF IInv, TypeOK, SentOnce, Reserve, Goto
    <3>6. AttemptsBounded'
      <4>1. IsFiniteSet(CallsOf(s)) /\ Cardinality(CallsOf(s)) \in Nat
        BY <3>1, CallsAreFinite
      <4>2. Len(calls) + 1 \notin CallsOf(s)
        BY <3>1 DEF CallsOf
      <4>3. Cardinality(CallsOf(s) \cup {Len(calls) + 1}) = Cardinality(CallsOf(s)) + 1
        BY <4>1, <4>2, FS_AddElement
      <4>4. Cardinality(CallsOf(s)) < MaxAttempts
        BY <2>2, <3>a
      <4>5. Cardinality(CallsOf(s)') <= MaxAttempts
        BY <3>2, <4>1, <4>3, <4>4, LimitsAssumption
      <4>6. \A t \in LogicalSteps \ {s} : Cardinality(CallsOf(t)') <= MaxAttempts
        BY <3>2 DEF IInv, AttemptsBounded
      <4>. QED
        BY <4>5, <4>6 DEF AttemptsBounded
    <3>7. Unanswered'
      BY <1>5, <2>2, <3>a, <3>2 DEF IInv, Unanswered, Reserve, Goto, local
    <3>8. AnswersAreValid'
      BY <2>2, <3>1, <3>2, <3>b DEF IInv, AnswersAreValid, Goto, local
    <3>9. GroundedAlways'
      <4>1. \A t \in LogicalSteps, a \in Answers : Answered(t, a) => Answered(t, a)'
        BY <3>1, <3>2 DEF Answered, Succeeded, CallsOf
      <4>. QED
        BY <2>2, <4>1 DEF IInv, GroundedAlways, LogicalSteps, Answers, Goto, local
    <3>. QED
      BY <3>3, <3>4, <3>5, <3>6, <3>7, <3>8, <3>9 DEF IInv
  <2>. QED
    BY <1>5, <2>1, <2>2 DEF Reserve
<1>. QED
  BY <1>1, <1>2, <1>3, <1>4, <1>5

(* The request and its record.                                              *)
LEMMA RequestKeeps ==
    ASSUME IInv,
           \/ DeadlinePassed \/ SaveResponse \/ SaveFails \/ Record \/ RecordFails
           \/ \E what \in Answers \cup Failures :
                 (step = "compact" => what \notin {"reducible", "irreducible"}) /\ Send(what)
    PROVE  IInv'
<1>1. CASE DeadlinePassed
  <2>1. AnswersKept /\ Outstanding' = Outstanding
    BY <1>1, LogUntouched DEF DeadlinePassed, table
  <2>. QED
    BY <1>1, <2>1, FailureKeeps DEF IInv, TypeOK, OpenCall, DeadlinePassed, table, world
<1>2. CASE \E what \in Answers \cup Failures :
              (step = "compact" => what \notin {"reducible", "irreducible"}) /\ Send(what)
  <2>1. AnswersKept /\ Outstanding' = Outstanding /\ calls' = calls
    BY <1>2, LogUntouched DEF Send, table
  <2>2. TypeOK'
    BY <1>2 DEF IInv, TypeOK, Send, Places, table, row, world
  <2>3. OpenCall' /\ SentOnce' /\ Unanswered' /\ AttemptsBounded'
    BY <1>2, <2>1 DEF IInv, TypeOK, OpenCall, SentOnce, Unanswered, AttemptsBounded, AnswersKept,
                      Send, table, Busy, Quiet
  <2>4. AnswersAreValid' /\ GroundedAlways'
    BY <1>2, <2>1, GroundedKept
    DEF IInv, AnswersAreValid, GroundedAlways, AnswersKept, Send, table, row
  <2>. QED
    BY <2>2, <2>3, <2>4 DEF IInv
<1>3. CASE SaveResponse
  <2>1. AnswersKept /\ Outstanding' = Outstanding
    BY <1>3, LogUntouched DEF SaveResponse, table
  <2>2. TypeOK'
    BY <1>3 DEF IInv, TypeOK, SaveResponse, Goto, Places, table, row, world, local
  <2>. QED
    BY <1>3, <2>1, <2>2, MoveKeeps
    DEF IInv, OpenCall, Unanswered, SaveResponse, Goto, table, row, local, Busy, Quiet
<1>4. CASE SaveFails
  <2>1. calls' \in Seq(Call) /\ AnswersKept /\ Outstanding' \subseteq {Len(calls)}
    <3>1. CASE UNCHANGED calls
      BY <3>1, LogUntouched DEF IInv, TypeOK, OpenCall
    <3>2. CASE FinishCall("unknown", NoAnswer)
      <4>1. Outstanding = {Len(calls)} /\ calls \in Seq(Call)
        BY <1>4 DEF SaveFails, IInv, TypeOK, OpenCall, Busy
      <4>2. /\ calls' \in Seq(Call) /\ Len(calls') = Len(calls) /\ Len(calls) \in 1 .. Len(calls)
            /\ Outstanding' = {}
            /\ \A s \in LogicalSteps : CallsOf(s)' = CallsOf(s)
            /\ \A i \in 1 .. Len(calls) : i # Len(calls) => calls'[i] = calls[i]
            /\ calls'[Len(calls)].step = calls[Len(calls)].step
            /\ calls'[Len(calls)].status = "unknown"
            /\ calls[Len(calls)].status = "reserved"
        BY <3>2, <4>1, LogFinished
      <4>. QED
        BY <4>2 DEF AnswersKept, Succeeded, CallsOf
    <3>. QED
      BY <1>4, <3>1, <3>2 DEF SaveFails
  <2>2. faults' \in 0 .. MaxFaults
    BY <1>4, LimitsAssumption DEF IInv, TypeOK, SaveFails
  <2>. QED
    BY <1>4, <2>1, <2>2, FailureKeeps DEF SaveFails
<1>5. CASE RecordFails
  <2>1. AnswersKept /\ Outstanding' = Outstanding
    BY <1>5, LogUntouched DEF RecordFails, table
  <2>2. faults' \in 0 .. MaxFaults
    BY <1>5, LimitsAssumption DEF IInv, TypeOK, RecordFails
  <2>. QED
    BY <1>5, <2>1, <2>2, FailureKeeps DEF IInv, TypeOK, OpenCall, RecordFails, table
<1>6. CASE Record
  <2> DEFINE result == CASE reply \in Answers -> "succeeded"
                         [] reply \in {"denied", "lost"} -> "unknown"
                         [] OTHER -> "failed"
             answer == IF reply \in Answers THEN reply ELSE NoAnswer
  <2>1. /\ Outstanding = {Len(calls)} /\ calls \in Seq(Call)
        /\ calls[Len(calls)].step = step /\ Succeeded(step) = {}
    BY <1>6 DEF Record, IInv, TypeOK, OpenCall, Unanswered, Busy
  <2>2. /\ result \in {"succeeded", "failed", "unknown"} /\ answer \in Answers \cup {NoAnswer}
        /\ result = "succeeded" <=> reply \in Answers
        /\ reply \in Answers => answer = reply
    BY DEF Answers
  <2>3. FinishCall(result, answer)
    BY <1>6 DEF Record
  <2> HIDE DEF result, answer
  <2>4. /\ calls' \in Seq(Call) /\ Len(calls') = Len(calls) /\ Len(calls) \in 1 .. Len(calls)
        /\ Outstanding' = {}
        /\ \A s \in LogicalSteps : CallsOf(s)' = CallsOf(s)
        /\ \A i \in 1 .. Len(calls) : i # Len(calls) => calls'[i] = calls[i]
        /\ calls'[Len(calls)].step = calls[Len(calls)].step
        /\ calls'[Len(calls)].status = result /\ calls'[Len(calls)].answer = answer
        /\ calls[Len(calls)].status = "reserved"
    BY <2>1, <2>2, <2>3, LogFinished
  <2>5. CASE reply \in Answers
    <3>1. Answer(reply) /\ UNCHANGED <<counted, sent, phase, status, world>>
      BY <1>6, <2>5 DEF Record
    <3>2. step = "compact" => reply = "fits"
      BY <2>5 DEF IInv, AnswersAreValid, Answers
    <3>3. \A i \in 1 .. Len(calls) : calls'[i].status = "succeeded" =>
              /\ calls'[i].answer \in Answers
              /\ calls'[i].step = "compact" => calls'[i].answer = "fits"
      BY <2>1, <2>2, <2>4, <2>5, <3>2 DEF IInv, AnswersAreValid
    <3>. QED
      BY <2>1, <2>2, <2>4, <2>5, <3>1, <3>2, <3>3, AnswerKeeps
  <2>6. CASE reply \notin Answers
    <3>1. AnswersKept
      BY <2>2, <2>4, <2>6 DEF AnswersKept, Succeeded, CallsOf
    <3>2. CASE StepFails
      BY <1>6, <2>4, <3>1, <3>2, FailureKeeps DEF IInv, TypeOK, Record, world
    <3>3. CASE /\ invalid < InvalidRetries /\ invalid' = invalid + 1
               /\ pc' = "retry"
               /\ UNCHANGED <<step, draft, reply, outcome>>
      <4>1. TypeOK'
        BY <1>6, <2>4, <3>3, LimitsAssumption DEF IInv, TypeOK, Record, Places, world
      <4>. QED
        BY <1>6, <2>1, <2>4, <3>1, <3>3, <4>1, MoveKeeps DEF Record, Busy
    <3>. QED
      BY <1>6, <2>6, <3>2, <3>3 DEF Record
  <2>. QED
    BY <2>5, <2>6
<1>. QED
  BY <1>1, <1>2, <1>3, <1>4, <1>5, <1>6

LEMMA StutterKeeps ==
    ASSUME IInv, UNCHANGED vars
    PROVE  IInv'
<1>1. AnswersKept /\ Outstanding' = Outstanding
  BY LogUntouched DEF vars, table
<1>2. TypeOK'
  BY DEF IInv, TypeOK, vars, table, row, local, world
<1>. QED
  BY <1>1, <1>2, MoveKeeps DEF IInv, OpenCall, Unanswered, vars, table, row, local, Busy, Quiet

LEMMA Inductive == IInv /\ [Next]_vars => IInv'
BY CommandKeeps, EnvironmentKeeps, ReserveKeeps, RequestKeeps, StutterKeeps DEF Next, Progress

LEMMA Invariance == Spec => []IInv
BY InitIInv, Inductive, PTL DEF Spec

---------------------------------------------------------------------------
(* The log is sound at every moment: no step has more calls than the limit, *)
(* over all executions, nothing is sent that is not in the log and in the   *)
(* date's counter, and at most the last call is open (reserve_call,         *)
(* finish_call and the recovery that settles what a crash left reserved).   *)
THEOREM LogAlwaysSound == Spec => []LogIsSound
<1>1. IInv => LogIsSound
  <2> SUFFICES ASSUME IInv PROVE LogIsSound
    OBVIOUS
  <2>1. Outstanding = {} \/ Outstanding = {Len(calls)}
    BY DEF IInv, OpenCall
  <2>2. Cardinality(Outstanding) = 0 \/ Cardinality(Outstanding) = 1
    <3>1. CASE Outstanding = {}
      BY <3>1, FS_EmptySet
    <3>2. CASE Outstanding = {Len(calls)}
      BY <3>2, FS_Singleton, Zenon
    <3>. QED
      BY <2>1, <3>1, <3>2
  <2>. QED
    BY <2>2 DEF IInv, LogIsSound, OneOutstanding, SentIsRecorded, OpenCall, SentOnce, Busy
<1>. QED
  BY <1>1, Invariance, PTL

(* What is committed was answered: the items of the report come from a      *)
(* succeeded call of the run, in whichever execution it was made.           *)
THEOREM CommitsAreGrounded == Spec => []Grounded
<1>1. IInv => Grounded
  BY DEF IInv, GroundedAlways, Grounded, Answered
<1>. QED
  BY <1>1, Invariance, PTL

(* A paid answer is final: a step that has one is never asked again, and    *)
(* its calls stay as they are (the lookup before reserve_call).             *)
THEOREM PaidAnswersAreFinal == Spec => PaidOnce
<1>1. ASSUME IInv, Next, NEW s \in LogicalSteps, Succeeded(s) # {}
      PROVE  Succeeded(s)' = Succeeded(s) /\ CallsOf(s)' = CallsOf(s)
  <2>1. CASE AnswersKept
    BY <2>1 DEF AnswersKept
  <2>2. CASE UNCHANGED calls
    BY <2>2, <2>1, LogUntouched
  <2>3. CASE SettleReserved
    BY <1>1, <2>3, <2>1, LogSettled DEF IInv, TypeOK
  <2>4. CASE SaveFails \/ Record
    <3>1. /\ Outstanding = {Len(calls)} /\ calls \in Seq(Call)
          /\ calls[Len(calls)].step = step /\ Succeeded(step) = {}
      BY <1>1, <2>4 DEF Record, SaveFails, IInv, TypeOK, OpenCall, Unanswered, Busy
    <3>2. PICK result \in {"succeeded", "failed", "unknown"}, answer \in Answers \cup {NoAnswer} :
              FinishCall(result, answer) \/ UNCHANGED calls
      <4>1. CASE SaveFails
        BY <4>1 DEF SaveFails
      <4>2. CASE Record
        <5> DEFINE result == CASE reply \in Answers -> "succeeded"
                               [] reply \in {"denied", "lost"} -> "unknown"
                               [] OTHER -> "failed"
                   answer == IF reply \in Answers THEN reply ELSE NoAnswer
        <5>1. /\ result \in {"succeeded", "failed", "unknown"}
              /\ answer \in Answers \cup {NoAnswer}
          OBVIOUS
        <5>2. FinishCall(result, answer)
          BY <4>2 DEF Record
        <5> HIDE DEF result, answer
        <5>. QED
          BY <5>1, <5>2
      <4>. QED
        BY <2>4, <4>1, <4>2
    <3>3. CASE FinishCall(result, answer)
      <4>1. /\ Len(calls') = Len(calls) /\ CallsOf(s)' = CallsOf(s)
            /\ \A i \in 1 .. Len(calls) : i # Len(calls) => calls'[i] = calls[i]
        BY <3>1, <3>3, LogFinished
      <4>2. Len(calls) \notin CallsOf(s)
        BY <1>1, <3>1 DEF CallsOf
      <4>. QED
        BY <4>1, <4>2 DEF Succeeded, CallsOf
    <3>. QED
      BY <2>2, <3>2, <3>3
  <2>5. CASE Reserve
    <3>1. s # step /\ Outstanding = {} /\ calls \in Seq(Call) /\ step \in LogicalSteps
      BY <1>1, <2>5 DEF Reserve, IInv, TypeOK, Unanswered, OpenCall, Quiet
    <3>. QED
      BY <2>2, <2>5, <3>1, LogReserved DEF Reserve, table
  <2>. QED
    BY <1>1, <2>2, <2>3, <2>4, <2>5
    DEF Next, Progress, Recover, Resume, Leave, ReadInput, InputUnreadable, Lookup,
        SnapshotMissing, PlanChanged, Check, DeadlinePassed, Send, SaveResponse, RecordFails,
        Retry, Commit, CommitFails, RecordFailure, Crash, TimePasses, LoseSnapshots,
        ChangeConfig, table
<1>2. IInv /\ [Next]_vars =>
        [\A s \in LogicalSteps : Succeeded(s) # {} =>
            /\ Succeeded(s)' = Succeeded(s)
            /\ CallsOf(s)' = CallsOf(s)]_vars
  BY <1>1
<1>. QED
  BY <1>2, Invariance, PTL DEF Spec, PaidOnce

=============================================================================
