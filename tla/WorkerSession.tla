---------------------------- MODULE WorkerSession ----------------------------
(***************************************************************************)
(* The worker pool of the scanner (session.rs, process.rs, windows_job.rs, *)
(* parsers/, the parser side of scheduler_adapter.rs): long-lived parser   *)
(* children behind a bounded set of slots, one request in flight per       *)
(* child, a hello that must repeat the build frozen by the preflight, one  *)
(* retry of a failed transport, and a deadline per operation that also     *)
(* runs while it waits for a slot.                                         *)
(*                                                                         *)
(* The children are the loops of office_parser and pdf_parser; one may     *)
(* also answer twice, wrongly or not at all, die or flood its stderr.  The *)
(* user changes source files; the worker binary is replaced.               *)
(* op.errors is the history of the transport errors of an operation; its   *)
(* length is transport_failure_index.                                      *)
(***************************************************************************)
EXTENDS Integers, Sequences, FiniteSets, SequencesExt, FiniteSetsExt

CONSTANTS
    Ops,          \* the operations of the scheduler's threads
    Plans,        \* what each of them may do: "classify", "parse" or "light"
    Slots,        \* the slots of the pool
    MaxRequests,  \* max_requests_per_session
    MaxFaults,    \* bound: faults of workers and of the disk
    MaxChanges    \* bound: source files changed

None == "none"

ASSUME PoolAssumption ==
    /\ IsFiniteSet(Slots) /\ Slots # {} /\ None \notin Ops /\ None \notin Slots
    /\ Plans \subseteq [Ops -> {"classify", "parse", "light"}]
    /\ MaxRequests \in Nat \ {0} /\ MaxFaults \in Nat /\ MaxChanges \in Nat

VARIABLES
    op,        \* the state of every operation
    slot,      \* SessionSlot: a session, whether it replaces one, requests served
    child,     \* the worker process of a slot, and what it has written
    free,      \* WorkerPool.available, a stack
    build,     \* the worker binary on disk
    frozen,    \* the build the preflight registered
    source,    \* the version of every operation's file; discovery saw 0
    starts,    \* sessions that said hello, per slot
    restarts,  \* session_restart_count
    faults     \* faults so far

vars == <<op, slot, child, free, build, frozen, source, starts, restarts, faults>>
world == <<build, frozen, source, faults>>

NoChild == [up |-> FALSE, busy |-> None, opened |-> FALSE, last |-> None, lines |-> <<>>,
            flooded |-> FALSE, due |-> FALSE]
NoOutcome == [status |-> None, code |-> None, backend |-> None, answer |-> None, version |-> 0]

Init ==
    /\ \E plan \in Plans :
           op = [o \in Ops |-> [kind |-> plan[o], pc |-> "idle", slot |-> None, attempts |-> 0,
                                errors |-> <<>>, late |-> FALSE, out |-> NoOutcome]]
    /\ slot = [s \in Slots |-> [has |-> FALSE, pending |-> FALSE, served |-> 0]]
    /\ child = [s \in Slots |-> NoChild]
    /\ free = SetToSeq(Slots)
    /\ build = "old" /\ frozen = None
    /\ source = [o \in Ops |-> 0]
    /\ starts = [s \in Slots |-> 0]
    /\ restarts = 0 /\ faults = 0

Fault == faults < MaxFaults /\ faults' = faults + 1

-----------------------------------------------------------------------------
(* The preflight: a bounded process says hello, and its build is frozen      *)
(* before the first cache lookup.  Any failure ends the scan.               *)
Preflight ==
    /\ frozen = None
    /\ frozen' = build
    /\ UNCHANGED <<op, slot, child, free, build, source, starts, restarts, faults>>

PreflightFails ==
    /\ frozen = None
    /\ Fault
    /\ frozen' = "failed"
    /\ UNCHANGED <<op, slot, child, free, build, source, starts, restarts>>

-----------------------------------------------------------------------------
(* The result an operation hands to the scheduler: without a started worker  *)
(* the backend is "not_parsed".                                             *)
Result(status, code, attempts) ==
    [NoOutcome EXCEPT !.status = status, !.code = code,
                      !.backend = IF attempts = 0 THEN "not_parsed" ELSE "parser"]
Status(code) == IF code = "PARSER_TIMEOUT" THEN "timeout" ELSE "error"

Finished(o, code, attempts) ==
    [op[o] EXCEPT !.pc = "done", !.attempts = attempts, !.slot = None, !.late = FALSE,
                  !.out = Result(Status(code), code, attempts)]

(* SlotPermit::drop.                                                        *)
ReleaseKept(s) == UNCHANGED free
Release(s) == free' = Append(free, s)

(* SessionError::diagnostic.                                                *)
Code(error) ==
    CASE error = "timeout" -> "PARSER_TIMEOUT"
      [] error = "start" -> "PARSER_START_FAILED"
      [] error = "eof" -> "PARSER_FAILED"
      [] error = "build" -> "WORKER_BUILD_CHANGED"
      [] error \in {"rejected", "refused"} -> "PARSER_FAILED"
      [] error = "changed" -> "SOURCE_VERSION_CHANGED"
      [] OTHER -> "PARSER_INVALID_PAYLOAD"

(* retry_action: the first transport error of an operation is retried, a     *)
(* timeout, a final rejection and a changed source never are.               *)
RetriedAlways(error, earlier) == error # "timeout" /\ earlier < 2
Retried(error, earlier) == error \notin {"timeout", "refused", "changed"} /\ earlier = 0

(* WorkerSession::kill, with the Job of its child.                          *)
KillNothing(s) == UNCHANGED child
Kill(s) == child' = [child EXCEPT ![s] = NoChild]

(* A transport error of an attempt: back to the head of the loop, or the end.*)
Broken(o, error, attempts) ==
    LET again == Retried(error, Len(op[o].errors))
        ended == IF again THEN [op[o] EXCEPT !.pc = "check", !.attempts = attempts]
                 ELSE Finished(o, Code(error), attempts)
    IN /\ op' = [op EXCEPT ![o] = [ended EXCEPT !.errors = Append(@, error)]]
       /\ IF again THEN UNCHANGED free ELSE Release(op[o].slot)

-----------------------------------------------------------------------------
(* The source check before an operation starts.                             *)
Begin(o) ==
    /\ frozen \notin {None, "failed"} /\ op[o].pc = "idle"
    /\ op' = [op EXCEPT ![o] = IF source[o] # 0
                               THEN Finished(o, "SOURCE_VERSION_CHANGED", 0)
                               ELSE [@ EXCEPT !.pc = IF op[o].kind = "light" THEN "open" ELSE "wait"]]
    /\ UNCHANGED <<slot, child, free, starts, restarts, world>>

(* parse_light_text, in process: the read, then the second source check.     *)
ReadLight(o) ==
    /\ op[o].pc = "open"
    /\ \/ /\ op' = [op EXCEPT ![o].pc = "verify", ![o].attempts = 1,
                              ![o].out = [@ EXCEPT !.answer = o, !.version = source[o]]]
          /\ UNCHANGED faults
       \/ /\ Fault
          /\ op' = [op EXCEPT ![o] = Finished(o, "PARSER_FAILED", 1)]
    /\ UNCHANGED <<slot, child, free, build, frozen, source, starts, restarts>>

Checkout(o) ==
    /\ op[o].pc = "wait" /\ free # <<>>
    /\ op' = [op EXCEPT ![o].pc = "check", ![o].slot = Last(free)]
    /\ free' = Front(free)
    /\ UNCHANGED <<slot, child, starts, restarts, world>>

(* A deadline that has passed kills the session of the slot, busy or not.    *)
TimeOut(o) ==
    LET s == op[o].slot
    IN /\ op' = [op EXCEPT ![o] = Finished(o, "PARSER_TIMEOUT", op[o].attempts)]
       /\ slot' = [slot EXCEPT ![s].pending = @ \/ slot[s].has]
       /\ Kill(s)
       /\ Release(s)

(* recycle_due: too many requests, idle too long, too much memory, or the    *)
(* child of an earlier timeout.                                             *)
RecycleDue(s) ==
    slot[s].has /\ (child[s] = NoChild \/ slot[s].served >= MaxRequests \/ child[s].due)

(* The head of execute_operation's loop.                                    *)
Check(o) ==
    /\ op[o].pc = "check"
    /\ LET s == op[o].slot
       IN \/ /\ op[o].late
             /\ TimeOut(o)
          \/ /\ ~op[o].late /\ RecycleDue(s)
             /\ Kill(s)
             /\ slot' = [slot EXCEPT ![s] = [@ EXCEPT !.has = FALSE, !.pending = TRUE]]
             /\ op' = [op EXCEPT ![o].pc = "start"]
             /\ UNCHANGED free
          \/ /\ ~op[o].late /\ ~RecycleDue(s)
             /\ op' = [op EXCEPT ![o].pc = IF slot[s].has THEN "send" ELSE "start"]
             /\ UNCHANGED <<child, slot, free>>
    /\ UNCHANGED <<starts, restarts, world>>

(* start_observed: spawn, contain, and a hello equal to the preflight's.     *)
SlotStarted(s) == [has |-> TRUE, pending |-> FALSE, served |-> 0]

RestartedRetired(s) == IF slot[s].pending /\ slot[s].served = 0 THEN restarts + 1 ELSE restarts
Restarted(s) == IF slot[s].pending THEN restarts + 1 ELSE restarts

Start(o) ==
    /\ op[o].pc = "start"
    /\ LET s == op[o].slot
       IN \/ /\ build = frozen
             /\ slot' = [slot EXCEPT ![s] = SlotStarted(s)]
             /\ child' = [child EXCEPT ![s] = [NoChild EXCEPT !.up = TRUE]]
             /\ starts' = [starts EXCEPT ![s] = @ + 1]
             /\ restarts' = Restarted(s)
             /\ op' = [op EXCEPT ![o].pc = "send"]
             /\ UNCHANGED <<free, faults>>
          \/ /\ build # frozen
             /\ Broken(o, "build", op[o].attempts)
             /\ UNCHANGED <<slot, child, starts, restarts, faults>>
          \/ /\ \E error \in {"start", "eof", "corrupt"} : Broken(o, error, op[o].attempts)
             /\ Fault
             /\ UNCHANGED <<slot, child, starts, restarts>>
          \/ /\ op[o].late
             /\ Broken(o, "timeout", op[o].attempts)
             /\ UNCHANGED <<slot, child, starts, restarts, faults>>
    /\ UNCHANGED <<build, frozen, source>>

(* The session of an attempt that failed is retired.                        *)
Retire(o, error) ==
    LET s == op[o].slot
    IN /\ Kill(s)
       /\ slot' = [slot EXCEPT ![s] = [has |-> FALSE, pending |-> TRUE, served |-> 0]]
       /\ Broken(o, error, op[o].attempts + 1)

(* write_line: the stderr budget of the request starts at zero.             *)
Send(o) ==
    /\ op[o].pc = "send"
    /\ LET s == op[o].slot
       IN \/ /\ op[o].late
             /\ TimeOut(o)
          \/ /\ ~op[o].late /\ child[s].up
             /\ child' = [child EXCEPT ![s].busy = o, ![s].flooded = FALSE]
             /\ op' = [op EXCEPT ![o].pc = "read"]
             /\ UNCHANGED <<slot, free>>
          \/ /\ ~op[o].late /\ ~child[s].up
             /\ Retire(o, "eof")
    /\ UNCHANGED <<starts, restarts, world>>

(* What a frame with a result carries: the answer, a typed failure, or a      *)
(* payload that is not the answer to this request, refused only later.       *)
Payloads == {"ok", "typed", "wrong"}
PayloadCode(kind) ==
    CASE kind = "ok" -> None
      [] kind = "typed" -> "PARSER_FAILED"
      [] kind = "wrong" -> "PARSER_INVALID_PAYLOAD"

(* read_line and parse_response: what a frame, or the lack of one, means.    *)
MeaningOfAny(o, e) == IF e.kind \in {"eof", "flood", "bad"} THEN "corrupt" ELSE e.kind
MeaningOf(o, e) ==
    CASE e.kind = "eof" -> "eof"
      [] e.kind \in {"flood", "bad"} -> "corrupt"
      [] e.kind \notin {"eof", "flood", "bad"} /\ e.id # o -> "corrupt"
      [] OTHER -> e.kind

(* An answer ends the idling of a session; a peak of its memory stays.       *)
Read(o) ==
    /\ op[o].pc = "read"
    /\ LET s == op[o].slot
           lines == child[s].lines
       IN \/ /\ child[s].flooded
             /\ Retire(o, "corrupt")
          \/ /\ ~child[s].flooded /\ lines = <<>> /\ op[o].late
             /\ Retire(o, "timeout")
          \/ /\ ~child[s].flooded /\ lines # <<>> /\ MeaningOf(o, Head(lines)) \notin Payloads
             /\ Retire(o, MeaningOf(o, Head(lines)))
          \/ /\ ~child[s].flooded /\ lines # <<>> /\ MeaningOf(o, Head(lines)) \in Payloads
             /\ op' = [op EXCEPT ![o].pc = "verify", ![o].attempts = @ + 1, ![o].slot = None,
                                 ![o].late = FALSE,
                                 ![o].out = [@ EXCEPT !.answer = Head(lines).id,
                                                      !.version = Head(lines).version,
                                                      !.code = PayloadCode(Head(lines).kind)]]
             /\ \E peaked \in BOOLEAN :
                    child' = [child EXCEPT ![s].lines = Tail(@), ![s].due = @ /\ peaked]
             /\ slot' = [slot EXCEPT ![s].served = @ + 1]
             /\ Release(s)
    /\ UNCHANGED <<starts, restarts, world>>

(* The checks after the answer, without the slot: the file must still be what *)
(* discovery saw, a parser must have read that version, and the payload be   *)
(* the answer to the request.  None of these failures is retried.            *)
VerifiedNever(o) == None
VerifiedCode(o) ==
    CASE source[o] # 0 -> "SOURCE_VERSION_CHANGED"
      [] source[o] = 0 /\ op[o].kind = "parse" /\ op[o].out.version # source[o] ->
           "PARSER_INVALID_PAYLOAD"
      [] OTHER -> op[o].out.code

Verify(o) ==
    /\ op[o].pc = "verify"
    /\ LET code == VerifiedCode(o)
       IN op' = [op EXCEPT ![o] =
                   IF code # None THEN Finished(o, code, op[o].attempts)
                   ELSE [@ EXCEPT !.pc = "done", !.out = [op[o].out EXCEPT !.status = "success",
                                                                           !.backend = "parser"]]]
    /\ UNCHANGED <<slot, child, free, starts, restarts, world>>

-----------------------------------------------------------------------------
(* The environment.                                                          *)
Expire(o) ==
    /\ op[o].pc \in {"wait", "check", "start", "send", "read"} /\ ~op[o].late
    /\ op' = [op EXCEPT ![o].late = TRUE]
    /\ UNCHANGED <<slot, child, free, starts, restarts, world>>

ChangeSource(o) ==
    /\ source[o] = 0 /\ op[o].pc # "done"
    /\ Cardinality({x \in Ops : source[x] # 0}) < MaxChanges
    /\ source' = [source EXCEPT ![o] = 1]
    /\ UNCHANGED <<op, slot, child, free, build, frozen, starts, restarts, faults>>

ReplaceBinary ==
    /\ build = "old" /\ Fault
    /\ build' = "new"
    /\ UNCHANGED <<op, slot, child, free, frozen, source, starts, restarts>>

(* The loop of a worker: one frame for every request.                       *)
Line(kind, o) == [kind |-> kind, id |-> o, version |-> IF o = None THEN 0 ELSE source[o]]
Says(s, kind) ==
    child' = [child EXCEPT ![s] = [@ EXCEPT !.lines = Append(child[s].lines, Line(kind, child[s].busy)),
                                     !.busy = None, !.opened = FALSE, !.last = child[s].busy]]

(* A parse that fails is an error frame; a classification that fails is a    *)
(* result that says so.                                                     *)
Failure(o, kind) == IF op[o].kind = "classify" THEN "typed" ELSE kind

(* The worker looks at the version of the file before it reads it.          *)
Open(s) ==
    /\ child[s].up /\ child[s].busy # None /\ ~child[s].opened
    /\ IF source[child[s].busy] = 0
       THEN child' = [child EXCEPT ![s].opened = TRUE]
       ELSE Says(s, Failure(child[s].busy, "changed"))
    /\ UNCHANGED <<op, slot, free, starts, restarts, world>>

(* It parses, and answers unless the version has changed meanwhile.  A file   *)
(* it cannot parse is an error, to be retried or final.                      *)
Answer(s) ==
    /\ child[s].up /\ child[s].opened
    /\ LET o == child[s].busy
       IN \/ /\ Says(s, IF source[o] = 0 THEN "ok" ELSE Failure(o, "changed"))
             /\ UNCHANGED faults
          \/ /\ Fault
             /\ \E kind \in {"rejected", "refused"} : Says(s, Failure(o, kind))
    /\ UNCHANGED <<op, slot, free, build, frozen, source, starts, restarts>>

(* A child breaks its protocol, repeats itself, dies, floods its stderr,      *)
(* grows or is idle too long.                                               *)
Misbehave(s) ==
    /\ child[s].up
    /\ \/ /\ Fault /\ child[s].busy # None
          /\ \E kind \in {"bad", "wrong"} : Says(s, kind)
       \/ /\ Fault /\ child[s].last # None
          /\ child' = [child EXCEPT ![s].lines = Append(@, Line("ok", child[s].last))]
       \/ /\ Fault
          /\ child' = [child EXCEPT ![s] = [@ EXCEPT !.lines = Append(child[s].lines, Line("eof", None)),
                                              !.up = FALSE, !.busy = None, !.opened = FALSE]]
       \/ /\ Fault
          /\ child' = [child EXCEPT ![s] = [@ EXCEPT !.lines = Append(child[s].lines, Line("flood", None)),
                                              !.flooded = TRUE]]
       \/ /\ ~child[s].due /\ UNCHANGED faults
          /\ child' = [child EXCEPT ![s].due = TRUE]
    /\ UNCHANGED <<op, slot, free, build, frozen, source, starts, restarts>>

Run(o) == Begin(o) \/ ReadLight(o) \/ Checkout(o) \/ Check(o) \/ Start(o) \/ Send(o) \/ Read(o)
          \/ Verify(o)
Done == (frozen = "failed" \/ \A o \in Ops : op[o].pc = "done") /\ UNCHANGED vars

Next ==
    \/ Preflight \/ PreflightFails \/ ReplaceBinary \/ Done
    \/ \E o \in Ops : Run(o) \/ Expire(o) \/ ChangeSource(o)
    \/ \E s \in Slots : Open(s) \/ Answer(s) \/ Misbehave(s)

Spec == Init /\ [][Next]_vars
(* The caller's threads run, and time passes for an operation that waits.    *)
FairSpec == Spec /\ WF_vars(Preflight) /\ \A o \in Ops : WF_vars(Run(o)) /\ WF_vars(Expire(o))

-----------------------------------------------------------------------------
(* Safety.                                                                   *)

(* A successful operation carries the answer to its own request, read from   *)
(* the version of the file that discovery saw: never a late, repeated or     *)
(* stale one.                                                               *)
OwnAnswer ==
    \A o \in Ops : op[o].out.status = "success" =>
        op[o].out.answer = o /\ op[o].out.version = 0 /\ op[o].out.code = None

(* A worker works only for an operation that is waiting for it: whoever gave *)
(* up has killed the child, so its slot is clean for the next one.           *)
NobodyWorksForTheGone ==
    \A s \in Slots : child[s].busy # None =>
        op[child[s].busy].pc = "read" /\ op[child[s].busy].slot = s

(* A slot is free or held by exactly one operation, on every path out of an  *)
(* operation: the pool never shrinks and never shares a session.             *)
SlotsAreConserved ==
    \A s \in Slots :
        Cardinality({i \in DOMAIN free : free[i] = s})
        + Cardinality({o \in Ops : op[o].slot = s}) = 1

(* session_restart_count counts the replacements: every hello of a slot but  *)
(* its first.                                                               *)
RestartsAreCounted ==
    restarts = Cardinality(UNION {{s} \X (2 .. starts[s]) : s \in Slots})

(* The types of the variables; a session serves MaxRequests at most.        *)
Errors == {"timeout", "start", "eof", "build", "corrupt", "rejected", "refused", "changed"}
Codes == {None, "PARSER_TIMEOUT", "PARSER_START_FAILED", "PARSER_FAILED", "PARSER_INVALID_PAYLOAD",
          "WORKER_BUILD_CHANGED", "SOURCE_VERSION_CHANGED"}
Kinds == {"ok", "typed", "wrong", "rejected", "refused", "changed", "bad", "eof", "flood"}
TypeOK ==
    /\ op \in [Ops -> [kind : {"classify", "parse", "light"}, slot : Slots \cup {None},
                       pc : {"idle", "open", "wait", "check", "start", "send", "read", "verify", "done"},
                       attempts : Nat, errors : Seq(Errors), late : BOOLEAN,
                       out : [status : {None, "success", "error", "timeout"}, code : Codes,
                              backend : {None, "not_parsed", "parser"}, answer : Ops \cup {None},
                              version : {0, 1}]]]
    /\ slot \in [Slots -> [has : BOOLEAN, pending : BOOLEAN, served : 0 .. MaxRequests]]
    /\ child \in [Slots -> [up : BOOLEAN, busy : Ops \cup {None}, opened : BOOLEAN,
                            last : Ops \cup {None},
                            lines : Seq([kind : Kinds, id : Ops \cup {None}, version : {0, 1}]),
                            flooded : BOOLEAN, due : BOOLEAN]]
    /\ free \in Seq(Slots)
    /\ build \in {"old", "new"} /\ frozen \in {None, "failed", "old", "new"}
    /\ source \in [Ops -> {0, 1}] /\ starts \in [Slots -> Nat]
    /\ restarts \in Nat /\ faults \in 0 .. MaxFaults

(* The pool is in order whenever an operation comes or goes: one child works  *)
(* for one operation, slots are neither lost nor shared, restarts counted,   *)
(* and no session serves more requests than it may.                          *)
PoolIsSound == TypeOK /\ NobodyWorksForTheGone /\ SlotsAreConserved /\ RestartsAreCounted

(* A request is sent to at most two sessions, and to one only when it timed  *)
(* out, was refused for good or its file changed; an operation that sent     *)
(* nothing reports no parser.                                               *)
RetriedOnce ==
    \A o \in Ops :
        /\ op[o].attempts <= 2 /\ Len(op[o].errors) <= 2
        /\ Len(op[o].errors) = 2 => op[o].errors[1] \notin {"timeout", "refused", "changed"}
        /\ op[o].pc = "done" => (op[o].attempts = 0) = (op[o].out.backend = "not_parsed")

(* Every operation ends: with no fairness for the workers, by its deadline.   *)
EveryOperationEnds == \A o \in Ops : (op[o].pc # "idle") ~> (op[o].pc = "done")

(* What is_retryable_transport says of protocol corruption: it fails         *)
(* directly, without a second session.                                       *)
CorruptionFailsDirectly ==
    \A o \in Ops : Len(op[o].errors) > 0 /\ op[o].errors[1] = "corrupt" => op[o].pc = "done"
=============================================================================
