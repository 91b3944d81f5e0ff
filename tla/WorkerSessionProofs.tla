------------------------- MODULE WorkerSessionProofs -------------------------
(***************************************************************************)
(* The worker pool, for any number of operations and slots: an operation   *)
(* gets its own answer, is retried once, and the pool stays in order.      *)
(***************************************************************************)
EXTENDS WorkerSession, FiniteSetTheorems, TLAPS

Waiting == {"idle", "open", "wait"}
Holding == {"check", "start", "send", "read"}

(* A slot is free once, or held by one operation, while its pc says so.     *)
Pool ==
    /\ \A o \in Ops : op[o].pc \in Holding <=> op[o].slot # None
    /\ \A o, p \in Ops : op[o].slot = op[p].slot /\ op[o].slot # None => o = p
    /\ \A i, j \in DOMAIN free : free[i] = free[j] => i = j
    /\ \A i \in DOMAIN free, o \in Ops : op[o].slot # free[i]
    /\ \A s \in Slots : (\E i \in DOMAIN free : free[i] = s) \/ (\E o \in Ops : op[o].slot = s)

(* A session that is used may serve one more request; one that was ever     *)
(* started is there or waits to be replaced.                                *)
Sessions ==
    /\ \A o \in Ops : op[o].pc = "start" => ~slot[op[o].slot].has
    /\ \A o \in Ops : op[o].pc \in {"send", "read"} =>
          slot[op[o].slot].has /\ slot[op[o].slot].served < MaxRequests
    /\ \A s \in Slots : slot[s].has \/ slot[s].pending <=> starts[s] # 0

Silent(lines, o) == \A i \in 1 .. Len(lines) : lines[i].id # o

(* A line about an operation was read from a version not later than now.    *)
Timely(lines) ==
    \A i \in 1 .. Len(lines) :
        lines[i].id # None => lines[i].version = 0 \/ source[lines[i].id] = 1

(* The child c has never heard of o.                                        *)
Unknown(c, o) == c.busy # o /\ c.last # o /\ Silent(c.lines, o)

(* A child knows an operation only from its one request, works for the      *)
(* holder of its slot, and says nothing about it before it is done.         *)
Children ==
    /\ \A s \in Slots : child[s].opened => child[s].busy # None
    /\ \A s \in Slots : child[s].busy # None =>
          /\ op[child[s].busy].pc = "read" /\ op[child[s].busy].slot = s
          /\ child[s].last # child[s].busy /\ Silent(child[s].lines, child[s].busy)
    /\ \A o \in Ops : op[o].pc \in Waiting => \A s \in Slots : Unknown(child[s], o)
    /\ \A o \in Ops : op[o].pc \in {"check", "start", "send"} => Unknown(child[op[o].slot], o)
    /\ \A s \in Slots : Timely(child[s].lines)

(* An operation has no outcome before its answer, and then its own.         *)
OutcomeOf(o, x) ==
    /\ x.pc \notin {"verify", "done"} => x.out = NoOutcome
    /\ x.pc = "verify" =>
          /\ x.out.status = None /\ x.out.answer = o
          /\ x.out.version = 0 \/ source[o] = 1
    /\ x.out.status = "success" => x.out.answer = o /\ x.out.version = 0 /\ x.out.code = None

Outcomes == \A o \in Ops : OutcomeOf(o, op[o])

FirstRetried(errors) == errors[1] \notin {"timeout", "refused", "changed"}

(* An attempt was made for every error but perhaps the last.                *)
RetriesOf(x) ==
    /\ x.pc \in Waiting => x.attempts = 0 /\ x.errors = <<>>
    /\ x.pc \in Holding => x.attempts <= Len(x.errors)
    /\ x.pc \in Holding \cup {"verify"} =>
          /\ Len(x.errors) <= 1
          /\ Len(x.errors) > 0 => FirstRetried(x.errors)
    /\ x.pc = "verify" => x.attempts \in 1 .. 2
    /\ x.attempts <= 2 /\ Len(x.errors) <= 2
    /\ Len(x.errors) > 1 => FirstRetried(x.errors)
    /\ x.pc = "done" => (x.attempts = 0 <=> x.out.backend = "not_parsed")

Retries == \A o \in Ops : RetriesOf(op[o])

IInv ==
    /\ TypeOK /\ Pool /\ Sessions /\ Children /\ Outcomes /\ Retries /\ RestartsAreCounted

---------------------------------------------------------------------------
(* The sets TypeOK is made of.                                              *)
Outcome == [status : {None, "success", "error", "timeout"}, code : Codes,
            backend : {None, "not_parsed", "parser"}, answer : Ops \cup {None}, version : {0, 1}]
OpState == [kind : {"classify", "parse", "light"}, slot : Slots \cup {None},
            pc : {"idle", "open", "wait", "check", "start", "send", "read", "verify", "done"},
            attempts : Nat, errors : Seq(Errors), late : BOOLEAN, out : Outcome]
LineType == [kind : Kinds, id : Ops \cup {None}, version : {0, 1}]
ChildState == [up : BOOLEAN, busy : Ops \cup {None}, opened : BOOLEAN, last : Ops \cup {None},
               lines : Seq(LineType), flooded : BOOLEAN, due : BOOLEAN]
SlotState == [has : BOOLEAN, pending : BOOLEAN, served : 0 .. MaxRequests]

LEMMA TypeOKParts ==
    TypeOK <=> /\ op \in [Ops -> OpState] /\ slot \in [Slots -> SlotState]
               /\ child \in [Slots -> ChildState] /\ free \in Seq(Slots)
               /\ build \in {"old", "new"} /\ frozen \in {None, "failed", "old", "new"}
               /\ source \in [Ops -> {0, 1}] /\ starts \in [Slots -> Nat]
               /\ restarts \in Nat /\ faults \in 0 .. MaxFaults
BY DEF TypeOK, OpState, Outcome, SlotState, ChildState, LineType

LEMMA ResultType ==
    ASSUME NEW code \in Codes, NEW n \in Nat
    PROVE  LET r == Result(Status(code), code, n)
           IN  /\ r \in Outcome /\ r.status \in {"error", "timeout"}
               /\ (n = 0 <=> r.backend = "not_parsed")
<1>1. Status(code) \in {"error", "timeout"}
  BY DEF Status
<1>2. NoOutcome \in Outcome
  BY DEF NoOutcome, Outcome, None, Codes
<1>3. PICK st, b : /\ st = Status(code) /\ b = IF n = 0 THEN "not_parsed" ELSE "parser"
  OBVIOUS
<1>4. /\ Result(Status(code), code, n) = [NoOutcome EXCEPT !.status = st, !.code = code, !.backend = b]
      /\ st \in {"error", "timeout"} /\ b \in {"not_parsed", "parser"}
      /\ (n = 0 <=> b = "not_parsed")
  BY <1>1, <1>3 DEF Result
<1>. QED
  BY <1>2, <1>4 DEF Outcome

(* The end of an operation without an answer.                               *)
LEMMA FinishedOp ==
    ASSUME NEW o \in Ops, op[o] \in OpState, NEW code \in Codes, NEW n \in Nat
    PROVE  LET f == Finished(o, code, n)
           IN  /\ f \in OpState
               /\ f.pc = "done" /\ f.slot = None /\ f.attempts = n /\ f.errors = op[o].errors
               /\ f.kind = op[o].kind /\ OutcomeOf(o, f)
               /\ (n = 0 <=> f.out.backend = "not_parsed")
<1>. DEFINE r == Result(Status(code), code, n)
<1>1. /\ r \in Outcome /\ r.status \in {"error", "timeout"}
      /\ (n = 0 <=> r.backend = "not_parsed")
  BY ResultType
<1>2. Finished(o, code, n) = [op[o] EXCEPT !.pc = "done", !.attempts = n, !.slot = None,
                                           !.late = FALSE, !.out = r]
  BY DEF Finished
<1>. HIDE DEF r
<1>3. Finished(o, code, n) \in OpState
  BY <1>1, <1>2 DEF OpState
<1>4. /\ Finished(o, code, n).pc = "done" /\ Finished(o, code, n).slot = None
      /\ Finished(o, code, n).attempts = n /\ Finished(o, code, n).errors = op[o].errors
      /\ Finished(o, code, n).kind = op[o].kind /\ Finished(o, code, n).out = r
  BY <1>2 DEF OpState
<1>5. OutcomeOf(o, Finished(o, code, n))
  BY <1>1, <1>4 DEF OutcomeOf
<1>. QED
  BY <1>1, <1>3, <1>4, <1>5

LEMMA FirstError ==
    ASSUME NEW es \in Seq(Errors), NEW error \in Errors
    PROVE  /\ Append(es, error) \in Seq(Errors) /\ Len(Append(es, error)) = Len(es) + 1
           /\ Len(es) > 0 /\ FirstRetried(es) => FirstRetried(Append(es, error))
           /\ Len(es) = 0 /\ error \notin {"timeout", "refused", "changed"} =>
                 FirstRetried(Append(es, error))
<1>1. Append(es, error) \in Seq(Errors) /\ Len(Append(es, error)) = Len(es) + 1
  OBVIOUS
<1>2. CASE Len(es) > 0
  <2>1. \A i \in 1 .. Len(es) : Append(es, error)[i] = es[i]
    OBVIOUS
  <2>. QED
    BY <1>1, <1>2, <2>1 DEF FirstRetried
<1>3. CASE Len(es) = 0
  <2>1. Append(es, error)[1] = error
    BY <1>3
  <2>. QED
    BY <1>1, <1>3, <2>1 DEF FirstRetried
<1>. QED
  BY <1>1, <1>2, <1>3

(* A transport error ends an operation or sends it back to the head of the  *)
(* loop, with its slot.                                                     *)
LEMMA BrokenOp ==
    ASSUME op \in [Ops -> OpState], NEW o \in Ops, op[o].pc \in Holding,
           OutcomeOf(o, op[o]), RetriesOf(op[o]),
           NEW error \in Errors, NEW n \in Nat, n <= Len(op[o].errors) + 1,
           Broken(o, error, n)
    PROVE  /\ op' \in [Ops -> OpState]
           /\ \A p \in Ops \ {o} : op'[p] = op[p]
           /\ OutcomeOf(o, op'[o]) /\ RetriesOf(op'[o])
           /\ \/ op'[o].pc = "check" /\ op'[o].slot = op[o].slot /\ free' = free
              \/ op'[o].pc = "done" /\ op'[o].slot = None /\ free' = Append(free, op[o].slot)
<1>. DEFINE again == Retried(error, Len(op[o].errors))
            f == Finished(o, Code(error), n)
            back == [op[o] EXCEPT !.pc = "check", !.attempts = n]
            more == Append(op[o].errors, error)
<1>1. /\ op[o] \in OpState /\ op[o].errors \in Seq(Errors) /\ Len(op[o].errors) \in Nat
      /\ Len(op[o].errors) <= 1
      /\ Len(op[o].errors) > 0 => FirstRetried(op[o].errors)
  BY DEF RetriesOf, OpState
<1>2. /\ more \in Seq(Errors) /\ Len(more) = Len(op[o].errors) + 1
      /\ Len(op[o].errors) > 0 => FirstRetried(more)
      /\ Len(op[o].errors) = 0 /\ error \notin {"timeout", "refused", "changed"} =>
            FirstRetried(more)
  BY <1>1, FirstError
<1>. HIDE DEF more
<1>3. CASE again
  <2>1. Len(op[o].errors) = 0 /\ error \notin {"timeout", "refused", "changed"}
    BY <1>3 DEF Retried
  <2>2. op' = [op EXCEPT ![o] = [back EXCEPT !.errors = more]] /\ free' = free
    BY <1>3 DEF Broken, more
  <2>3. back \in OpState /\ back.pc = "check" /\ back.attempts = n /\ back.slot = op[o].slot
        /\ back.out = op[o].out
    BY <1>1 DEF OpState
  <2>. HIDE DEF back
  <2>4. PICK y : y = [back EXCEPT !.errors = more]
    OBVIOUS
  <2>5. /\ y \in OpState /\ y.pc = "check" /\ y.attempts = n /\ y.slot = op[o].slot
        /\ y.out = op[o].out /\ y.errors = more
    BY <1>2, <2>3, <2>4 DEF OpState
  <2>6. op' = [op EXCEPT ![o] = y]
    BY <2>2, <2>4
  <2>7. op' \in [Ops -> OpState] /\ op'[o] = y /\ \A p \in Ops \ {o} : op'[p] = op[p]
    BY <2>5, <2>6
  <2>8. OutcomeOf(o, y)
    BY <2>5 DEF OutcomeOf, Holding
  <2>9. RetriesOf(y)
    <3>1. Len(more) = 1 /\ FirstRetried(more) /\ n <= 1
      BY <1>2, <2>1
    <3>. QED
      BY <2>5, <3>1 DEF RetriesOf, Waiting, Holding
  <2>. QED
    BY <2>2, <2>5, <2>7, <2>8, <2>9
<1>4. CASE ~again
  <2>1. op' = [op EXCEPT ![o] = [f EXCEPT !.errors = Append(f.errors, error)]]
        /\ free' = Append(free, op[o].slot)
    BY <1>4 DEF Broken, Release
  <2>2. Code(error) \in Codes
    BY DEF Code, Codes, Errors
  <2>3. /\ f \in OpState /\ f.pc = "done" /\ f.slot = None /\ f.attempts = n
        /\ OutcomeOf(o, f) /\ (n = 0 <=> f.out.backend = "not_parsed")
        /\ f.errors = op[o].errors
    BY <1>1, <2>2, FinishedOp
  <2>. HIDE DEF f
  <2>4. PICK y : y = [f EXCEPT !.errors = Append(f.errors, error)]
    OBVIOUS
  <2>5. /\ y \in OpState /\ y.pc = "done" /\ y.slot = None /\ y.attempts = n
        /\ y.out = f.out /\ y.errors = more
    BY <1>2, <2>3, <2>4 DEF OpState, more
  <2>6. op' \in [Ops -> OpState] /\ op'[o] = y /\ \A p \in Ops \ {o} : op'[p] = op[p]
    BY <2>1, <2>4, <2>5
  <2>7. OutcomeOf(o, y)
    BY <2>3, <2>5 DEF OutcomeOf
  <2>8. RetriesOf(y)
    <3>1. /\ Len(more) <= 2 /\ n <= 2
          /\ Len(more) > 1 => FirstRetried(more)
      BY <1>1, <1>2
    <3>. QED
      BY <2>3, <2>5, <3>1 DEF RetriesOf, Waiting, Holding
  <2>. QED
    BY <2>1, <2>5, <2>6, <2>7, <2>8
<1>. QED
  BY <1>3, <1>4

---------------------------------------------------------------------------
(* The pool: a step keeps it, takes a slot, or gives one back.              *)

LEMMA PoolKept ==
    ASSUME Pool, free' = free,
           \A p \in Ops : op'[p].slot = op[p].slot /\ (op'[p].pc \in Holding <=> op[p].pc \in Holding)
    PROVE  Pool'
BY DEF Pool

LEMMA PoolReleased ==
    ASSUME Pool, op \in [Ops -> OpState], free \in Seq(Slots), NEW o \in Ops, op[o].pc \in Holding,
           free' = Append(free, op[o].slot), op'[o].slot = None, op'[o].pc \notin Holding,
           \A p \in Ops \ {o} : op'[p] = op[p]
    PROVE  Pool' /\ free' \in Seq(Slots)
<1>1. PICK s : s = op[o].slot
  OBVIOUS
<1>2. s \in Slots /\ s # None
  BY <1>1 DEF Pool, OpState
<1>3. /\ free' \in Seq(Slots) /\ Len(free') = Len(free) + 1
      /\ \A i \in 1 .. Len(free) : free'[i] = free[i]
      /\ free'[Len(free) + 1] = s
  BY <1>1, <1>2
<1>4. DOMAIN free = 1 .. Len(free) /\ DOMAIN free' = 1 .. Len(free')
  BY <1>3
<1>5. \A i \in 1 .. Len(free) : free[i] # s
  BY <1>1, <1>4 DEF Pool
<1>6. \A i \in DOMAIN free' : i \in 1 .. Len(free) \/ i = Len(free) + 1
  BY <1>3, <1>4
<1>7. \A p \in Ops : op'[p].pc \in Holding <=> op'[p].slot # None
  BY DEF Pool
<1>8. \A p, q \in Ops : op'[p].slot = op'[q].slot /\ op'[p].slot # None => p = q
  BY DEF Pool
<1>9. \A i, j \in DOMAIN free' : free'[i] = free'[j] => i = j
  BY <1>3, <1>4, <1>5, <1>6 DEF Pool
<1>10. \A i \in DOMAIN free', p \in Ops : op'[p].slot # free'[i]
  <2>1. \A p \in Ops : op'[p].slot # s
    BY <1>1, <1>2 DEF Pool
  <2>2. \A i \in 1 .. Len(free), p \in Ops : op'[p].slot # free[i]
    <3>1. \A i \in 1 .. Len(free) : free[i] # None
      BY PoolAssumption
    <3>. QED
      BY <1>4, <3>1 DEF Pool
  <2>. QED
    BY <1>3, <1>6, <2>1, <2>2
<1>11. \A t \in Slots : (\E i \in DOMAIN free' : free'[i] = t) \/ (\E p \in Ops : op'[p].slot = t)
  <2>1. \A t \in Slots \ {s} :
           (\E i \in DOMAIN free' : free'[i] = t) \/ (\E p \in Ops : op'[p].slot = t)
    BY <1>1, <1>3, <1>4 DEF Pool
  <2>2. Len(free) + 1 \in DOMAIN free'
    BY <1>3, <1>4
  <2>. QED
    BY <1>3, <2>1, <2>2
<1>. QED
  BY <1>3, <1>7, <1>8, <1>9, <1>10, <1>11 DEF Pool

LEMMA PoolTaken ==
    ASSUME Pool, op \in [Ops -> OpState], free \in Seq(Slots), free # <<>>,
           NEW o \in Ops, op[o].pc \notin Holding,
           free' = Front(free), op'[o].slot = Last(free), op'[o].pc \in Holding,
           \A p \in Ops \ {o} : op'[p] = op[p]
    PROVE  Pool' /\ free' \in Seq(Slots) /\ Last(free) \in Slots
<1>1. PICK n \in Nat : n + 1 = Len(free)
  <2>1. Len(free) \in Nat /\ Len(free) > 0
    OBVIOUS
  <2>. QED
    BY <2>1
<1>2. PICK s : s = Last(free)
  OBVIOUS
<1>3. s = free[n + 1] /\ s \in Slots /\ s # None
  BY <1>1, <1>2, PoolAssumption DEF Last
<1>4. /\ free' \in Seq(Slots) /\ Len(free') = n
      /\ \A i \in 1 .. n : free'[i] = free[i]
  BY <1>1 DEF Front
<1>5. DOMAIN free = 1 .. n + 1 /\ DOMAIN free' = 1 .. n
  BY <1>1, <1>4
<1>6. \A p \in Ops : op[p].slot # s
  BY <1>3, <1>5 DEF Pool
<1>7. op[o].slot = None
  BY DEF Pool
<1>8. \A p \in Ops : op'[p].pc \in Holding <=> op'[p].slot # None
  BY <1>2, <1>3 DEF Pool
<1>9. \A p, q \in Ops : op'[p].slot = op'[q].slot /\ op'[p].slot # None => p = q
  BY <1>2, <1>6 DEF Pool
<1>10. \A i, j \in DOMAIN free' : free'[i] = free'[j] => i = j
  BY <1>4, <1>5 DEF Pool
<1>11. \A i \in 1 .. n : free[i] # s
  BY <1>3, <1>5 DEF Pool
<1>12. \A i \in DOMAIN free', p \in Ops : op'[p].slot # free'[i]
  BY <1>2, <1>4, <1>5, <1>11 DEF Pool
<1>13. \A t \in Slots : (\E i \in DOMAIN free' : free'[i] = t) \/ (\E p \in Ops : op'[p].slot = t)
  <2>1. ASSUME NEW t \in Slots, t # s
        PROVE  (\E i \in DOMAIN free' : free'[i] = t) \/ (\E p \in Ops : op'[p].slot = t)
    <3>1. CASE \E i \in DOMAIN free : free[i] = t
      BY <1>3, <1>4, <1>5, <2>1, <3>1
    <3>2. CASE \E p \in Ops : op[p].slot = t
      BY <1>7, <3>2, PoolAssumption
    <3>. QED
      BY <3>1, <3>2 DEF Pool
  <2>. QED
    BY <1>2, <2>1
<1>. QED
  BY <1>2, <1>3, <1>4, <1>8, <1>9, <1>10, <1>12, <1>13 DEF Pool

---------------------------------------------------------------------------
(* The sessions: only the holder of a slot changes it.                      *)

LEMMA SessionsKept ==
    ASSUME Sessions, slot' = slot, starts' = starts,
           \A p \in Ops : op'[p].pc \in {"start", "send", "read"} =>
               op'[p].slot = op[p].slot /\ \/ op'[p].pc = op[p].pc
                                           \/ op[p].pc = "send" /\ op'[p].pc = "read"
    PROVE  Sessions'
BY DEF Sessions

LEMMA SessionsChanged ==
    ASSUME Sessions, Pool, op \in [Ops -> OpState], NEW o \in Ops, op[o].pc \in Holding,
           NEW t, t = op[o].slot, slot' = [slot EXCEPT ![t] = slot'[t]],
           slot \in [Slots -> SlotState],
           starts \in [Slots -> Nat], starts' = [starts EXCEPT ![t] = starts'[t]],
           \A p \in Ops \ {o} : op'[p] = op[p],
           \/ op'[o].pc \notin {"start", "send", "read"}
           \/ op'[o].slot = t /\ op'[o].pc = "start" /\ ~slot'[t].has
           \/ op'[o].slot = t /\ slot'[t].has /\ slot'[t].served < MaxRequests
              /\ op'[o].pc \in {"send", "read"},
           slot'[t].has \/ slot'[t].pending <=> starts'[t] # 0
    PROVE  Sessions'
<1>1. \A p \in Ops \ {o} : op[p].slot # t
  BY DEF Pool
<1>2. \A s \in Slots \ {t} : slot'[s] = slot[s] /\ starts'[s] = starts[s]
  OBVIOUS
<1>3. \A p \in Ops \ {o} : op[p].pc \in {"start", "send", "read"} => op[p].slot \in Slots \ {t}
  BY <1>1 DEF Pool, OpState, Holding
<1>4. \A p \in Ops : op'[p].pc = "start" => ~slot'[op'[p].slot].has
  BY <1>2, <1>3 DEF Sessions
<1>5. \A p \in Ops : op'[p].pc \in {"send", "read"} =>
          slot'[op'[p].slot].has /\ slot'[op'[p].slot].served < MaxRequests
  BY <1>2, <1>3 DEF Sessions
<1>6. \A s \in Slots : slot'[s].has \/ slot'[s].pending <=> starts'[s] # 0
  BY <1>2 DEF Sessions
<1>. QED
  BY <1>4, <1>5, <1>6 DEF Sessions

---------------------------------------------------------------------------
(* The children.                                                            *)

LEMMA LinesEmpty ==
    ASSUME NEW o
    PROVE  <<>> \in Seq(LineType) /\ Silent(<<>>, o) /\ Timely(<<>>)
BY DEF Silent, Timely

LEMMA LinesAppend ==
    ASSUME NEW lines \in Seq(LineType), Timely(lines), NEW e \in LineType,
           e.id # None => e.version = 0 \/ source[e.id] = 1
    PROVE  /\ Append(lines, e) \in Seq(LineType) /\ Timely(Append(lines, e))
           /\ \A o : Silent(lines, o) /\ e.id # o => Silent(Append(lines, e), o)
<1>1. PICK more : more = Append(lines, e)
  OBVIOUS
<1>2. /\ more \in Seq(LineType) /\ Len(more) = Len(lines) + 1
      /\ \A i \in 1 .. Len(lines) : more[i] = lines[i]
      /\ more[Len(lines) + 1] = e
  BY <1>1
<1>3. \A i \in 1 .. Len(more) : i \in 1 .. Len(lines) \/ i = Len(lines) + 1
  BY <1>2
<1>4. Timely(more)
  BY <1>2, <1>3 DEF Timely
<1>5. \A o : Silent(lines, o) /\ e.id # o => Silent(more, o)
  BY <1>2, <1>3 DEF Silent
<1>. QED
  BY <1>1, <1>2, <1>4, <1>5

LEMMA LinesTail ==
    ASSUME NEW lines \in Seq(LineType), lines # <<>>, Timely(lines)
    PROVE  /\ Tail(lines) \in Seq(LineType) /\ Timely(Tail(lines))
           /\ \A o : Silent(lines, o) => Silent(Tail(lines), o)
           /\ Head(lines) \in LineType
           /\ Head(lines).id # None => Head(lines).version = 0 \/ source[Head(lines).id] = 1
           /\ \A o : Silent(lines, o) => Head(lines).id # o
<1>1. PICK less : less = Tail(lines)
  OBVIOUS
<1>2. PICK n \in Nat : n + 1 = Len(lines)
  <2>1. Len(lines) \in Nat /\ Len(lines) > 0
    OBVIOUS
  <2>. QED
    BY <2>1
<1>3. /\ less \in Seq(LineType) /\ Len(less) = n
      /\ \A i \in 1 .. n : less[i] = lines[i + 1]
  BY <1>1, <1>2
<1>4. Head(lines) = lines[1] /\ 1 \in 1 .. Len(lines)
  BY <1>2
<1>5. \A i \in 1 .. n : i + 1 \in 1 .. Len(lines)
  BY <1>2
<1>6. Timely(less) /\ \A o : Silent(lines, o) => Silent(less, o)
  BY <1>3, <1>5 DEF Timely, Silent
<1>7. /\ Head(lines) \in LineType
      /\ Head(lines).id # None => Head(lines).version = 0 \/ source[Head(lines).id] = 1
      /\ \A o : Silent(lines, o) => Head(lines).id # o
  BY <1>4 DEF Timely, Silent
<1>. QED
  BY <1>1, <1>3, <1>6, <1>7

(* Operations move while the children stay as they are.                     *)
LEMMA ChildrenKept ==
    ASSUME Children, child' = child, source' = source,
           \A p \in Ops :
               \/ op'[p].pc = op[p].pc /\ op'[p].slot = op[p].slot
               \/ /\ op[p].pc # "read"
                  /\ op'[p].pc \in Waiting => op[p].pc \in Waiting
                  /\ op'[p].pc \in {"check", "start", "send"} =>
                        \/ op[p].pc \in {"check", "start", "send"} /\ op'[p].slot = op[p].slot
                        \/ op[p].pc \in Waiting /\ op'[p].slot \in Slots,
           child \in [Slots -> ChildState]
    PROVE  Children'
<1>1. \A s \in Slots : child[s].busy # None => child[s].busy \in Ops
  BY DEF ChildState
<1>2. \A s \in Slots : Timely(child[s].lines)'
  BY DEF Children, Timely
<1>3. \A s \in Slots : child[s].busy # None =>
          op'[child[s].busy].pc = "read" /\ op'[child[s].busy].slot = s
  BY <1>1 DEF Children
<1>4. \A p \in Ops : op'[p].pc \in Waiting => \A s \in Slots : Unknown(child[s], p)
  BY DEF Children
<1>5. \A p \in Ops : op'[p].pc \in {"check", "start", "send"} => Unknown(child[op'[p].slot], p)
  BY DEF Children
<1>. QED
  BY <1>2, <1>3, <1>4, <1>5 DEF Children

(* The holder o of a slot t makes its child c.                              *)
LEMMA ChildrenHeld ==
    ASSUME Children, Pool, op \in [Ops -> OpState], child \in [Slots -> ChildState],
           NEW o \in Ops, op[o].pc \in Holding, NEW t, t = op[o].slot,
           NEW c \in ChildState, child' = [child EXCEPT ![t] = c], source' = source,
           \A p \in Ops \ {o} : op'[p] = op[p],
           c.opened => c.busy # None,
           c.busy # None => /\ c.busy = o /\ op'[o].pc = "read" /\ op'[o].slot = t
                            /\ c.last # o /\ Silent(c.lines, o),
           \A p \in Ops \ {o} : Unknown(child[t], p) => Unknown(c, p),
           op'[o].pc \notin Waiting,
           op'[o].pc \in {"check", "start", "send"} => op'[o].slot = t /\ Unknown(c, o),
           Timely(c.lines)
    PROVE  Children' /\ child' \in [Slots -> ChildState]
<1>1. t \in Slots
  BY DEF Pool, OpState
<1>2. /\ child' \in [Slots -> ChildState] /\ child'[t] = c
      /\ \A s \in Slots \ {t} : child'[s] = child[s]
  BY <1>1
<1>3. \A p \in Ops \ {o} : op[p].slot # t
  BY DEF Pool
<1>4. \A s \in Slots \ {t} : child[s].busy # None =>
          child[s].busy \in Ops \ {o} /\ op[child[s].busy].pc = "read" /\ op[child[s].busy].slot = s
  BY DEF Children, ChildState
<1>5. \A s \in Slots : child'[s].opened => child'[s].busy # None
  BY <1>2 DEF Children
<1>6. \A s \in Slots : child'[s].busy # None =>
          /\ op'[child'[s].busy].pc = "read" /\ op'[child'[s].busy].slot = s
          /\ child'[s].last # child'[s].busy /\ Silent(child'[s].lines, child'[s].busy)
  BY <1>2, <1>4 DEF Children
<1>7. \A p \in Ops : op'[p].pc \in Waiting => \A s \in Slots : Unknown(child'[s], p)
  BY <1>1, <1>2 DEF Children
<1>8. \A p \in Ops : op'[p].pc \in {"check", "start", "send"} => Unknown(child'[op'[p].slot], p)
  <2>1. \A p \in Ops \ {o} : op[p].pc \in {"check", "start", "send"} => op[p].slot \in Slots \ {t}
    BY <1>3 DEF Pool, OpState, Holding
  <2>. QED
    BY <1>1, <1>2, <2>1 DEF Children
<1>9. \A s \in Slots : Timely(child[s].lines)' <=> Timely(child'[s].lines)
  BY DEF Timely
<1>10. \A s \in Slots : Timely(child'[s].lines)
  BY <1>1, <1>2 DEF Children
<1>. QED
  BY <1>2, <1>5, <1>6, <1>7, <1>8, <1>9, <1>10 DEF Children

(* The child of a slot t acts by itself.                                    *)
LEMMA ChildrenAct ==
    ASSUME Children, op \in [Ops -> OpState], child \in [Slots -> ChildState],
           NEW t \in Slots, NEW c \in ChildState, child' = [child EXCEPT ![t] = c],
           source' = source, op' = op,
           c.opened => c.busy # None,
           c.busy # None => /\ c.busy = child[t].busy
                            /\ c.last # c.busy /\ Silent(c.lines, c.busy),
           \A p \in Ops : Unknown(child[t], p) => Unknown(c, p),
           Timely(c.lines)
    PROVE  Children' /\ child' \in [Slots -> ChildState]
<1>2. /\ child' \in [Slots -> ChildState] /\ child'[t] = c
      /\ \A s \in Slots \ {t} : child'[s] = child[s]
  OBVIOUS
<1>5. \A s \in Slots : child'[s].opened => child'[s].busy # None
  BY <1>2 DEF Children
<1>6. \A s \in Slots : child'[s].busy # None =>
          /\ op'[child'[s].busy].pc = "read" /\ op'[child'[s].busy].slot = s
          /\ child'[s].last # child'[s].busy /\ Silent(child'[s].lines, child'[s].busy)
  BY <1>2 DEF Children
<1>7. \A p \in Ops : op'[p].pc \in Waiting => \A s \in Slots : Unknown(child'[s], p)
  BY <1>2 DEF Children
<1>8. \A p \in Ops : op'[p].pc \in {"check", "start", "send"} => Unknown(child'[op'[p].slot], p)
  BY <1>2 DEF Children
<1>9. \A s \in Slots : Timely(child[s].lines)' <=> Timely(child'[s].lines)
  BY DEF Timely
<1>10. \A s \in Slots : Timely(child'[s].lines)
  BY <1>2 DEF Children
<1>. QED
  BY <1>2, <1>5, <1>6, <1>7, <1>8, <1>9, <1>10 DEF Children

---------------------------------------------------------------------------
LEMMA RestartsKept ==
    ASSUME RestartsAreCounted, restarts' = restarts, starts' = starts
    PROVE  RestartsAreCounted'
BY DEF RestartsAreCounted

(* The hellos of the slots after their first.                               *)
Again(h) == UNION {{s} \X (2 .. h[s]) : s \in Slots}

LEMMA AgainIs ==
    ASSUME NEW h
    PROVE  \A x : x \in Again(h) <=> \E s \in Slots : \E n \in 2 .. h[s] : x = <<s, n>>
<1>1. \A x : x \in Again(h) <=> \E s \in Slots : x \in {s} \X (2 .. h[s])
  BY DEF Again
<1>2. \A s, x : x \in {s} \X (2 .. h[s]) <=> \E n \in 2 .. h[s] : x = <<s, n>>
  OBVIOUS
<1>. QED
  BY <1>1, <1>2

LEMMA AgainFinite ==
    ASSUME NEW h \in [Slots -> Nat]
    PROVE  IsFiniteSet(Again(h))
<1>1. PICK P, f : P = {{s} \X (2 .. h[s]) : s \in Slots} /\ f = [s \in Slots |-> {s} \X (2 .. h[s])]
  OBVIOUS
<1>2. IsFiniteSet(P)
  <2>1. P = {f[s] : s \in Slots}
    BY <1>1
  <2>2. f \in Surjection(Slots, P)
    BY <1>1, <2>1 DEF Surjection
  <2>. QED
    BY <2>2, FS_Surjection, PoolAssumption
<1>3. ASSUME NEW p \in P PROVE IsFiniteSet(p)
  <2>1. PICK s \in Slots : p = {s} \X (2 .. h[s])
    BY <1>1
  <2>2. PICK m \in Int : m = h[s]
    OBVIOUS
  <2>3. IsFiniteSet({s})
    BY FS_Singleton
  <2>4. IsFiniteSet(2 .. m)
    BY FS_Interval
  <2>. QED
    BY <2>1, <2>2, <2>3, <2>4, FS_Product
<1>. QED
  BY <1>1, <1>2, <1>3, FS_UNION DEF Again

(* A hello of a slot that had one is a restart.                             *)
LEMMA RestartsAdded ==
    ASSUME RestartsAreCounted, starts \in [Slots -> Nat], NEW t \in Slots,
           starts' = [starts EXCEPT ![t] = @ + 1],
           restarts' = IF starts[t] # 0 THEN restarts + 1 ELSE restarts
    PROVE  RestartsAreCounted'
<1>1. restarts = Cardinality(Again(starts)) /\ (RestartsAreCounted' <=> restarts' = Cardinality(Again(starts')))
  BY DEF RestartsAreCounted, Again
<1>2. \A s \in Slots : starts'[s] = IF s = t THEN starts[t] + 1 ELSE starts[s]
  OBVIOUS
<1>3. CASE starts[t] = 0
  <2>1. \A s \in Slots : \A n : n \in 2 .. starts'[s] <=> n \in 2 .. starts[s]
    BY <1>2, <1>3
  <2>2. PICK g, h : g = starts' /\ h = starts
    OBVIOUS
  <2>3. Again(g) = Again(h)
    <3>1. \A s \in Slots : \A n : n \in 2 .. g[s] <=> n \in 2 .. h[s]
      BY <2>1, <2>2
    <3>2. \A x : x \in Again(g) <=> x \in Again(h)
      BY <3>1, AgainIs
    <3>. QED
      BY <3>2
  <2>. QED
    BY <1>1, <1>3, <2>2, <2>3
<1>4. CASE starts[t] # 0
  <2>1. PICK c : c = <<t, starts[t] + 1>>
    OBVIOUS
  <2>2. c \notin Again(starts)
    <3>1. SUFFICES ASSUME NEW s \in Slots, NEW n \in 2 .. starts[s], c = <<s, n>> PROVE FALSE
      BY AgainIs
    <3>2. s = t /\ n = starts[t] + 1
      BY <2>1, <3>1
    <3>. QED
      BY <3>2
  <2>3. \A s \in Slots : \A n : n \in 2 .. starts'[s] <=> n \in 2 .. starts[s] \/ (s = t /\ n = starts[t] + 1)
    BY <1>2, <1>4
  <2>4. PICK g, h, m : g = starts' /\ h = starts /\ m = starts[t] + 1
    OBVIOUS
  <2>5. Again(g) = Again(h) \cup {c}
    <3>1. \A s \in Slots : \A n : n \in 2 .. g[s] <=> n \in 2 .. h[s] \/ (s = t /\ n = m)
      BY <2>3, <2>4
    <3>2. c = <<t, m>>
      BY <2>1, <2>4
    <3>3. \A x : x \in Again(g) <=> \E s \in Slots : \E n \in 2 .. g[s] : x = <<s, n>>
      BY AgainIs
    <3>4. \A x : x \in Again(h) <=> \E s \in Slots : \E n \in 2 .. h[s] : x = <<s, n>>
      BY AgainIs
    <3>5. \A x : x \in Again(g) <=> x \in Again(h) \/ x = c
      BY <3>1, <3>2, <3>3, <3>4, Zenon
    <3>. QED
      BY <3>5
  <2>6. IsFiniteSet(Again(starts))
    BY AgainFinite
  <2>7. Cardinality(Again(starts')) = Cardinality(Again(starts)) + 1
    BY <2>2, <2>4, <2>5, <2>6, FS_AddElement
  <2>. QED
    BY <1>1, <1>4, <2>7
<1>. QED
  BY <1>3, <1>4

LEMMA RestartsNone ==
    ASSUME restarts = 0, starts = [s \in Slots |-> 0]
    PROVE  RestartsAreCounted
<1>1. \A s \in Slots : 2 .. starts[s] = {}
  OBVIOUS
<1>2. Again(starts) = {}
  BY <1>1, AgainIs
<1>3. Cardinality(Again(starts)) = 0
  BY <1>2, FS_EmptySet
<1>. QED
  BY <1>3 DEF RestartsAreCounted, Again

---------------------------------------------------------------------------
(* Every step: the types of the next state, and what one operation does.    *)
LEMMA TypeOKNext ==
    TypeOK' <=> /\ op' \in [Ops -> OpState] /\ slot' \in [Slots -> SlotState]
                /\ child' \in [Slots -> ChildState] /\ free' \in Seq(Slots)
                /\ build' \in {"old", "new"} /\ frozen' \in {None, "failed", "old", "new"}
                /\ source' \in [Ops -> {0, 1}] /\ starts' \in [Slots -> Nat]
                /\ restarts' \in Nat /\ faults' \in 0 .. MaxFaults
BY DEF TypeOK, OpState, Outcome, SlotState, ChildState, LineType

LEMMA OneOp ==
    ASSUME Outcomes, Retries, source' = source, NEW o \in Ops,
           \A p \in Ops \ {o} : op'[p] = op[p],
           OutcomeOf(o, op'[o]), RetriesOf(op'[o])
    PROVE  Outcomes' /\ Retries'
<1>1. \A p \in Ops : OutcomeOf(p, op[p])' <=> OutcomeOf(p, op'[p])
  BY DEF OutcomeOf
<1>2. \A p \in Ops : RetriesOf(op[p])' <=> RetriesOf(op'[p])
  OBVIOUS
<1>. QED
  BY <1>1, <1>2 DEF Outcomes, Retries

LEMMA BeginKeeps ==
    ASSUME IInv, NEW o \in Ops, Begin(o)
    PROVE  IInv'
<1>1. /\ op \in [Ops -> OpState] /\ op[o] \in OpState /\ op[o].pc = "idle"
      /\ child \in [Slots -> ChildState]
      /\ OutcomeOf(o, op[o]) /\ RetriesOf(op[o])
  BY TypeOKParts DEF IInv, Begin, Outcomes, Retries
<1>2. PICK y : op' = [op EXCEPT ![o] = y] /\
          \/ y = Finished(o, "SOURCE_VERSION_CHANGED", 0)
          \/ y = [op[o] EXCEPT !.pc = "open"]
          \/ y = [op[o] EXCEPT !.pc = "wait"]
  BY DEF Begin
<1>3. /\ y \in OpState /\ y.slot = None /\ y.pc \in {"open", "wait", "done"}
      /\ OutcomeOf(o, y) /\ RetriesOf(y)
  <2>0. op[o].slot = None
    BY <1>1 DEF IInv, Pool, Holding
  <2>1. CASE y = Finished(o, "SOURCE_VERSION_CHANGED", 0)
    <3>1. /\ y \in OpState /\ y.pc = "done" /\ y.slot = None /\ y.attempts = 0
          /\ y.errors = op[o].errors /\ OutcomeOf(o, y) /\ y.out.backend = "not_parsed"
      BY <1>1, <2>1, FinishedOp DEF Codes
    <3>2. y.errors = <<>>
      BY <1>1, <3>1 DEF RetriesOf, Waiting
    <3>. QED
      BY <3>1, <3>2 DEF RetriesOf, Waiting, Holding
  <2>2. CASE y = [op[o] EXCEPT !.pc = "open"] \/ y = [op[o] EXCEPT !.pc = "wait"]
    <3>1. /\ y \in OpState /\ y.pc \in {"open", "wait"} /\ y.slot = None
          /\ y.attempts = op[o].attempts /\ y.errors = op[o].errors /\ y.out = op[o].out
      BY <1>1, <2>0, <2>2 DEF OpState
    <3>2. OutcomeOf(o, y)
      BY <1>1, <3>1 DEF OutcomeOf
    <3>3. RetriesOf(y)
      BY <1>1, <3>1 DEF RetriesOf, Waiting, Holding
    <3>. QED
      BY <3>1, <3>2, <3>3
  <2>. QED
    BY <1>2, <2>1, <2>2
<1>4. op' \in [Ops -> OpState] /\ op'[o] = y /\ \A p \in Ops \ {o} : op'[p] = op[p]
  BY <1>1, <1>2, <1>3
<1>5. TypeOK'
  BY <1>4, TypeOKParts, TypeOKNext DEF IInv, Begin, world
<1>6. Pool'
  <2>1. op[o].slot = None
    BY <1>1 DEF IInv, Pool, Holding
  <2>. QED
    BY <1>1, <1>3, <1>4, <2>1, PoolKept DEF IInv, Begin, Holding
<1>7. Sessions'
  BY <1>3, <1>4, SessionsKept DEF IInv, Begin
<1>8. Children'
  BY <1>1, <1>3, <1>4, ChildrenKept DEF IInv, Begin, world, Waiting
<1>9. Outcomes' /\ Retries'
  BY <1>3, <1>4, OneOp DEF IInv, Begin, world
<1>10. RestartsAreCounted'
  BY RestartsKept DEF IInv, Begin
<1>. QED
  BY <1>5, <1>6, <1>7, <1>8, <1>9, <1>10 DEF IInv

LEMMA ReadLightKeeps ==
    ASSUME IInv, NEW o \in Ops, ReadLight(o)
    PROVE  IInv'
<1>1. /\ op \in [Ops -> OpState] /\ op[o] \in OpState /\ op[o].pc = "open" /\ op[o].slot = None
      /\ child \in [Slots -> ChildState] /\ source[o] \in {0, 1}
      /\ OutcomeOf(o, op[o]) /\ RetriesOf(op[o])
  BY TypeOKParts DEF IInv, ReadLight, Outcomes, Retries, Pool, Holding
<1>2. PICK y : op' = [op EXCEPT ![o] = y] /\
          \/ y = [op[o] EXCEPT !.pc = "verify", !.attempts = 1,
                               !.out = [op[o].out EXCEPT !.answer = o, !.version = source[o]]]
          \/ y = Finished(o, "PARSER_FAILED", 1)
  <2>1. \/ op' = [op EXCEPT ![o].pc = "verify", ![o].attempts = 1,
                            ![o].out = [@ EXCEPT !.answer = o, !.version = source[o]]]
        \/ op' = [op EXCEPT ![o] = Finished(o, "PARSER_FAILED", 1)]
    BY Zenon DEF ReadLight
  <2>2. CASE op' = [op EXCEPT ![o] = Finished(o, "PARSER_FAILED", 1)]
    BY <2>2, Zenon
  <2>3. CASE op' = [op EXCEPT ![o].pc = "verify", ![o].attempts = 1,
                              ![o].out = [@ EXCEPT !.answer = o, !.version = source[o]]]
    <3>1. op' = [op EXCEPT ![o] = [op[o] EXCEPT !.pc = "verify", !.attempts = 1,
                                   !.out = [op[o].out EXCEPT !.answer = o, !.version = source[o]]]]
      BY <1>1, <2>3
    <3>. QED
      BY <3>1, Zenon
  <2>. QED
    BY <2>1, <2>2, <2>3, Zenon
<1>3. /\ y \in OpState /\ y.slot = None /\ y.pc \in {"verify", "done"}
      /\ OutcomeOf(o, y) /\ RetriesOf(y)
  <2>0. op[o].errors = <<>> /\ Len(op[o].errors) = 0
    BY <1>1 DEF RetriesOf, Waiting
  <2>1. CASE y = Finished(o, "PARSER_FAILED", 1)
    <3>1. /\ y \in OpState /\ y.pc = "done" /\ y.slot = None /\ y.attempts = 1
          /\ y.errors = op[o].errors /\ OutcomeOf(o, y) /\ y.out.backend # "not_parsed"
      BY <1>1, <2>1, FinishedOp DEF Codes
    <3>. QED
      BY <2>0, <3>1 DEF RetriesOf, Waiting, Holding
  <2>2. CASE y = [op[o] EXCEPT !.pc = "verify", !.attempts = 1,
                               !.out = [op[o].out EXCEPT !.answer = o, !.version = source[o]]]
    <3>1. PICK z : z = [op[o].out EXCEPT !.answer = o, !.version = source[o]]
      OBVIOUS
    <3>2. op[o].out \in Outcome /\ op[o].out.status = None
      BY <1>1 DEF OpState, OutcomeOf, NoOutcome
    <3>3. z \in Outcome /\ z.answer = o /\ z.version = source[o] /\ z.status = None
      BY <1>1, <3>1, <3>2 DEF Outcome
    <3>4. y = [op[o] EXCEPT !.pc = "verify", !.attempts = 1, !.out = z]
      BY <2>2, <3>1
    <3>5. /\ y \in OpState /\ y.pc = "verify" /\ y.slot = None /\ y.attempts = 1
          /\ y.errors = op[o].errors /\ y.out = z
      BY <1>1, <3>3, <3>4 DEF OpState
    <3>6. OutcomeOf(o, y)
      BY <1>1, <3>3, <3>5 DEF OutcomeOf, None
    <3>7. RetriesOf(y)
      BY <2>0, <3>5 DEF RetriesOf, Waiting, Holding
    <3>. QED
      BY <3>5, <3>6, <3>7
  <2>. QED
    BY <1>2, <2>1, <2>2
<1>4. op' \in [Ops -> OpState] /\ op'[o] = y /\ \A p \in Ops \ {o} : op'[p] = op[p]
  BY <1>1, <1>2, <1>3
<1>5. TypeOK'
  <2>1. faults' \in 0 .. MaxFaults
    BY PoolAssumption, TypeOKParts DEF IInv, ReadLight, Fault
  <2>. QED
    BY <1>4, <2>1, TypeOKParts, TypeOKNext DEF IInv, ReadLight
<1>6. Pool'
  BY <1>1, <1>3, <1>4, PoolKept DEF IInv, ReadLight, Holding
<1>7. Sessions'
  BY <1>3, <1>4, SessionsKept DEF IInv, ReadLight
<1>8. Children'
  BY <1>1, <1>3, <1>4, ChildrenKept DEF IInv, ReadLight, Waiting
<1>9. Outcomes' /\ Retries'
  BY <1>3, <1>4, OneOp DEF IInv, ReadLight
<1>10. RestartsAreCounted'
  BY RestartsKept DEF IInv, ReadLight
<1>. QED
  BY <1>5, <1>6, <1>7, <1>8, <1>9, <1>10 DEF IInv

LEMMA CheckoutKeeps ==
    ASSUME IInv, NEW o \in Ops, Checkout(o)
    PROVE  IInv'
<1>1. /\ op \in [Ops -> OpState] /\ op[o] \in OpState /\ op[o].pc = "wait" /\ op[o].slot = None
      /\ child \in [Slots -> ChildState] /\ free \in Seq(Slots) /\ free # <<>>
      /\ OutcomeOf(o, op[o]) /\ RetriesOf(op[o])
  BY TypeOKParts DEF IInv, Checkout, Outcomes, Retries, Pool, Holding
<1>2. PICK s : s = Last(free)
  OBVIOUS
<1>3. s \in Slots
  BY <1>1, <1>2 DEF Last
<1>4. op' = [op EXCEPT ![o] = [op[o] EXCEPT !.pc = "check", !.slot = s]]
  BY <1>2 DEF Checkout
<1>5. PICK y : y = [op[o] EXCEPT !.pc = "check", !.slot = s]
  OBVIOUS
<1>6. /\ y \in OpState /\ y.slot = s /\ y.pc = "check"
      /\ y.attempts = op[o].attempts /\ y.errors = op[o].errors /\ y.out = op[o].out
  BY <1>1, <1>3, <1>5 DEF OpState
<1>7. op' \in [Ops -> OpState] /\ op'[o] = y /\ \A p \in Ops \ {o} : op'[p] = op[p]
  BY <1>1, <1>4, <1>5, <1>6
<1>8. OutcomeOf(o, y)
  BY <1>1, <1>6 DEF OutcomeOf
<1>9. RetriesOf(y)
  <2>1. op[o].attempts = 0 /\ Len(op[o].errors) = 0
    BY <1>1 DEF RetriesOf, Waiting
  <2>. QED
    BY <1>6, <2>1 DEF RetriesOf, Waiting, Holding
<1>10. Pool' /\ free' \in Seq(Slots)
  BY <1>1, <1>2, <1>6, <1>7, PoolTaken DEF IInv, Checkout, Holding
<1>11. TypeOK'
  BY <1>7, <1>10, TypeOKParts, TypeOKNext DEF IInv, Checkout, world
<1>12. Sessions'
  BY <1>6, <1>7, SessionsKept DEF IInv, Checkout
<1>13. Children'
  BY <1>1, <1>3, <1>6, <1>7, ChildrenKept DEF IInv, Checkout, world, Waiting
<1>14. Outcomes' /\ Retries'
  BY <1>7, <1>8, <1>9, OneOp DEF IInv, Checkout, world
<1>15. RestartsAreCounted'
  BY RestartsKept DEF IInv, Checkout
<1>. QED
  BY <1>10, <1>11, <1>12, <1>13, <1>14, <1>15 DEF IInv

---------------------------------------------------------------------------
(* The loop of execute_operation.                                           *)

LEMMA NoChildKnows ==
    /\ NoChild \in ChildState /\ NoChild.busy = None /\ ~NoChild.opened /\ Timely(NoChild.lines)
    /\ \A p \in Ops : Unknown(NoChild, p)
<1>1. NoChild \in ChildState
  <2>1. FALSE \in BOOLEAN
    OBVIOUS
  <2>. QED
    BY <2>1, LinesEmpty DEF NoChild, ChildState
<1>2. NoChild.busy = None /\ NoChild.last = None /\ NoChild.lines = <<>> /\ NoChild.opened = FALSE
  BY DEF NoChild
<1>3. \A p \in Ops : p # None
  BY PoolAssumption
<1>4. \A p : Silent(<<>>, p)
  BY LinesEmpty
<1>5. Timely(<<>>)
  BY LinesEmpty
<1>. QED
  BY <1>1, <1>2, <1>3, <1>4, <1>5 DEF Unknown

(* What is known of an operation that holds a slot.                         *)
LEMMA Holder ==
    ASSUME IInv, NEW o \in Ops, op[o].pc \in Holding
    PROVE  /\ op \in [Ops -> OpState] /\ op[o] \in OpState /\ op[o].slot \in Slots
           /\ child \in [Slots -> ChildState] /\ slot \in [Slots -> SlotState]
           /\ free \in Seq(Slots) /\ starts \in [Slots -> Nat] /\ source[o] \in {0, 1}
           /\ OutcomeOf(o, op[o]) /\ RetriesOf(op[o])
           /\ op[o].attempts \in Nat /\ op[o].attempts <= Len(op[o].errors)
           /\ op[o].errors \in Seq(Errors) /\ Len(op[o].errors) <= 1
           /\ op[o].out = NoOutcome
<1>1. op \in [Ops -> OpState] /\ op[o] \in OpState /\ OutcomeOf(o, op[o]) /\ RetriesOf(op[o])
  BY TypeOKParts DEF IInv, Outcomes, Retries
<1>2. op[o].slot \in Slots
  BY <1>1 DEF IInv, Pool, OpState
<1>3. op[o].out = NoOutcome /\ op[o].attempts \in Nat /\ op[o].errors \in Seq(Errors)
      /\ op[o].attempts <= Len(op[o].errors) /\ Len(op[o].errors) <= 1
  BY <1>1 DEF OutcomeOf, RetriesOf, OpState, Holding
<1>. QED
  BY <1>1, <1>2, <1>3, TypeOKParts DEF IInv

LEMMA HolderParts ==
    ASSUME IInv, NEW o \in Ops, op[o].pc \in Holding
    PROVE  /\ Sessions /\ Pool /\ op \in [Ops -> OpState]
           /\ slot \in [Slots -> SlotState] /\ starts \in [Slots -> Nat]
BY Holder DEF IInv

LEMMA TimeOutKeeps ==
    ASSUME IInv, NEW o \in Ops, op[o].pc \in Holding, TimeOut(o),
           UNCHANGED <<starts, restarts, world>>
    PROVE  IInv'
<1>1. PICK t : t = op[o].slot
  OBVIOUS
<1>2. PICK y : y = Finished(o, "PARSER_TIMEOUT", op[o].attempts)
  OBVIOUS
<1>3. /\ op' = [op EXCEPT ![o] = y]
      /\ slot' = [slot EXCEPT ![t] = [slot[t] EXCEPT !.pending = slot[t].pending \/ slot[t].has]]
      /\ child' = [child EXCEPT ![t] = NoChild] /\ free' = Append(free, op[o].slot)
  BY <1>1, <1>2 DEF TimeOut, Kill, Release
<1>4. /\ y \in OpState /\ y.pc = "done" /\ y.slot = None /\ y.attempts = op[o].attempts
      /\ y.errors = op[o].errors /\ OutcomeOf(o, y)
      /\ (op[o].attempts = 0 <=> y.out.backend = "not_parsed")
  BY <1>2, Holder, FinishedOp DEF Codes
<1>5. RetriesOf(y)
  <2>1. op[o].attempts <= 2 /\ Len(op[o].errors) <= 2 /\ ~(Len(op[o].errors) > 1)
    BY Holder
  <2>. QED
    BY <1>4, <2>1 DEF RetriesOf, Waiting, Holding
<1>6. op' \in [Ops -> OpState] /\ op'[o] = y /\ \A p \in Ops \ {o} : op'[p] = op[p]
  BY <1>3, <1>4, Holder
<1>7. Pool' /\ free' \in Seq(Slots)
  BY <1>3, <1>4, <1>6, Holder, PoolReleased DEF IInv, Holding
<1>8. PICK z : z = [slot[t] EXCEPT !.pending = slot[t].pending \/ slot[t].has]
  OBVIOUS
<1>9. /\ z \in SlotState /\ z.has = slot[t].has
      /\ (z.has \/ z.pending <=> slot[t].has \/ slot[t].pending)
  <2>1. slot[t] \in SlotState
    BY <1>1, Holder
  <2>. QED
    BY <1>8, <2>1 DEF SlotState
<1>10. slot' \in [Slots -> SlotState] /\ slot'[t] = z /\ slot' = [slot EXCEPT ![t] = z]
  BY <1>1, <1>3, <1>8, <1>9, Holder
<1>11. starts' = [starts EXCEPT ![t] = starts'[t]] /\ starts' = starts
  BY Holder
<1>12. Sessions'
  <2>1. z.has \/ z.pending <=> starts'[t] # 0
    BY <1>1, <1>9, Holder DEF IInv, Sessions
  <2>. QED
    <3>1. slot' = [slot EXCEPT ![t] = slot'[t]] /\ (slot'[t].has \/ slot'[t].pending <=> starts'[t] # 0)
      BY <1>10, <2>1
    <3>2. op'[o].pc \notin {"start", "send", "read"}
      BY <1>4, <1>6
    <3>. QED
      BY <1>1, <1>6, <1>11, <3>1, <3>2, HolderParts, SessionsChanged
<1>13. Children' /\ child' \in [Slots -> ChildState]
  BY <1>1, <1>3, <1>4, <1>6, Holder, NoChildKnows, ChildrenHeld DEF IInv, world, Waiting
<1>14. Outcomes' /\ Retries'
  BY <1>4, <1>5, <1>6, OneOp DEF IInv, world
<1>15. TypeOK'
  BY <1>6, <1>7, <1>10, <1>13, TypeOKParts, TypeOKNext DEF IInv, world
<1>16. RestartsAreCounted'
  BY RestartsKept DEF IInv
<1>. QED
  BY <1>7, <1>12, <1>13, <1>14, <1>15, <1>16 DEF IInv

LEMMA RetireKeeps ==
    ASSUME IInv, NEW o \in Ops, op[o].pc \in {"send", "read"}, NEW error \in Errors,
           Retire(o, error), UNCHANGED <<starts, restarts, world>>
    PROVE  IInv'
<1>0. op[o].pc \in Holding
  BY DEF Holding
<1>1. PICK t : t = op[o].slot
  OBVIOUS
<1>2. PICK n \in Nat : n = op[o].attempts + 1 /\ n <= Len(op[o].errors) + 1
  BY <1>0, Holder
<1>3. /\ slot' = [slot EXCEPT ![t] = [has |-> FALSE, pending |-> TRUE, served |-> 0]]
      /\ child' = [child EXCEPT ![t] = NoChild] /\ Broken(o, error, n)
  BY <1>1, <1>2 DEF Retire, Kill
<1>4. /\ op' \in [Ops -> OpState]
      /\ \A p \in Ops \ {o} : op'[p] = op[p]
      /\ OutcomeOf(o, op'[o]) /\ RetriesOf(op'[o])
      /\ \/ op'[o].pc = "check" /\ op'[o].slot = op[o].slot /\ free' = free
         \/ op'[o].pc = "done" /\ op'[o].slot = None /\ free' = Append(free, op[o].slot)
  BY <1>0, <1>2, <1>3, Holder, BrokenOp
<1>5. Pool' /\ free' \in Seq(Slots)
  <2>1. CASE op'[o].pc = "check" /\ op'[o].slot = op[o].slot /\ free' = free
    BY <1>0, <1>4, <2>1, Holder, PoolKept DEF IInv, Holding
  <2>2. CASE op'[o].pc = "done" /\ op'[o].slot = None /\ free' = Append(free, op[o].slot)
    BY <1>0, <1>4, <2>2, Holder, PoolReleased DEF IInv, Holding
  <2>. QED
    BY <1>4, <2>1, <2>2
<1>6. PICK z : z = [has |-> FALSE, pending |-> TRUE, served |-> 0]
  OBVIOUS
<1>7. z \in SlotState /\ ~z.has /\ z.pending
  <2>1. TRUE \in BOOLEAN /\ FALSE \in BOOLEAN
    OBVIOUS
  <2>. QED
    BY <1>6, <2>1, PoolAssumption DEF SlotState
<1>8. slot' \in [Slots -> SlotState] /\ slot'[t] = z /\ slot' = [slot EXCEPT ![t] = z]
  BY <1>0, <1>1, <1>3, <1>6, <1>7, Holder
<1>9. Sessions'
  <2>1. starts' = [starts EXCEPT ![t] = starts'[t]]
    BY <1>0, Holder
  <2>2. starts'[t] # 0
    BY <1>0, <1>1, Holder DEF IInv, Sessions
  <2>. QED
    <3>1. op'[o].pc \notin {"start", "send", "read"}
      BY <1>4
    <3>2. slot' = [slot EXCEPT ![t] = slot'[t]] /\ (slot'[t].has \/ slot'[t].pending <=> starts'[t] # 0)
      BY <1>7, <1>8, <2>2
    <3>3. \A p \in Ops \ {o} : op'[p] = op[p]
      BY <1>4
    <3>4. /\ Sessions /\ Pool /\ op \in [Ops -> OpState]
          /\ slot \in [Slots -> SlotState] /\ starts \in [Slots -> Nat]
      BY <1>0, HolderParts
    <3>. QED
      BY <1>0, <1>1, <2>1, <3>1, <3>2, <3>3, <3>4, SessionsChanged, Zenon
<1>10. Children' /\ child' \in [Slots -> ChildState]
  BY <1>0, <1>1, <1>3, <1>4, Holder, NoChildKnows, ChildrenHeld DEF IInv, world, Waiting
<1>11. Outcomes' /\ Retries'
  BY <1>4, OneOp DEF IInv, world
<1>12. TypeOK'
  BY <1>4, <1>5, <1>8, <1>10, TypeOKParts, TypeOKNext DEF IInv, world
<1>13. RestartsAreCounted'
  BY RestartsKept DEF IInv
<1>. QED
  BY <1>5, <1>9, <1>10, <1>11, <1>12, <1>13 DEF IInv

LEMMA CheckKeeps ==
    ASSUME IInv, NEW o \in Ops, Check(o)
    PROVE  IInv'
<1>0. op[o].pc = "check" /\ op[o].pc \in Holding
  BY DEF Check, Holding
<1>1. PICK t : t = op[o].slot
  OBVIOUS
<1>2. CASE TimeOut(o)
  BY <1>0, <1>2, TimeOutKeeps DEF Check
<1>3. CASE /\ RecycleDue(t) /\ Kill(t)
           /\ slot' = [slot EXCEPT ![t] = [@ EXCEPT !.has = FALSE, !.pending = TRUE]]
           /\ op' = [op EXCEPT ![o].pc = "start"]
           /\ UNCHANGED <<free, starts, restarts, world>>
  <2>1. PICK y, z : /\ y = [op[o] EXCEPT !.pc = "start"]
                    /\ z = [slot[t] EXCEPT !.has = FALSE, !.pending = TRUE]
    OBVIOUS
  <2>2. /\ y \in OpState /\ y.pc = "start" /\ y.slot = t
        /\ y.attempts = op[o].attempts /\ y.errors = op[o].errors /\ y.out = op[o].out
    BY <1>0, <1>1, <2>1, Holder DEF OpState
  <2>3. op' \in [Ops -> OpState] /\ op'[o] = y /\ \A p \in Ops \ {o} : op'[p] = op[p]
    BY <1>0, <1>3, <2>1, <2>2, Holder
  <2>4. OutcomeOf(o, y) /\ RetriesOf(y)
    BY <1>0, <2>2, Holder DEF OutcomeOf, RetriesOf, Waiting, Holding
  <2>5. z \in SlotState /\ ~z.has /\ z.pending
    <3>1. TRUE \in BOOLEAN /\ FALSE \in BOOLEAN /\ slot[t] \in SlotState
      BY <1>0, <1>1, Holder
    <3>. QED
      BY <2>1, <3>1 DEF SlotState
  <2>6. slot' \in [Slots -> SlotState] /\ slot'[t] = z /\ slot' = [slot EXCEPT ![t] = slot'[t]]
    BY <1>0, <1>1, <1>3, <2>1, <2>5, Holder
  <2>7. Pool'
    BY <1>0, <1>1, <1>3, <2>2, <2>3, PoolKept DEF IInv, Holding
  <2>8. Sessions'
    <3>1. starts' = [starts EXCEPT ![t] = starts'[t]]
      BY <1>0, <1>3, Holder
    <3>2. slot'[t].has \/ slot'[t].pending <=> starts'[t] # 0
      BY <1>0, <1>1, <1>3, <2>5, <2>6, Holder DEF IInv, Sessions, RecycleDue
    <3>. QED
      BY <1>0, <1>1, <2>2, <2>3, <2>5, <2>6, <3>1, <3>2, HolderParts, SessionsChanged
  <2>9. Children' /\ child' \in [Slots -> ChildState]
    BY <1>0, <1>1, <1>3, <2>2, <2>3, Holder, NoChildKnows, ChildrenHeld
    DEF IInv, Kill, world, Waiting
  <2>10. Outcomes' /\ Retries'
    BY <1>3, <2>3, <2>4, OneOp DEF IInv, world
  <2>11. TypeOK'
    BY <1>3, <2>3, <2>6, <2>9, TypeOKParts, TypeOKNext DEF IInv, world
  <2>12. RestartsAreCounted'
    BY <1>3, RestartsKept DEF IInv
  <2>. QED
    BY <2>7, <2>8, <2>9, <2>10, <2>11, <2>12 DEF IInv
<1>4. CASE /\ ~RecycleDue(t)
           /\ op' = [op EXCEPT ![o].pc = IF slot[t].has THEN "send" ELSE "start"]
           /\ UNCHANGED <<child, slot, free, starts, restarts, world>>
  <2>1. PICK place : place = IF slot[t].has THEN "send" ELSE "start"
    OBVIOUS
  <2>2. PICK y : y = [op[o] EXCEPT !.pc = place]
    OBVIOUS
  <2>3. /\ place \in {"send", "start"}
        /\ place = "send" => slot[t].has /\ slot[t].served < MaxRequests
        /\ place = "start" => ~slot[t].has
    <3>1. slot[t].served \in 0 .. MaxRequests
      BY <1>0, <1>1, Holder DEF SlotState
    <3>2. slot[t].has => slot[t].served < MaxRequests
      BY <1>4, <3>1, PoolAssumption DEF RecycleDue
    <3>. QED
      BY <2>1, <3>2
  <2>4. /\ y \in OpState /\ y.pc = place /\ y.slot = t
        /\ y.attempts = op[o].attempts /\ y.errors = op[o].errors /\ y.out = op[o].out
    BY <1>0, <1>1, <2>2, <2>3, Holder DEF OpState
  <2>5. op' \in [Ops -> OpState] /\ op'[o] = y /\ \A p \in Ops \ {o} : op'[p] = op[p]
    BY <1>0, <1>4, <2>1, <2>2, <2>4, Holder
  <2>6. OutcomeOf(o, y) /\ RetriesOf(y)
    BY <1>0, <2>3, <2>4, Holder DEF OutcomeOf, RetriesOf, Waiting, Holding
  <2>7. Pool'
    BY <1>0, <1>1, <1>4, <2>3, <2>4, <2>5, PoolKept DEF IInv, Holding
  <2>8. Sessions'
    <3>1. starts' = [starts EXCEPT ![t] = starts'[t]] /\ slot' = [slot EXCEPT ![t] = slot'[t]]
          /\ slot'[t] = slot[t] /\ starts'[t] = starts[t]
      BY <1>0, <1>4, Holder
    <3>2. slot'[t].has \/ slot'[t].pending <=> starts'[t] # 0
      BY <1>0, <1>1, <3>1, Holder DEF IInv, Sessions
    <3>. QED
      BY <1>0, <1>1, <2>3, <2>4, <2>5, <3>1, <3>2, HolderParts, SessionsChanged
  <2>9. Children'
    BY <1>0, <1>1, <1>4, <2>3, <2>4, <2>5, Holder, ChildrenKept DEF IInv, world, Waiting
  <2>10. Outcomes' /\ Retries'
    BY <1>4, <2>5, <2>6, OneOp DEF IInv, world
  <2>11. TypeOK'
    BY <1>4, <2>5, TypeOKParts, TypeOKNext DEF IInv, world
  <2>12. RestartsAreCounted'
    BY <1>4, RestartsKept DEF IInv
  <2>. QED
    BY <2>7, <2>8, <2>9, <2>10, <2>11, <2>12 DEF IInv
<1>. QED
  BY <1>1, <1>2, <1>3, <1>4 DEF Check

LEMMA StartKeeps ==
    ASSUME IInv, NEW o \in Ops, Start(o)
    PROVE  IInv'
<1>0. op[o].pc = "start" /\ op[o].pc \in Holding
  BY DEF Start, Holding
<1>1. PICK t : t = op[o].slot
  OBVIOUS
<1>2. CASE /\ slot' = [slot EXCEPT ![t] = SlotStarted(t)]
           /\ child' = [child EXCEPT ![t] = [NoChild EXCEPT !.up = TRUE]]
           /\ starts' = [starts EXCEPT ![t] = @ + 1]
           /\ restarts' = Restarted(t)
           /\ op' = [op EXCEPT ![o].pc = "send"]
           /\ UNCHANGED <<free, world>>
  <2>1. PICK y, z, c : /\ y = [op[o] EXCEPT !.pc = "send"]
                       /\ z = SlotStarted(t)
                       /\ c = [NoChild EXCEPT !.up = TRUE]
    OBVIOUS
  <2>2. /\ y \in OpState /\ y.pc = "send" /\ y.slot = t
        /\ y.attempts = op[o].attempts /\ y.errors = op[o].errors /\ y.out = op[o].out
    BY <1>0, <1>1, <2>1, Holder DEF OpState
  <2>3. op' \in [Ops -> OpState] /\ op'[o] = y /\ \A p \in Ops \ {o} : op'[p] = op[p]
    BY <1>0, <1>2, <2>1, <2>2, Holder
  <2>4. OutcomeOf(o, y) /\ RetriesOf(y)
    BY <1>0, <2>2, Holder DEF OutcomeOf, RetriesOf, Waiting, Holding
  <2>5. z \in SlotState /\ z.has /\ z.served = 0
    <3>1. TRUE \in BOOLEAN /\ FALSE \in BOOLEAN
      OBVIOUS
    <3>. QED
      BY <2>1, <3>1, PoolAssumption DEF SlotState, SlotStarted
  <2>6. /\ c \in ChildState /\ c.busy = None /\ ~c.opened /\ Timely(c.lines)
        /\ \A p \in Ops : Unknown(c, p)
    <3>1. TRUE \in BOOLEAN
      OBVIOUS
    <3>2. c \in ChildState /\ c.busy = NoChild.busy /\ c.opened = NoChild.opened
          /\ c.lines = NoChild.lines /\ c.last = NoChild.last
      BY <2>1, <3>1, NoChildKnows DEF ChildState
    <3>. QED
      BY <3>2, NoChildKnows DEF Unknown
  <2>7. slot' \in [Slots -> SlotState] /\ slot'[t] = z /\ slot' = [slot EXCEPT ![t] = slot'[t]]
    BY <1>0, <1>1, <1>2, <2>1, <2>5, Holder
  <2>8. Pool'
    BY <1>0, <1>1, <1>2, <2>2, <2>3, PoolKept DEF IInv, Holding
  <2>9. /\ starts' \in [Slots -> Nat]
        /\ starts' = [starts EXCEPT ![t] = starts'[t]] /\ starts'[t] # 0
    <3>1. starts \in [Slots -> Nat] /\ t \in Slots /\ starts[t] \in Nat
      BY <1>0, <1>1, Holder
    <3>2. PICK m \in Nat : m = starts[t] + 1 /\ m # 0
      BY <3>1
    <3>3. starts' = [starts EXCEPT ![t] = m]
      BY <1>2, <3>2
    <3>. QED
      BY <3>1, <3>2, <3>3
  <2>10. Sessions'
    <3>1. z.served < MaxRequests
      BY <2>5, PoolAssumption
    <3>. QED
      BY <1>0, <1>1, <2>2, <2>3, <2>5, <2>7, <2>9, <3>1, HolderParts, SessionsChanged
  <2>11. Children' /\ child' \in [Slots -> ChildState]
    BY <1>0, <1>1, <1>2, <2>1, <2>2, <2>3, <2>6, Holder, ChildrenHeld DEF IInv, world, Waiting
  <2>12. Outcomes' /\ Retries'
    BY <1>2, <2>3, <2>4, OneOp DEF IInv, world
  <2>13. slot[t].pending <=> starts[t] # 0
    BY <1>0, <1>1, Holder DEF IInv, Sessions
  <2>14. restarts' = IF starts[t] # 0 THEN restarts + 1 ELSE restarts
    BY <1>2, <2>13 DEF Restarted
  <2>15. RestartsAreCounted'
    BY <1>0, <1>1, <1>2, <2>14, Holder, RestartsAdded DEF IInv
  <2>16. TypeOK'
    BY <1>2, <2>3, <2>7, <2>9, <2>11, <2>14, TypeOKParts, TypeOKNext DEF IInv, world
  <2>. QED
    BY <2>8, <2>10, <2>11, <2>12, <2>15, <2>16 DEF IInv
<1>3. CASE \E error \in Errors : /\ Broken(o, error, op[o].attempts)
                                 /\ faults' \in 0 .. MaxFaults
                                 /\ UNCHANGED <<slot, child, starts, restarts, build, frozen, source>>
  <2>1. PICK error \in Errors, n \in Nat :
            n = op[o].attempts /\ n <= Len(op[o].errors) + 1 /\ Broken(o, error, n)
    BY <1>0, <1>3, Holder
  <2>2. /\ op' \in [Ops -> OpState]
        /\ \A p \in Ops \ {o} : op'[p] = op[p]
        /\ OutcomeOf(o, op'[o]) /\ RetriesOf(op'[o])
        /\ \/ op'[o].pc = "check" /\ op'[o].slot = op[o].slot /\ free' = free
           \/ op'[o].pc = "done" /\ op'[o].slot = None /\ free' = Append(free, op[o].slot)
    BY <1>0, <2>1, Holder, BrokenOp
  <2>3. Pool' /\ free' \in Seq(Slots)
    <3>1. CASE op'[o].pc = "check" /\ op'[o].slot = op[o].slot /\ free' = free
      BY <1>0, <2>2, <3>1, Holder, PoolKept DEF IInv, Holding
    <3>2. CASE op'[o].pc = "done" /\ op'[o].slot = None /\ free' = Append(free, op[o].slot)
      BY <1>0, <2>2, <3>2, Holder, PoolReleased DEF IInv, Holding
    <3>. QED
      BY <2>2, <3>1, <3>2
  <2>4. Sessions'
    BY <1>3, <2>2, SessionsKept DEF IInv
  <2>5. Children'
    BY <1>0, <1>3, <2>2, Holder, ChildrenKept DEF IInv, Waiting
  <2>6. Outcomes' /\ Retries'
    BY <1>3, <2>2, OneOp DEF IInv
  <2>7. TypeOK'
    BY <1>3, <2>2, <2>3, TypeOKParts, TypeOKNext DEF IInv
  <2>8. RestartsAreCounted'
    BY <1>3, RestartsKept DEF IInv
  <2>. QED
    BY <2>3, <2>4, <2>5, <2>6, <2>7, <2>8 DEF IInv
<1>4. faults \in 0 .. MaxFaults /\ (Fault => faults' \in 0 .. MaxFaults)
  BY PoolAssumption, TypeOKParts DEF IInv, Fault
<1>5. {"build", "start", "eof", "corrupt", "timeout"} \subseteq Errors
  BY DEF Errors
<1>. QED
  BY <1>1, <1>2, <1>3, <1>4, <1>5 DEF Start, world

LEMMA SendKeeps ==
    ASSUME IInv, NEW o \in Ops, Send(o)
    PROVE  IInv'
<1>0. op[o].pc = "send" /\ op[o].pc \in Holding
  BY DEF Send, Holding
<1>1. PICK t : t = op[o].slot
  OBVIOUS
<1>2. CASE TimeOut(o)
  BY <1>0, <1>2, TimeOutKeeps DEF Send
<1>3. CASE Retire(o, "eof")
  BY <1>0, <1>3, RetireKeeps DEF Send, Errors
<1>4. CASE /\ child' = [child EXCEPT ![t].busy = o, ![t].flooded = FALSE]
           /\ op' = [op EXCEPT ![o].pc = "read"]
           /\ UNCHANGED <<slot, free, starts, restarts, world>>
  <2>1. PICK y, c : /\ y = [op[o] EXCEPT !.pc = "read"]
                    /\ c = [child[t] EXCEPT !.busy = o, !.flooded = FALSE]
    OBVIOUS
  <2>2. /\ y \in OpState /\ y.pc = "read" /\ y.slot = t
        /\ y.attempts = op[o].attempts /\ y.errors = op[o].errors /\ y.out = op[o].out
    BY <1>0, <1>1, <2>1, Holder DEF OpState
  <2>3. op' \in [Ops -> OpState] /\ op'[o] = y /\ \A p \in Ops \ {o} : op'[p] = op[p]
    BY <1>0, <1>4, <2>1, <2>2, Holder
  <2>4. OutcomeOf(o, y) /\ RetriesOf(y)
    BY <1>0, <2>2, Holder DEF OutcomeOf, RetriesOf, Waiting, Holding
  <2>5. child' = [child EXCEPT ![t] = c]
    BY <1>0, <1>1, <1>4, <2>1, Holder
  <2>6. /\ c \in ChildState /\ c.busy = o /\ c.last = child[t].last /\ c.lines = child[t].lines
    <3>1. child[t] \in ChildState /\ FALSE \in BOOLEAN
      BY <1>0, <1>1, Holder
    <3>. QED
      BY <2>1, <3>1 DEF ChildState
  <2>7. c.last # o /\ Silent(c.lines, o) /\ o # None /\ Timely(c.lines)
    BY <1>0, <1>1, <2>6, Holder, PoolAssumption DEF IInv, Children, Unknown
  <2>8. \A p \in Ops \ {o} : Unknown(child[t], p) => Unknown(c, p)
    BY <2>6 DEF Unknown
  <2>9. Pool'
    BY <1>0, <1>1, <1>4, <2>2, <2>3, PoolKept DEF IInv, Holding
  <2>10. Sessions'
    BY <1>0, <1>1, <1>4, <2>2, <2>3, SessionsKept DEF IInv
  <2>11. Children' /\ child' \in [Slots -> ChildState]
    BY <1>0, <1>1, <1>4, <2>2, <2>3, <2>5, <2>6, <2>7, <2>8, Holder, ChildrenHeld
    DEF IInv, world, Waiting
  <2>12. Outcomes' /\ Retries'
    BY <1>4, <2>3, <2>4, OneOp DEF IInv, world
  <2>13. TypeOK'
    BY <1>4, <2>3, <2>11, TypeOKParts, TypeOKNext DEF IInv, world
  <2>14. RestartsAreCounted'
    BY <1>4, RestartsKept DEF IInv
  <2>. QED
    BY <2>9, <2>10, <2>11, <2>12, <2>13, <2>14 DEF IInv
<1>. QED
  BY <1>1, <1>2, <1>3, <1>4 DEF Send

LEMMA Meaning ==
    ASSUME NEW o \in Ops, NEW e \in LineType
    PROVE  /\ MeaningOf(o, e) \in Errors \cup Payloads
           /\ MeaningOf(o, e) \in Payloads => e.id = o /\ MeaningOf(o, e) = e.kind
BY DEF MeaningOf, LineType, Kinds, Errors, Payloads

LEMMA ReadKeeps ==
    ASSUME IInv, NEW o \in Ops, Read(o)
    PROVE  IInv'
<1>0. op[o].pc = "read" /\ op[o].pc \in Holding
  BY DEF Read, Holding
<1>1. PICK t, e : t = op[o].slot /\ e = Head(child[t].lines)
  OBVIOUS
<1>2. CASE Retire(o, "corrupt") \/ Retire(o, "timeout")
  BY <1>0, <1>2, RetireKeeps DEF Read, Errors
<1>3. child[t] \in ChildState /\ child[t].lines \in Seq(LineType) /\ Timely(child[t].lines)
  BY <1>0, <1>1, Holder DEF IInv, Children, ChildState
<1>4. CASE /\ child[t].lines # <<>> /\ MeaningOf(o, e) \notin Payloads /\ Retire(o, MeaningOf(o, e))
  <2>1. e \in LineType
    BY <1>1, <1>3, <1>4, LinesTail
  <2>2. PICK error \in Errors : error = MeaningOf(o, e)
    BY <1>4, <2>1, Meaning
  <2>. QED
    BY <1>0, <1>4, <2>2, RetireKeeps DEF Read
<1>5. CASE /\ child[t].lines # <<>> /\ MeaningOf(o, e) \in Payloads
           /\ op' = [op EXCEPT ![o].pc = "verify", ![o].attempts = @ + 1, ![o].slot = None,
                               ![o].late = FALSE,
                               ![o].out = [@ EXCEPT !.answer = e.id, !.version = e.version,
                                                    !.code = PayloadCode(e.kind)]]
           /\ \E peaked \in BOOLEAN :
                  child' = [child EXCEPT ![t].lines = Tail(@), ![t].due = @ /\ peaked]
           /\ slot' = [slot EXCEPT ![t].served = @ + 1]
           /\ Release(t)
           /\ UNCHANGED <<starts, restarts, world>>
  <2>0. PICK peaked \in BOOLEAN :
           child' = [child EXCEPT ![t].lines = Tail(@), ![t].due = @ /\ peaked]
    BY <1>5
  <2>1. PICK lines, due : lines = child[t].lines /\ due = (child[t].due /\ peaked)
    OBVIOUS
  <2>2. /\ e \in LineType /\ Tail(lines) \in Seq(LineType) /\ Timely(Tail(lines))
        /\ \A p : Silent(lines, p) => Silent(Tail(lines), p) /\ e.id # p
        /\ e.id # None => e.version = 0 \/ source[e.id] = 1
    BY <1>1, <1>3, <1>5, <2>1, LinesTail
  <2>3. e.id = o /\ e.kind \in Payloads
    BY <1>5, <2>2, Meaning
  <2>4. PICK x, c, z : /\ x = [op[o].out EXCEPT !.answer = e.id, !.version = e.version,
                                                !.code = PayloadCode(e.kind)]
                       /\ c = [child[t] EXCEPT !.lines = Tail(lines), !.due = due]
                       /\ z = [slot[t] EXCEPT !.served = @ + 1]
    OBVIOUS
  <2>5. x \in Outcome /\ x.answer = o /\ x.version = e.version /\ x.status = None
    <3>1. op[o].out \in Outcome /\ op[o].out.status = None
      BY <1>0, Holder DEF OpState, NoOutcome
    <3>2. PICK k \in Codes : k = PayloadCode(e.kind)
      BY <2>3 DEF PayloadCode, Payloads, Codes
    <3>3. x = [op[o].out EXCEPT !.answer = o, !.version = e.version, !.code = k]
      BY <2>3, <2>4, <3>2
    <3>4. e.version \in {0, 1}
      BY <2>2 DEF LineType
    <3>. QED
      BY <3>1, <3>2, <3>3, <3>4 DEF Outcome
  <2>6. PICK y : y = [op[o] EXCEPT !.pc = "verify", !.attempts = @ + 1, !.slot = None,
                                   !.late = FALSE, !.out = x]
    OBVIOUS
  <2>7. /\ y \in OpState /\ y.pc = "verify" /\ y.slot = None /\ y.attempts = op[o].attempts + 1
        /\ y.errors = op[o].errors /\ y.out = x
    <3>1. op[o] \in OpState /\ op[o].attempts + 1 \in Nat /\ FALSE \in BOOLEAN
      BY <1>0, Holder
    <3>. QED
      BY <2>5, <2>6, <3>1 DEF OpState
  <2>8. op' = [op EXCEPT ![o] = y]
    BY <1>0, <1>5, <2>4, <2>6, Holder
  <2>9. op' \in [Ops -> OpState] /\ op'[o] = y /\ \A p \in Ops \ {o} : op'[p] = op[p]
    BY <1>0, <2>7, <2>8, Holder
  <2>10. OutcomeOf(o, y)
    <3>1. e.version = 0 \/ source[o] = 1
      BY <2>2, <2>3, PoolAssumption
    <3>. QED
      BY <2>5, <2>7, <3>1 DEF OutcomeOf, None
  <2>11. RetriesOf(y)
    <3>1. /\ op[o].attempts + 1 \in 1 .. 2 /\ Len(op[o].errors) <= 1
          /\ Len(op[o].errors) > 0 => FirstRetried(op[o].errors)
          /\ ~(Len(op[o].errors) > 1) /\ op[o].attempts + 1 <= 2 /\ Len(op[o].errors) <= 2
      BY <1>0, Holder DEF RetriesOf
    <3>. QED
      BY <2>7, <3>1 DEF RetriesOf, Waiting, Holding
  <2>12. Pool' /\ free' \in Seq(Slots)
    BY <1>0, <1>1, <1>5, <2>7, <2>9, Holder, PoolReleased DEF IInv, Holding, Release
  <2>13. child[t].busy = None
    <3>1. child[t].busy # None =>
             child[t].busy \in Ops /\ op[child[t].busy].slot = t /\ Silent(lines, child[t].busy)
      BY <1>0, <1>1, <1>3, <2>1, Holder DEF IInv, Children, ChildState
    <3>2. child[t].busy # None => child[t].busy = o
      BY <1>0, <1>1, <3>1, Holder, PoolAssumption DEF IInv, Pool
    <3>. QED
      BY <2>2, <2>3, <3>1, <3>2
  <2>14. /\ c \in ChildState /\ c.busy = None /\ c.last = child[t].last /\ c.lines = Tail(lines)
         /\ c.opened = child[t].opened
    <3>1. due \in BOOLEAN
      BY <2>0, <2>1
    <3>. QED
      BY <1>3, <2>2, <2>4, <2>13, <3>1 DEF ChildState
  <2>15. ~c.opened
    BY <1>0, <1>1, <2>13, <2>14, Holder DEF IInv, Children
  <2>16. child' = [child EXCEPT ![t] = c]
    BY <1>0, <1>1, <2>0, <2>1, <2>4, Holder
  <2>17. \A p \in Ops \ {o} : Unknown(child[t], p) => Unknown(c, p)
    BY <2>1, <2>2, <2>13, <2>14 DEF Unknown
  <2>18. Children' /\ child' \in [Slots -> ChildState]
    <3>1. Children /\ Pool /\ op \in [Ops -> OpState] /\ child \in [Slots -> ChildState]
      BY <1>0, Holder DEF IInv
    <3>2. c \in ChildState /\ source' = source /\ (c.opened => c.busy # None) /\ Timely(c.lines)
      BY <1>5, <2>2, <2>14, <2>15 DEF world
    <3>3. c.busy # None => /\ c.busy = o /\ op'[o].pc = "read" /\ op'[o].slot = t
                           /\ c.last # o /\ Silent(c.lines, o)
      BY <2>14
    <3>4. op'[o].pc \notin Waiting /\ op'[o].pc \notin {"check", "start", "send"}
      BY <2>7, <2>9 DEF Waiting
    <3>5. \A p \in Ops \ {o} : op'[p] = op[p]
      BY <2>9
    <3>6. op'[o].pc \in {"check", "start", "send"} => op'[o].slot = t /\ Unknown(c, o)
      BY <3>4
    <3>. QED
      BY <1>0, <1>1, <2>16, <2>17, <3>1, <3>2, <3>3, <3>4, <3>5, <3>6, ChildrenHeld, Zenon
  <2>19. /\ z \in SlotState /\ z.has = slot[t].has /\ z.pending = slot[t].pending
    <3>1. slot[t] \in SlotState /\ slot[t].served < MaxRequests
      BY <1>0, <1>1, Holder DEF IInv, Sessions
    <3>2. slot[t].served + 1 \in 0 .. MaxRequests
      BY <3>1, PoolAssumption DEF SlotState
    <3>. QED
      BY <2>4, <3>1, <3>2 DEF SlotState
  <2>20. slot' \in [Slots -> SlotState] /\ slot'[t] = z /\ slot' = [slot EXCEPT ![t] = slot'[t]]
    <3>1. slot' = [slot EXCEPT ![t] = z]
      BY <1>0, <1>1, <1>5, <2>4, Holder
    <3>2. t \in Slots /\ slot \in [Slots -> SlotState] /\ z \in SlotState
      BY <1>0, <1>1, <2>19, HolderParts, Holder
    <3>. QED
      BY <3>1, <3>2
  <2>21. Sessions'
    <3>1. starts' = [starts EXCEPT ![t] = starts'[t]] /\ starts' = starts
      BY <1>0, <1>5, Holder
    <3>2. slot'[t].has \/ slot'[t].pending <=> starts'[t] # 0
      BY <1>0, <1>1, <2>19, <2>20, <3>1, Holder DEF IInv, Sessions
    <3>3. op'[o].pc \notin {"start", "send", "read"}
      BY <2>7, <2>9
    <3>. QED
      BY <1>0, <1>1, <2>9, <2>20, <3>1, <3>2, <3>3, HolderParts, SessionsChanged
  <2>22. Outcomes' /\ Retries'
    BY <1>5, <2>9, <2>10, <2>11, OneOp DEF IInv, world
  <2>23. TypeOK'
    BY <1>5, <2>9, <2>12, <2>18, <2>20, TypeOKParts, TypeOKNext DEF IInv, world
  <2>24. RestartsAreCounted'
    BY <1>5, RestartsKept DEF IInv
  <2>. QED
    BY <2>12, <2>18, <2>21, <2>22, <2>23, <2>24 DEF IInv
<1>. QED
  BY <1>1, <1>2, <1>4, <1>5 DEF Read

LEMMA VerifyKeeps ==
    ASSUME IInv, NEW o \in Ops, Verify(o)
    PROVE  IInv'
<1>1. /\ op \in [Ops -> OpState] /\ op[o] \in OpState /\ op[o].pc = "verify" /\ op[o].slot = None
      /\ child \in [Slots -> ChildState] /\ source[o] \in {0, 1}
      /\ OutcomeOf(o, op[o]) /\ RetriesOf(op[o])
  BY TypeOKParts DEF IInv, Verify, Outcomes, Retries, Pool, Holding
<1>2. op[o].out \in Outcome /\ op[o].attempts \in Nat /\ op[o].out.code \in Codes
  BY <1>1 DEF OpState, Outcome
<1>3. /\ op[o].attempts \in 1 .. 2 /\ Len(op[o].errors) <= 1 /\ op[o].errors \in Seq(Errors)
      /\ op[o].out.answer = o /\ (op[o].out.version = 0 \/ source[o] = 1)
  BY <1>1 DEF RetriesOf, OutcomeOf, OpState, Holding
<1>4. PICK code : code = VerifiedCode(o)
  OBVIOUS
<1>5. code \in Codes /\ (code = None => source[o] = 0 /\ op[o].out.code = None)
  BY <1>1, <1>2, <1>4 DEF VerifiedCode, Codes, None
<1>6. PICK y : op' = [op EXCEPT ![o] = y] /\
          \/ code # None /\ y = Finished(o, code, op[o].attempts)
          \/ code = None /\ y = [op[o] EXCEPT !.pc = "done",
                                 !.out = [op[o].out EXCEPT !.status = "success", !.backend = "parser"]]
  <2>1. CASE code # None
    BY <1>4, <2>1 DEF Verify
  <2>2. CASE code = None
    BY <1>4, <2>2 DEF Verify
  <2>. QED
    BY <2>1, <2>2
<1>7. /\ y \in OpState /\ y.slot = None /\ y.pc = "done" /\ OutcomeOf(o, y) /\ RetriesOf(y)
  <2>0. op[o].attempts # 0 /\ op[o].attempts <= 2 /\ Len(op[o].errors) <= 2
        /\ ~(Len(op[o].errors) > 1)
    BY <1>3
  <2>1. CASE code # None /\ y = Finished(o, code, op[o].attempts)
    <3>1. /\ y \in OpState /\ y.pc = "done" /\ y.slot = None /\ y.attempts = op[o].attempts
          /\ y.errors = op[o].errors /\ OutcomeOf(o, y) /\ y.out.backend # "not_parsed"
      BY <1>1, <1>2, <1>5, <2>0, <2>1, FinishedOp
    <3>. QED
      BY <2>0, <3>1 DEF RetriesOf, Waiting, Holding
  <2>2. CASE code = None /\ y = [op[o] EXCEPT !.pc = "done",
                                 !.out = [op[o].out EXCEPT !.status = "success", !.backend = "parser"]]
    <3>1. PICK z : z = [op[o].out EXCEPT !.status = "success", !.backend = "parser"]
      OBVIOUS
    <3>2. /\ z \in Outcome /\ z.status = "success" /\ z.backend = "parser"
          /\ z.answer = op[o].out.answer /\ z.version = op[o].out.version /\ z.code = op[o].out.code
      BY <1>2, <3>1 DEF Outcome
    <3>3. y = [op[o] EXCEPT !.pc = "done", !.out = z]
      BY <2>2, <3>1
    <3>4. /\ y \in OpState /\ y.pc = "done" /\ y.slot = None /\ y.attempts = op[o].attempts
          /\ y.errors = op[o].errors /\ y.out = z
      BY <1>1, <3>2, <3>3 DEF OpState
    <3>5. z.answer = o /\ z.version = 0 /\ z.code = None
      BY <1>3, <1>5, <2>2, <3>2
    <3>6. OutcomeOf(o, y)
      BY <3>4, <3>5 DEF OutcomeOf
    <3>7. RetriesOf(y)
      BY <2>0, <3>2, <3>4 DEF RetriesOf, Waiting, Holding
    <3>. QED
      BY <3>4, <3>6, <3>7
  <2>. QED
    BY <1>6, <2>1, <2>2
<1>8. op' \in [Ops -> OpState] /\ op'[o] = y /\ \A p \in Ops \ {o} : op'[p] = op[p]
  BY <1>1, <1>6, <1>7
<1>9. TypeOK'
  BY <1>8, TypeOKParts, TypeOKNext DEF IInv, Verify, world
<1>10. Pool'
  BY <1>1, <1>7, <1>8, PoolKept DEF IInv, Verify, Holding
<1>11. Sessions'
  BY <1>7, <1>8, SessionsKept DEF IInv, Verify
<1>12. Children'
  BY <1>1, <1>7, <1>8, ChildrenKept DEF IInv, Verify, world, Waiting
<1>13. Outcomes' /\ Retries'
  BY <1>7, <1>8, OneOp DEF IInv, Verify, world
<1>14. RestartsAreCounted'
  BY RestartsKept DEF IInv, Verify
<1>. QED
  BY <1>9, <1>10, <1>11, <1>12, <1>13, <1>14 DEF IInv

---------------------------------------------------------------------------
(* The environment.                                                         *)

LEMMA ExpireKeeps ==
    ASSUME IInv, NEW o \in Ops, Expire(o)
    PROVE  IInv'
<1>1. /\ op \in [Ops -> OpState] /\ op[o] \in OpState
      /\ child \in [Slots -> ChildState] /\ OutcomeOf(o, op[o]) /\ RetriesOf(op[o])
  BY TypeOKParts DEF IInv, Outcomes, Retries
<1>2. PICK y : y = [op[o] EXCEPT !.late = TRUE]
  OBVIOUS
<1>3. op' = [op EXCEPT ![o] = y]
  BY <1>2 DEF Expire
<1>4. /\ y \in OpState /\ y.slot = op[o].slot /\ y.pc = op[o].pc
      /\ y.attempts = op[o].attempts /\ y.errors = op[o].errors /\ y.out = op[o].out
  <2>1. TRUE \in BOOLEAN
    OBVIOUS
  <2>. QED
    BY <1>1, <1>2, <2>1 DEF OpState
<1>5. OutcomeOf(o, y) /\ RetriesOf(y)
  BY <1>1, <1>4 DEF OutcomeOf, RetriesOf
<1>6. op' \in [Ops -> OpState] /\ op'[o] = y /\ \A p \in Ops \ {o} : op'[p] = op[p]
  BY <1>1, <1>3, <1>4
<1>7. TypeOK'
  BY <1>6, TypeOKParts, TypeOKNext DEF IInv, Expire, world
<1>8. Pool'
  BY <1>4, <1>6, PoolKept DEF IInv, Expire
<1>9. Sessions'
  BY <1>4, <1>6, SessionsKept DEF IInv, Expire
<1>10. Children'
  BY <1>1, <1>4, <1>6, ChildrenKept DEF IInv, Expire, world
<1>11. Outcomes' /\ Retries'
  BY <1>5, <1>6, OneOp DEF IInv, Expire, world
<1>12. RestartsAreCounted'
  BY RestartsKept DEF IInv, Expire
<1>. QED
  BY <1>7, <1>8, <1>9, <1>10, <1>11, <1>12 DEF IInv

(* A file only ever changes from the version that discovery saw.            *)
LEMMA ChangeSourceKeeps ==
    ASSUME IInv, NEW o \in Ops, ChangeSource(o)
    PROVE  IInv'
<1>1. /\ op \in [Ops -> OpState] /\ child \in [Slots -> ChildState]
      /\ source \in [Ops -> {0, 1}]
  BY TypeOKParts DEF IInv
<1>2. /\ source' \in [Ops -> {0, 1}]
      /\ \A p \in Ops : source[p] = 1 => source'[p] = 1
  BY <1>1 DEF ChangeSource
<1>3. op' = op /\ slot' = slot /\ child' = child /\ free' = free /\ starts' = starts
      /\ restarts' = restarts /\ build' = build /\ frozen' = frozen /\ faults' = faults
  BY DEF ChangeSource
<1>4. TypeOK'
  BY <1>2, <1>3, TypeOKParts, TypeOKNext DEF IInv
<1>5. Pool' /\ Sessions' /\ RestartsAreCounted' /\ Retries'
  BY <1>3 DEF IInv, Pool, Sessions, RestartsAreCounted, Retries
<1>6. Outcomes'
  <2>1. \A p \in Ops : OutcomeOf(p, op[p]) => OutcomeOf(p, op[p])'
    BY <1>2, <1>3 DEF OutcomeOf
  <2>. QED
    BY <2>1 DEF IInv, Outcomes
<1>7. Children'
  <2>1. \A s \in Slots : Timely(child[s].lines)'
    <3>1. ASSUME NEW s \in Slots
          PROVE  Timely(child[s].lines)'
      <4>1. PICK lines \in Seq(LineType) : lines = child[s].lines
        BY <1>1 DEF ChildState
      <4>2. \A i \in 1 .. Len(lines) : lines[i] \in LineType
        OBVIOUS
      <4>3. \A i \in 1 .. Len(lines) : lines[i].id # None => lines[i].id \in Ops
        BY <4>2 DEF LineType
      <4>4. \A i \in 1 .. Len(lines) :
               lines[i].id # None => lines[i].version = 0 \/ source[lines[i].id] = 1
        BY <4>1 DEF IInv, Children, Timely
      <4>5. \A i \in 1 .. Len(lines) :
               lines[i].id # None => lines[i].version = 0 \/ source'[lines[i].id] = 1
        BY <1>2, <4>3, <4>4
      <4>. QED
        BY <1>3, <4>1, <4>5 DEF Timely
    <3>. QED
      BY <3>1
  <2>. QED
    BY <1>3, <2>1 DEF IInv, Children
<1>. QED
  BY <1>4, <1>5, <1>6, <1>7 DEF IInv

(* A child acts by itself.                                                  *)
LEMMA ChildKeeps ==
    ASSUME IInv, UNCHANGED <<op, slot, free, build, frozen, source, starts, restarts>>,
           faults' \in 0 .. MaxFaults, Children', child' \in [Slots -> ChildState]
    PROVE  IInv'
<1>1. TypeOK'
  BY TypeOKParts, TypeOKNext DEF IInv
<1>2. Pool' /\ Sessions' /\ RestartsAreCounted' /\ Retries'
  BY DEF IInv, Pool, Sessions, RestartsAreCounted, Retries
<1>3. Outcomes'
  BY DEF IInv, Outcomes, OutcomeOf
<1>. QED
  BY <1>1, <1>2, <1>3 DEF IInv

(* What a child says is about its request, or about nobody.                 *)
LEMMA LineOf ==
    ASSUME TypeOK, NEW kind \in Kinds, NEW o \in Ops \cup {None}
    PROVE  /\ Line(kind, o) \in LineType /\ Line(kind, o).id = o
           /\ Line(kind, o).id # None => Line(kind, o).version = 0 \/ source[o] = 1
<1>1. PICK v : v = IF o = None THEN 0 ELSE source[o]
  OBVIOUS
<1>2. v \in {0, 1} /\ (o # None => v = 0 \/ source[o] = 1)
  BY <1>1, TypeOKParts
<1>3. Line(kind, o) = [kind |-> kind, id |-> o, version |-> v]
  BY <1>1 DEF Line
<1>. QED
  BY <1>2, <1>3 DEF LineType

(* The child s ends its request with a line.                                *)
LEMMA SaysKeeps ==
    ASSUME IInv, NEW s \in Slots, NEW kind \in Kinds, child[s].busy # None, Says(s, kind),
           op' = op, source' = source
    PROVE  Children' /\ child' \in [Slots -> ChildState]
<1>1. PICK b, e, lines : b = child[s].busy /\ e = Line(kind, b) /\ lines = child[s].lines
  OBVIOUS
<1>2. /\ op \in [Ops -> OpState] /\ child \in [Slots -> ChildState] /\ child[s] \in ChildState
      /\ b \in Ops /\ b # None /\ lines \in Seq(LineType) /\ Children /\ Timely(lines)
  BY <1>1, TypeOKParts DEF IInv, Children, ChildState
<1>3. e \in LineType /\ e.id = b /\ (e.id # None => e.version = 0 \/ source[e.id] = 1)
  BY <1>1, <1>2, LineOf DEF IInv
<1>4. PICK more : more = Append(lines, e)
  OBVIOUS
<1>5. /\ more \in Seq(LineType) /\ Timely(more)
      /\ \A o : Silent(lines, o) /\ e.id # o => Silent(more, o)
  BY <1>2, <1>3, <1>4, LinesAppend
<1>6. PICK c : c = [child[s] EXCEPT !.lines = more, !.busy = None, !.opened = FALSE, !.last = b]
  OBVIOUS
<1>7. child' = [child EXCEPT ![s] = c]
  <2>1. child' = [child EXCEPT ![s] = [child[s] EXCEPT !.lines = Append(child[s].lines, Line(kind, child[s].busy)),
                                     !.busy = None, !.opened = FALSE, !.last = child[s].busy]]
    BY DEF Says
  <2>. QED
    BY <1>1, <1>4, <1>6, <2>1, Zenon
<1>8. c \in ChildState /\ c.busy = None /\ ~c.opened /\ c.last = b /\ c.lines = more
  <2>1. FALSE \in BOOLEAN
    OBVIOUS
  <2>. QED
    BY <1>2, <1>5, <1>6, <2>1 DEF ChildState
<1>9. \A p \in Ops : Unknown(child[s], p) => Unknown(c, p)
  <2>1. \A p \in Ops : p # None
    BY PoolAssumption
  <2>. QED
    BY <1>1, <1>3, <1>5, <1>8, <2>1 DEF Unknown
<1>10. (c.opened => c.busy # None) /\ Timely(c.lines)
       /\ (c.busy # None => c.busy = child[s].busy /\ c.last # c.busy /\ Silent(c.lines, c.busy))
  BY <1>5, <1>8
<1>. QED
  BY <1>2, <1>7, <1>8, <1>9, <1>10, ChildrenAct

LEMMA FailureKind ==
    ASSUME NEW o, NEW kind \in Kinds
    PROVE  Failure(o, kind) \in Kinds
BY DEF Failure, Kinds

LEMMA OpenKeeps ==
    ASSUME IInv, NEW s \in Slots, Open(s)
    PROVE  IInv'
<1>1. faults' \in 0 .. MaxFaults
  BY TypeOKParts DEF IInv, Open, world
<1>2. CASE source[child[s].busy] = 0
  <2>1. PICK c : c = [child[s] EXCEPT !.opened = TRUE]
    OBVIOUS
  <2>2. op \in [Ops -> OpState] /\ child \in [Slots -> ChildState] /\ child[s] \in ChildState
    BY TypeOKParts DEF IInv
  <2>3. c \in ChildState /\ c.busy = child[s].busy /\ c.last = child[s].last
        /\ c.lines = child[s].lines
    <3>1. TRUE \in BOOLEAN
      OBVIOUS
    <3>. QED
      BY <2>1, <2>2, <3>1 DEF ChildState
  <2>4. child' = [child EXCEPT ![s] = c]
    BY <1>2, <2>1 DEF Open
  <2>5. Children' /\ child' \in [Slots -> ChildState]
    <3>1. \A p \in Ops : Unknown(child[s], p) => Unknown(c, p)
      BY <2>3 DEF Unknown
    <3>2. (c.opened => c.busy # None) /\ Timely(c.lines)
          /\ (c.busy # None => c.busy = child[s].busy /\ c.last # c.busy /\ Silent(c.lines, c.busy))
      BY <2>3 DEF IInv, Children, Open
    <3>3. Children /\ source' = source /\ op' = op
      BY DEF IInv, Open, world
    <3>. QED
      BY <2>2, <2>3, <2>4, <3>1, <3>2, <3>3, ChildrenAct
  <2>. QED
    BY <1>1, <2>5, ChildKeeps DEF Open, world
<1>3. CASE source[child[s].busy] # 0
  <2>1. PICK kind \in Kinds : Says(s, kind)
    BY <1>3, FailureKind DEF Open, Kinds
  <2>2. Children' /\ child' \in [Slots -> ChildState]
    BY <2>1, SaysKeeps DEF Open, world
  <2>. QED
    BY <1>1, <2>2, ChildKeeps DEF Open, world
<1>. QED
  BY <1>2, <1>3

LEMMA AnswerKeeps ==
    ASSUME IInv, NEW s \in Slots, Answer(s)
    PROVE  IInv'
<1>1. faults' \in 0 .. MaxFaults
  BY TypeOKParts, PoolAssumption DEF IInv, Answer, Fault
<1>2. child[s].busy # None
  BY DEF IInv, Children, Answer
<1>3. PICK kind \in Kinds : Says(s, kind)
  <2>1. {"ok", "changed", "rejected", "refused"} \subseteq Kinds
    BY DEF Kinds
  <2>. QED
    BY <2>1, FailureKind DEF Answer
<1>4. Children' /\ child' \in [Slots -> ChildState]
  BY <1>2, <1>3, SaysKeeps DEF Answer
<1>. QED
  BY <1>1, <1>4, ChildKeeps DEF Answer

LEMMA MisbehaveKeeps ==
    ASSUME IInv, NEW s \in Slots, Misbehave(s)
    PROVE  IInv'
<1>1. faults' \in 0 .. MaxFaults
  BY TypeOKParts, PoolAssumption DEF IInv, Misbehave, Fault
<1>2. SUFFICES Children' /\ child' \in [Slots -> ChildState]
  BY <1>1, ChildKeeps DEF Misbehave
<1>3. CASE child[s].busy # None /\ \E kind \in {"bad", "wrong"} : Says(s, kind)
  BY <1>3, SaysKeeps DEF Misbehave, Kinds
<1>4. /\ op \in [Ops -> OpState] /\ child \in [Slots -> ChildState] /\ child[s] \in ChildState
      /\ Children /\ source' = source /\ op' = op
  BY TypeOKParts DEF IInv, Misbehave
<1>5. PICK b, lines : b = child[s].busy /\ lines = child[s].lines
  OBVIOUS
<1>6. /\ lines \in Seq(LineType) /\ Timely(lines)
      /\ b # None => b \in Ops /\ child[s].last # b /\ Silent(lines, b)
      /\ child[s].opened => b # None
  BY <1>4, <1>5 DEF Children, ChildState
<1>7. TRUE \in BOOLEAN /\ FALSE \in BOOLEAN
  OBVIOUS
<1>8. CASE child[s].last # None /\
           child' = [child EXCEPT ![s].lines = Append(@, Line("ok", child[s].last))]
  <2>1. PICK e, more, c : /\ e = Line("ok", child[s].last) /\ more = Append(lines, e)
                          /\ c = [child[s] EXCEPT !.lines = more]
    OBVIOUS
  <2>2. child[s].last \in Ops
    BY <1>4, <1>8 DEF ChildState
  <2>3. e \in LineType /\ e.id = child[s].last /\ (e.id # None => e.version = 0 \/ source[e.id] = 1)
    BY <2>1, <2>2, LineOf DEF IInv, Kinds
  <2>4. /\ more \in Seq(LineType) /\ Timely(more)
        /\ \A o : Silent(lines, o) /\ e.id # o => Silent(more, o)
    BY <1>6, <2>1, <2>3, LinesAppend
  <2>5. /\ c \in ChildState /\ c.busy = b /\ c.opened = child[s].opened /\ c.last = child[s].last
        /\ c.lines = more
    BY <1>4, <1>5, <2>1, <2>4 DEF ChildState
  <2>6. child' = [child EXCEPT ![s] = c]
    BY <1>4, <1>5, <1>8, <2>1
  <2>7. \A p \in Ops : Unknown(child[s], p) => Unknown(c, p)
    BY <1>5, <2>3, <2>4, <2>5 DEF Unknown
  <2>8. (c.opened => c.busy # None) /\ Timely(c.lines)
        /\ (c.busy # None => c.busy = child[s].busy /\ c.last # c.busy /\ Silent(c.lines, c.busy))
    BY <1>5, <1>6, <2>3, <2>4, <2>5
  <2>. QED
    BY <1>4, <2>5, <2>6, <2>7, <2>8, ChildrenAct
<1>10. ASSUME NEW kind \in {"eof", "flood"}, NEW c, NEW more, more = Append(lines, Line(kind, None)),
              \/ c = [child[s] EXCEPT !.lines = more, !.up = FALSE, !.busy = None, !.opened = FALSE]
              \/ c = [child[s] EXCEPT !.lines = more, !.flooded = TRUE],
              child' = [child EXCEPT ![s] = c]
       PROVE  Children' /\ child' \in [Slots -> ChildState]
  <2>1. PICK f : f = Line(kind, None)
    OBVIOUS
  <2>2. f \in LineType /\ f.id = None
    BY <2>1, LineOf DEF IInv, Kinds
  <2>3. /\ more \in Seq(LineType) /\ Timely(more)
        /\ \A o : Silent(lines, o) /\ f.id # o => Silent(more, o)
    BY <1>6, <1>10, <2>1, <2>2, LinesAppend
  <2>4. /\ c \in ChildState /\ c.last = child[s].last /\ c.lines = more
        /\ \/ c.busy = None /\ ~c.opened
           \/ c.busy = b /\ c.opened = child[s].opened
    <3>1. CASE c = [child[s] EXCEPT !.lines = more, !.up = FALSE, !.busy = None, !.opened = FALSE]
      BY <1>4, <1>7, <2>3, <3>1 DEF ChildState
    <3>2. CASE c = [child[s] EXCEPT !.lines = more, !.flooded = TRUE]
      BY <1>4, <1>5, <1>7, <2>3, <3>2 DEF ChildState
    <3>. QED
      BY <1>10, <3>1, <3>2
  <2>5. \A p \in Ops : p # None
    BY PoolAssumption
  <2>6. \A p \in Ops : Unknown(child[s], p) => Unknown(c, p)
    BY <1>5, <2>2, <2>3, <2>4, <2>5 DEF Unknown
  <2>7. (c.opened => c.busy # None) /\ Timely(c.lines)
        /\ (c.busy # None => c.busy = child[s].busy /\ c.last # c.busy /\ Silent(c.lines, c.busy))
    BY <1>5, <1>6, <2>2, <2>3, <2>4, <2>5
  <2>. QED
    BY <1>4, <1>10, <2>4, <2>6, <2>7, ChildrenAct
<1>11. CASE child' = [child EXCEPT ![s] = [@ EXCEPT !.lines = Append(child[s].lines, Line("eof", None)),
                                              !.up = FALSE, !.busy = None, !.opened = FALSE]]
  <2>1. child' = [child EXCEPT ![s] = [child[s] EXCEPT !.lines = Append(child[s].lines, Line("eof", None)),
                                              !.up = FALSE, !.busy = None, !.opened = FALSE]]
    BY <1>11
  <2>. QED
    BY <1>5, <1>10, <2>1, Zenon
<1>12. CASE child' = [child EXCEPT ![s] = [@ EXCEPT !.lines = Append(child[s].lines, Line("flood", None)),
                                              !.flooded = TRUE]]
  <2>1. child' = [child EXCEPT ![s] = [child[s] EXCEPT !.lines = Append(child[s].lines, Line("flood", None)),
                                              !.flooded = TRUE]]
    BY <1>12
  <2>. QED
    BY <1>5, <1>10, <2>1, Zenon
<1>13. CASE child' = [child EXCEPT ![s].due = TRUE]
  <2>1. PICK c : c = [child[s] EXCEPT !.due = TRUE]
    OBVIOUS
  <2>2. /\ c \in ChildState /\ c.busy = b /\ c.opened = child[s].opened /\ c.last = child[s].last
        /\ c.lines = lines
    BY <1>4, <1>5, <1>7, <2>1 DEF ChildState
  <2>3. child' = [child EXCEPT ![s] = c]
    BY <1>4, <1>13, <2>1
  <2>4. \A p \in Ops : Unknown(child[s], p) => Unknown(c, p)
    BY <1>5, <2>2 DEF Unknown
  <2>5. (c.opened => c.busy # None) /\ Timely(c.lines)
        /\ (c.busy # None => c.busy = child[s].busy /\ c.last # c.busy /\ Silent(c.lines, c.busy))
    BY <1>5, <1>6, <2>2
  <2>. QED
    BY <1>4, <2>2, <2>3, <2>4, <2>5, ChildrenAct
<1>. QED
  BY <1>3, <1>8, <1>11, <1>12, <1>13 DEF Misbehave

(* Everything but the binary, the preflight and the faults stays.           *)
LEMMA StutterKeeps ==
    ASSUME IInv, UNCHANGED <<op, slot, child, free, source, starts, restarts>>,
           build' \in {"old", "new"}, frozen' \in {None, "failed", "old", "new"},
           faults' \in 0 .. MaxFaults
    PROVE  IInv'
<1>1. TypeOK'
  BY TypeOKParts, TypeOKNext DEF IInv
<1>2. Pool' /\ Sessions' /\ RestartsAreCounted' /\ Retries'
  BY DEF IInv, Pool, Sessions, RestartsAreCounted, Retries
<1>3. Outcomes'
  BY DEF IInv, Outcomes, OutcomeOf
<1>4. Children'
  <2>1. \A s \in Slots : Timely(child[s].lines)' <=> Timely(child[s].lines)
    BY DEF Timely
  <2>. QED
    BY <2>1 DEF IInv, Children
<1>. QED
  BY <1>1, <1>2, <1>3, <1>4 DEF IInv

---------------------------------------------------------------------------
(* SetToSeq lists every slot once.                                          *)
LEMMA FreeAtFirst ==
    ASSUME NEW f, f = SetToSeq(Slots)
    PROVE  /\ f \in Seq(Slots)
           /\ \A i, j \in DOMAIN f : f[i] = f[j] => i = j
           /\ \A s \in Slots : \E i \in DOMAIN f : f[i] = s
<1>1. PICK n \in Nat : n = Cardinality(Slots) /\ ExistsBijection(1 .. n, Slots)
  BY PoolAssumption, FS_CardinalityType
<1>2. \E g \in [1 .. n -> Slots] : IsInjective(g)
  BY <1>1 DEF ExistsBijection, Bijection, Injection
<1>3. f \in [1 .. n -> Slots] /\ IsInjective(f)
  BY <1>1, <1>2 DEF SetToSeq
<1>4. f \in Seq(Slots) /\ DOMAIN f = 1 .. n
  BY <1>3
<1>5. f \in Injection(1 .. n, Slots)
  BY <1>3 DEF Injection
<1>6. IsFiniteSet(1 .. n) /\ Cardinality(1 .. n) = n
  <2>1. n \in Int /\ 1 \in Int /\ (IF 1 > n THEN 0 ELSE n - 1 + 1) = n
    OBVIOUS
  <2>. QED
    BY <2>1, FS_Interval
<1>7. f \in Surjection(1 .. n, Slots)
  BY <1>1, <1>5, <1>6, PoolAssumption, FS_Injection
<1>8. \A s \in Slots : \E i \in 1 .. n : f[i] = s
  BY <1>7 DEF Surjection
<1>. QED
  BY <1>3, <1>4, <1>8 DEF IsInjective

LEMMA InitIInv ==
    ASSUME Init
    PROVE  IInv
<1>1. PICK plan \in Plans :
         op = [o \in Ops |-> [kind |-> plan[o], pc |-> "idle", slot |-> None, attempts |-> 0,
                              errors |-> <<>>, late |-> FALSE, out |-> NoOutcome]]
  BY DEF Init
<1>2. /\ slot = [s \in Slots |-> [has |-> FALSE, pending |-> FALSE, served |-> 0]]
      /\ child = [s \in Slots |-> NoChild] /\ free = SetToSeq(Slots)
      /\ build = "old" /\ frozen = None /\ source = [o \in Ops |-> 0]
      /\ starts = [s \in Slots |-> 0] /\ restarts = 0 /\ faults = 0
  BY DEF Init
<1>3. FALSE \in BOOLEAN /\ 0 \in 0 .. MaxRequests /\ 0 \in 0 .. MaxFaults /\ <<>> \in Seq(Errors)
  BY PoolAssumption
<1>4. NoOutcome \in Outcome /\ NoOutcome.status = None
  BY DEF NoOutcome, Outcome, None, Codes
<1>5. \A o \in Ops : plan[o] \in {"classify", "parse", "light"}
  BY PoolAssumption
<1>6. ASSUME NEW o \in Ops
      PROVE  /\ op[o] \in OpState /\ op[o].pc = "idle" /\ op[o].slot = None /\ op[o].attempts = 0
             /\ op[o].errors = <<>> /\ op[o].out = NoOutcome
  <2>1. PICK k \in {"classify", "parse", "light"} : k = plan[o]
    BY <1>5
  <2>2. op[o] = [kind |-> k, pc |-> "idle", slot |-> None, attempts |-> 0,
                 errors |-> <<>>, late |-> FALSE, out |-> NoOutcome]
    BY <1>1, <2>1
  <2>. QED
    BY <1>3, <1>4, <2>2 DEF OpState
<1>7. op \in [Ops -> OpState]
  BY <1>1, <1>6
<1>8. slot \in [Slots -> SlotState] /\ \A s \in Slots : ~slot[s].has /\ ~slot[s].pending
  <2>1. PICK z : z = [has |-> FALSE, pending |-> FALSE, served |-> 0]
    OBVIOUS
  <2>2. z \in SlotState /\ ~z.has /\ ~z.pending
    BY <1>3, <2>1 DEF SlotState
  <2>3. slot = [s \in Slots |-> z]
    BY <1>2, <2>1
  <2>. QED
    BY <2>2, <2>3
<1>9. child \in [Slots -> ChildState] /\ \A s \in Slots : child[s] = NoChild
  BY <1>2, NoChildKnows
<1>10. /\ free \in Seq(Slots)
       /\ \A i, j \in DOMAIN free : free[i] = free[j] => i = j
       /\ \A s \in Slots : \E i \in DOMAIN free : free[i] = s
  BY <1>2, FreeAtFirst
<1>11. TypeOK
  BY <1>2, <1>3, <1>7, <1>8, <1>9, <1>10, TypeOKParts
<1>12. Pool
  <2>1. \A i \in DOMAIN free : free[i] # None
    BY <1>10, PoolAssumption
  <2>. QED
    BY <1>6, <1>10, <2>1 DEF Pool, Holding
<1>13. Sessions
  BY <1>2, <1>6, <1>8 DEF Sessions
<1>14. Children
  BY <1>6, <1>9, NoChildKnows DEF Children, Waiting
<1>15. Outcomes
  <2>1. NoOutcome.status # "success"
    BY <1>4 DEF None
  <2>. QED
    BY <1>6, <2>1 DEF Outcomes, OutcomeOf
<1>16. Retries
  BY <1>6 DEF Retries, RetriesOf, Waiting, Holding
<1>17. RestartsAreCounted
  BY <1>2, RestartsNone
<1>. QED
  BY <1>11, <1>12, <1>13, <1>14, <1>15, <1>16, <1>17 DEF IInv

LEMMA Inductive ==
    ASSUME IInv, [Next]_vars
    PROVE  IInv'
<1>0. /\ build \in {"old", "new"} /\ frozen \in {None, "failed", "old", "new"}
      /\ faults \in 0 .. MaxFaults /\ (Fault => faults' \in 0 .. MaxFaults)
  BY TypeOKParts, PoolAssumption DEF IInv, Fault
<1>1. CASE Preflight
  BY <1>0, <1>1, StutterKeeps DEF Preflight
<1>2. CASE PreflightFails
  BY <1>0, <1>2, StutterKeeps DEF PreflightFails
<1>3. CASE ReplaceBinary
  BY <1>0, <1>3, StutterKeeps DEF ReplaceBinary
<1>4. CASE UNCHANGED vars
  BY <1>0, <1>4, StutterKeeps DEF vars
<1>5. ASSUME NEW o \in Ops, Run(o)
      PROVE  IInv'
  BY <1>5, BeginKeeps, ReadLightKeeps, CheckoutKeeps, CheckKeeps, StartKeeps, SendKeeps, ReadKeeps,
     VerifyKeeps DEF Run
<1>6. ASSUME NEW o \in Ops, Expire(o) \/ ChangeSource(o)
      PROVE  IInv'
  BY <1>6, ExpireKeeps, ChangeSourceKeeps
<1>7. ASSUME NEW s \in Slots, Open(s) \/ Answer(s) \/ Misbehave(s)
      PROVE  IInv'
  BY <1>7, OpenKeeps, AnswerKeeps, MisbehaveKeeps
<1>. QED
  BY <1>1, <1>2, <1>3, <1>4, <1>5, <1>6, <1>7 DEF Next, Done

LEMMA Invariance == Spec => []IInv
<1>1. Init => IInv
  BY InitIInv
<1>2. IInv /\ [Next]_vars => IInv'
  BY Inductive
<1>. QED
  BY <1>1, <1>2, PTL DEF Spec

---------------------------------------------------------------------------
(* Whatever the workers write, repeat or leave out, and whenever files and   *)
(* the binary change, an operation that succeeds has the answer to its own  *)
(* request, of the version that discovery saw (execute_operation,           *)
(* parse_response, the checks after the answer).                            *)
THEOREM AnswersAreOwn == Spec => []OwnAnswer
<1>1. IInv => OwnAnswer
  BY DEF IInv, Outcomes, OutcomeOf, OwnAnswer
<1>. QED
  BY <1>1, Invariance, PTL

(* No operation is sent to more than two sessions, and a timeout, a final   *)
(* refusal or a changed file is never retried (retry_action).               *)
THEOREM RetriesAreBounded == Spec => []RetriedOnce
<1>1. ASSUME IInv
      PROVE  RetriedOnce
  <2>1. SUFFICES ASSUME NEW o \in Ops
                 PROVE  /\ op[o].attempts <= 2 /\ Len(op[o].errors) <= 2
                        /\ Len(op[o].errors) = 2 =>
                              op[o].errors[1] \notin {"timeout", "refused", "changed"}
                        /\ op[o].pc = "done" => (op[o].attempts = 0) = (op[o].out.backend = "not_parsed")
    BY DEF RetriedOnce
  <2>2. RetriesOf(op[o])
    BY <1>1 DEF IInv, Retries
  <2>3. Len(op[o].errors) = 2 => Len(op[o].errors) > 1
    OBVIOUS
  <2>4. /\ op[o].attempts <= 2 /\ Len(op[o].errors) <= 2
        /\ Len(op[o].errors) > 1 => FirstRetried(op[o].errors)
        /\ op[o].pc = "done" => (op[o].attempts = 0 <=> op[o].out.backend = "not_parsed")
    BY <2>2 DEF RetriesOf
  <2>5. Len(op[o].errors) = 2 => op[o].errors[1] \notin {"timeout", "refused", "changed"}
    BY <2>3, <2>4, Zenon DEF FirstRetried
  <2>. QED
    BY <2>4, <2>5
<1>. QED
  BY <1>1, Invariance, PTL

(* A slot is free once or held by one operation.                            *)
LEMMA PoolConserves ==
    ASSUME TypeOK, Pool
    PROVE  SlotsAreConserved
<1>. SUFFICES ASSUME NEW s \in Slots
              PROVE  Cardinality({i \in DOMAIN free : free[i] = s})
                     + Cardinality({o \in Ops : op[o].slot = s}) = 1
  BY DEF SlotsAreConserved
<1>1. PICK F, H : F = {i \in DOMAIN free : free[i] = s} /\ H = {o \in Ops : op[o].slot = s}
  OBVIOUS
<1>2. s # None
  BY PoolAssumption
<1>3. CASE \E i \in DOMAIN free : free[i] = s
  <2>1. PICK i : F = {i}
    BY <1>1, <1>3 DEF Pool
  <2>2. H = {}
    BY <1>1, <1>3 DEF Pool
  <2>3. Cardinality(F) = 1 /\ Cardinality(H) = 0
    BY <2>1, <2>2, FS_Singleton, FS_EmptySet, Zenon
  <2>. QED
    BY <1>1, <2>3
<1>4. CASE ~\E i \in DOMAIN free : free[i] = s
  <2>1. F = {}
    BY <1>1, <1>4
  <2>2. PICK o : H = {o}
    <3>1. PICK o \in Ops : op[o].slot = s
      BY <1>4 DEF Pool
    <3>2. \A p \in Ops : op[p].slot = s => p = o
      BY <1>2, <3>1 DEF Pool
    <3>. QED
      BY <1>1, <3>1, <3>2
  <2>3. Cardinality(F) = 0 /\ Cardinality(H) = 1
    BY <2>1, <2>2, FS_Singleton, FS_EmptySet, Zenon
  <2>. QED
    BY <1>1, <2>3
<1>. QED
  BY <1>3, <1>4

(* For any number of slots and operations: no slot is lost or shared on any *)
(* way out of an operation, no child works for one that has left, restarts  *)
(* are counted exactly, and no session serves more requests than it may     *)
(* (WorkerPool, SlotPermit::drop, execute_operation).                       *)
THEOREM PoolStaysSound == Spec => []PoolIsSound
<1>1. IInv => PoolIsSound
  BY PoolConserves DEF IInv, Children, NobodyWorksForTheGone, PoolIsSound
<1>. QED
  BY <1>1, Invariance, PTL

=============================================================================
