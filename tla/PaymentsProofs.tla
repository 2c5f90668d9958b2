--------------------------- MODULE PaymentsProofs ---------------------------
(***************************************************************************)
(* Proofs about module Payments, for any number of slots and any bounds,   *)
(* in three parts.                                                         *)
(*                                                                         *)
(* Evidence: MoneyHasEvidence holds of every behaviour.  It is not         *)
(* inductive: the columns of the order are also written from copies that   *)
(* slots hold, and by refunds that are under way.  The inductive invariant *)
(* says of each of these that there is evidence already.                   *)
(*                                                                         *)
(* Books: types, one row per transaction of the provider, no event marked  *)
(* that is not in the books, no refund without an answer of the provider.  *)
(*                                                                         *)
(* Promise: the tables implement PaymentLedger.  The invariant says, on    *)
(* top of that of the second part, where every stored event came from and  *)
(* that what a confirmation writes last was said by an event it stored.    *)
(***************************************************************************)
EXTENDS Payments, SequenceTheorems, TLAPS

\* There is a payment row, or the order was marked as paid by hand.
Evidence == payments # <<>> \/ manual

\* A row, or a copy of it, that shows a payment.
ShowsMoney(row) == row.pay # "UNPAID" \/ row.status = "PENDING_HOST_CONFIRM"

\* A task that is about to write what only a payment justifies.
NeedsEvidence(t) ==
  \/ t.pc = "write" /\ (t.op = "close" \/ ShowsMoney(t.seen))
  \/ t.pc \in {"update", "order"}
  \/ t.pc = "commit" /\ t.ev.type = "refunded"

\* The values have the shapes that updates of one field or element rely on.
Fields == {"op", "pc", "ev", "row", "to", "id", "hit", "seen", "todo"}

IsTask(t) == t = [f \in Fields |-> t[f]]

IsRow(row) == row = [status |-> row.status, pay |-> row.pay]

IsList(list) == \E S : list \in Seq(S)

Shapes ==
  /\ slot = [s \in Slots |-> slot[s]]
  /\ \A s \in Slots : IsTask(slot[s])
  /\ IsRow(order)
  /\ IsList(payments) /\ IsList(refunds)

Backed ==
  /\ ShowsMoney(order) => Evidence
  /\ refunds # <<>> => Evidence
  /\ \A s \in Slots : NeedsEvidence(slot[s]) => Evidence

EvidenceInv == Shapes /\ Backed

(***************************************************************************)
(* Lists.                                                                  *)
(***************************************************************************)
\* Appending makes a list that is not empty.
LEMMA AppendIsList ==
  ASSUME NEW list, NEW x, IsList(list)
  PROVE  IsList(Append(list, x)) /\ Append(list, x) # <<>>
<1>1. PICK S : list \in Seq(S)
  BY DEF IsList
<1>2. list \in Seq(S \union {x}) /\ x \in S \union {x}
  BY <1>1
<1>3. Append(list, x) \in Seq(S \union {x}) /\ Len(Append(list, x)) = Len(list) + 1
  BY <1>2
<1>4. Len(list) \in Nat /\ Len(<<>>) = 0
  BY <1>1
<1> QED
  BY <1>3, <1>4 DEF IsList

\* A list with an element is not empty.
LEMMA HasElement ==
  ASSUME NEW list, NEW i \in DOMAIN list
  PROVE  list # <<>>
OBVIOUS

\* Replacing an element keeps a list a list, and an empty one empty.
LEMMA ReplaceIsList ==
  ASSUME NEW list, NEW i, NEW x, IsList(list)
  PROVE  /\ IsList([list EXCEPT ![i] = x])
         /\ [list EXCEPT ![i] = x] # <<>> => list # <<>>
<1>1. PICK S : list \in Seq(S)
  BY DEF IsList
<1> DEFINE new == [list EXCEPT ![i] = x]
<1>2. Len(list) \in Nat /\ list \in [1 .. Len(list) -> S]
  BY <1>1
<1>3. new \in [1 .. Len(list) -> S \union {x}]
  BY <1>2
<1>4. new \in Seq(S \union {x}) /\ Len(new) = Len(list)
  BY <1>2, <1>3
<1>5. list = <<>> => new = <<>>
  BY <1>4
<1> QED
  BY <1>4, <1>5 DEF IsList

(***************************************************************************)
(* Tasks.                                                                  *)
(***************************************************************************)
IsFresh(u, op, pc) == IsTask(u) /\ u.op = op /\ u.pc = pc

\* The tasks slots are given have the shape of a task.
LEMMA FreshTask ==
  ASSUME NEW op, NEW pc
  PROVE  /\ IsFresh(Task(op, pc), op, pc)
         /\ \A e, rest : IsFresh([Task(op, pc) EXCEPT !.ev = e, !.todo = rest], op, pc)
         /\ \A r, rest : IsFresh([Task(op, pc) EXCEPT !.row = r, !.todo = rest], op, pc)
         /\ \A r, id : IsFresh([Task(op, pc) EXCEPT !.row = r, !.id = id], op, pc)
         /\ \A r, to : IsFresh([Task(op, pc) EXCEPT !.row = r, !.to = to], op, pc)
         /\ \A e : IsFresh([Task(op, pc) EXCEPT !.ev = e], op, pc)
         /\ \A row : LET u == [Task(op, pc) EXCEPT !.seen = row]
                      IN  IsFresh(u, op, pc) /\ u.seen = row
<1>0. IsFresh(Task(op, pc), op, pc)
  BY DEF IsFresh, IsTask, Fields, Task
<1>1. \A e, rest : IsFresh([Task(op, pc) EXCEPT !.ev = e, !.todo = rest], op, pc)
  BY ZenonT(40) DEF IsFresh, IsTask, Fields, Task
<1>2. \A r, rest : IsFresh([Task(op, pc) EXCEPT !.row = r, !.todo = rest], op, pc)
  BY ZenonT(40) DEF IsFresh, IsTask, Fields, Task
<1>3. \A r, id : IsFresh([Task(op, pc) EXCEPT !.row = r, !.id = id], op, pc)
  BY ZenonT(40) DEF IsFresh, IsTask, Fields, Task
<1>4. \A r, to : IsFresh([Task(op, pc) EXCEPT !.row = r, !.to = to], op, pc)
  BY ZenonT(40) DEF IsFresh, IsTask, Fields, Task
<1>5. \A e : IsFresh([Task(op, pc) EXCEPT !.ev = e], op, pc)
  BY DEF IsFresh, IsTask, Fields, Task
<1>6. ASSUME NEW row
      PROVE  LET u == [Task(op, pc) EXCEPT !.seen = row]
             IN  IsFresh(u, op, pc) /\ u.seen = row
  BY DEF IsFresh, IsTask, Fields, Task
<1> QED
  BY <1>0, <1>1, <1>2, <1>3, <1>4, <1>5, <1>6

\* The task of a slot that is free, and the tasks a job goes on with, write
\* nothing that needs evidence.
LEMMA IdleTask == IsTask(NoTask) /\ ~NeedsEvidence(NoTask)
<1>1. IsFresh(NoTask, "none", "idle")
  BY FreshTask DEF NoTask
<1> QED
  BY <1>1 DEF NeedsEvidence, IsFresh

LEMMA ListedTask ==
  ASSUME NEW op, NEW x, NEW rest
  PROVE  IsTask(Listed(op, x, rest)) /\ ~NeedsEvidence(Listed(op, x, rest))
<1>1. CASE op = "replay"
  <2>1. IsFresh(Listed(op, x, rest), op, "select")
    BY <1>1, FreshTask DEF Listed
  <2> QED
    BY <2>1 DEF NeedsEvidence, IsFresh
<1>2. CASE op = "reconcile"
  <2>1. PICK e : e = Reconcile(x)
    OBVIOUS
  <2>2. Listed(op, x, rest) = [Task(op, "store") EXCEPT !.ev = e, !.todo = rest]
    BY <1>2, <2>1 DEF Listed
  <2>3. IsFresh([Task(op, "store") EXCEPT !.ev = e, !.todo = rest], op, "store")
    BY FreshTask
  <2> QED
    BY <2>2, <2>3 DEF NeedsEvidence, IsFresh
<1>3. CASE op \notin {"replay", "reconcile"}
  <2>1. IsFresh(Listed(op, x, rest), op, "expire")
    BY <1>3, FreshTask DEF Listed
  <2> QED
    BY <2>1 DEF NeedsEvidence, IsFresh
<1> QED
  BY <1>1, <1>2, <1>3

\* A task that goes on to another statement is the same otherwise.
LEMMA MovedTask ==
  ASSUME NEW t, NEW pc, IsTask(t)
  PROVE  LET u == [t EXCEPT !.pc = pc] IN
         IsTask(u) /\ u.pc = pc /\ u.op = t.op /\ u.ev = t.ev /\ u.seen = t.seen
BY DEF IsTask, Fields

(***************************************************************************)
(* A step in which one slot changes keeps the invariant when evidence does *)
(* not go away and what the step brings is backed.                         *)
(***************************************************************************)
LEMMA SlotStep ==
  ASSUME EvidenceInv, NEW s \in Slots, NEW t, IsTask(t),
         slot' = [slot EXCEPT ![s] = t],
         IsRow(order)', IsList(payments)', IsList(refunds)',
         Evidence => Evidence',
         NeedsEvidence(t) => Evidence',
         ShowsMoney(order)' => Evidence',
         (refunds # <<>>)' => Evidence'
  PROVE  EvidenceInv'
<1>1. slot' = [x \in Slots |-> slot'[x]]
  BY DEF EvidenceInv, Shapes
<1>2. \A x \in Slots : slot'[x] = IF x = s THEN t ELSE slot[x]
  BY DEF EvidenceInv, Shapes
<1>3. Shapes'
  BY <1>1, <1>2 DEF EvidenceInv, Shapes
<1>4. \A x \in Slots : NeedsEvidence(slot'[x]) => Evidence'
  BY <1>2 DEF EvidenceInv, Backed
<1>5. Backed'
  BY <1>4 DEF Backed
<1> QED
  BY <1>3, <1>5 DEF EvidenceInv

\* The slot goes on with a task that needs no evidence.
Moves(s) == \E t : slot' = [slot EXCEPT ![s] = t] /\ IsTask(t) /\ ~NeedsEvidence(t)

LEMMA GotoMoves ==
  ASSUME EvidenceInv, NEW s \in Slots, NEW pc \in {"settle", "select", "mark", "fail"}, Goto(s, pc)
  PROVE  Moves(s)
<1>1. IsTask(slot[s])
  BY DEF EvidenceInv, Shapes
<1>2. PICK u : u = [slot[s] EXCEPT !.pc = pc]
  OBVIOUS
<1>3. IsTask(u) /\ u.pc = pc
  BY <1>1, <1>2, MovedTask
<1>4. slot' = [slot EXCEPT ![s] = u]
  BY <1>2 DEF Goto
<1> QED
  BY <1>3, <1>4 DEF Moves, NeedsEvidence

LEMMA FinishMoves ==
  ASSUME NEW s \in Slots, Finish(s)
  PROVE  Moves(s)
BY IdleTask DEF Finish, Moves

LEMMA TakeNextMoves ==
  ASSUME NEW s \in Slots, NEW op, NEW todo, TakeNext(s, op, todo)
  PROVE  Moves(s)
BY FinishMoves, ListedTask DEF TakeNext, Moves

LEMMA ResumeMoves ==
  ASSUME EvidenceInv, NEW s \in Slots, Resume(s)
  PROVE  Moves(s)
<1>1. Goto(s, "settle") => Moves(s)
  BY GotoMoves
<1>2. PICK op, todo : op = slot[s].op /\ todo = slot[s].todo
  OBVIOUS
<1>3. Goto(s, "settle") \/ TakeNext(s, op, todo)
  BY <1>2 DEF Resume
<1> QED
  BY <1>1, <1>3, TakeNextMoves

\* A step that moves a slot on and leaves the rows alone.
LEMMA QuietStep ==
  ASSUME EvidenceInv, NEW s \in Slots, Moves(s), UNCHANGED <<order, payments, refunds, manual>>
  PROVE  EvidenceInv'
<1>1. PICK t : slot' = [slot EXCEPT ![s] = t] /\ IsTask(t) /\ ~NeedsEvidence(t)
  BY DEF Moves
<1> QED
  BY <1>1, SlotStep DEF EvidenceInv, Shapes, Backed, Evidence, IsRow, IsList, ShowsMoney

\* A task of an operation that begins.
LEMMA BeginStep ==
  ASSUME EvidenceInv, NEW s \in Slots, NEW op, NEW t, Begin(s, op, t), IsTask(t),
         NeedsEvidence(t) => Evidence, UNCHANGED <<order, payments, refunds, manual>>
  PROVE  EvidenceInv'
BY SlotStep DEF Begin, EvidenceInv, Shapes, Backed, Evidence, IsRow, IsList, ShowsMoney

(***************************************************************************)
(* The actions.                                                            *)
(***************************************************************************)
\* The order service reads and writes the row.
LEMMA OrderSteps ==
  ASSUME EvidenceInv, NEW s \in Slots, (\E op : OrderRead(s, op)) \/ OrderWrite(s)
  PROVE  EvidenceInv'
<1>1. ASSUME NEW op, OrderRead(s, op)
      PROVE  EvidenceInv'
  <2>1. PICK row : row = order
    OBVIOUS
  <2>2. PICK t : t = [Task(op, "write") EXCEPT !.seen = row]
    OBVIOUS
  <2>3. IsTask(t) /\ t.op = op /\ t.pc = "write" /\ t.seen = order
    <3>1. LET u == [Task(op, "write") EXCEPT !.seen = row]
          IN  IsFresh(u, op, "write") /\ u.seen = row
      BY FreshTask
    <3> QED
      BY <2>1, <2>2, <3>1 DEF IsFresh
  <2>4. op = "close" => order.status = "PENDING_HOST_CONFIRM"
    BY <1>1 DEF OrderRead
  <2>5. NeedsEvidence(t) => Evidence
    BY <2>3, <2>4 DEF NeedsEvidence, EvidenceInv, Backed, ShowsMoney
  <2> QED
    BY <1>1, <2>1, <2>2, <2>3, <2>5, BeginStep DEF OrderRead, book, history
<1>2. CASE OrderWrite(s)
  <2>1. Moves(s) /\ UNCHANGED <<payments, refunds>>
    BY <1>2, FinishMoves DEF OrderWrite, book
  <2>2. PICK u : slot' = [slot EXCEPT ![s] = u] /\ IsTask(u) /\ ~NeedsEvidence(u)
    BY <2>1 DEF Moves
  <2>3. slot[s].pc = "write" /\ IsRow(order)'
    BY <1>2 DEF OrderWrite, IsRow
  <2>4. Evidence => Evidence'
    BY <1>2, <2>1 DEF OrderWrite, Evidence
  <2>5. ShowsMoney(order)' => Evidence'
    <3>1. CASE slot[s].op = "mark_paid" /\ manual' = TRUE
      BY <3>1 DEF Evidence
    <3>2. CASE slot[s].op = "close"
      BY <2>3, <2>4, <3>2 DEF EvidenceInv, Backed, NeedsEvidence
    <3>3. CASE order' = [status |-> "CANCELLED_BY_TRAVELER",
                         pay |-> RefundedIfPaid(slot[s].seen.pay)]
      <4>1. ShowsMoney(order)' => slot[s].seen.pay # "UNPAID"
        BY <3>3 DEF ShowsMoney, RefundedIfPaid
      <4> QED
        BY <2>3, <2>4, <4>1 DEF EvidenceInv, Backed, NeedsEvidence, ShowsMoney
    <3> QED
      BY <1>2, <3>1, <3>2, <3>3 DEF OrderWrite
  <2>6. (refunds # <<>>)' => Evidence'
    BY <2>1, <2>4 DEF EvidenceInv, Backed
  <2> QED
    BY <2>1, <2>2, <2>3, <2>4, <2>5, <2>6, SlotStep DEF EvidenceInv, Shapes, IsList
<1> QED
  BY <1>1, <1>2

\* Intents are created and confirmed.
LEMMA IntentSteps ==
  ASSUME EvidenceInv, NEW s \in Slots,
         \/ CreateRead(s) \/ CreateInsert(s) \/ Settle(s)
         \/ \E i \in DOMAIN intents, outcome \in Outcome : ConfirmRead(s, i, outcome)
  PROVE  EvidenceInv'
<1>1. CASE CreateRead(s)
  <2>1. PICK t : t = Task("create", "insert")
    OBVIOUS
  <2>2. IsFresh(Task("create", "insert"), "create", "insert")
    BY FreshTask
  <2>3. IsTask(t) /\ ~NeedsEvidence(t)
    BY <2>1, <2>2 DEF IsFresh, NeedsEvidence
  <2> QED
    BY <1>1, <2>1, <2>3, BeginStep DEF CreateRead, book, history
<1>2. CASE CreateInsert(s)
  BY <1>2, FinishMoves, QuietStep DEF CreateInsert, history
<1>3. CASE Settle(s)
  BY <1>3, FinishMoves, QuietStep DEF Settle, history
<1>4. ASSUME NEW i \in DOMAIN intents, NEW outcome \in Outcome, ConfirmRead(s, i, outcome)
      PROVE  EvidenceInv'
  <2>1. PICK to : to = Normalized(i, outcome)
    OBVIOUS
  <2>2. PICK t : t = [Task("confirm", "settle") EXCEPT !.row = i, !.to = to]
    OBVIOUS
  <2>3. IsTask(t) /\ t.pc = "settle"
    <3>1. IsFresh([Task("confirm", "settle") EXCEPT !.row = i, !.to = to], "confirm", "settle")
      BY FreshTask
    <3> QED
      BY <2>2, <3>1 DEF IsFresh
  <2>4. ~NeedsEvidence(t)
    BY <2>3 DEF NeedsEvidence
  <2>5. \A e : LET u == [t EXCEPT !.pc = "store", !.ev = e] IN IsTask(u) /\ ~NeedsEvidence(u)
    BY <2>3 DEF IsTask, Fields, NeedsEvidence
  <2>6. UNCHANGED <<order, payments, refunds, manual>>
    BY <1>4 DEF ConfirmRead, book, history
  <2>7. \/ Begin(s, "confirm", t)
        \/ \E e : Begin(s, "confirm", [t EXCEPT !.pc = "store", !.ev = e])
    BY <1>4, <2>1, <2>2 DEF ConfirmRead
  <2>8. CASE Begin(s, "confirm", t)
    BY <2>3, <2>4, <2>6, <2>8, BeginStep
  <2>9. ASSUME NEW e, Begin(s, "confirm", [t EXCEPT !.pc = "store", !.ev = e])
        PROVE  EvidenceInv'
    <3>1. PICK u : u = [t EXCEPT !.pc = "store", !.ev = e]
      OBVIOUS
    <3> QED
      BY <2>5, <2>6, <2>9, <3>1, BeginStep
  <2> QED
    BY <2>7, <2>8, <2>9
<1> QED
  BY <1>1, <1>2, <1>3, <1>4

\* Webhooks come in, and events are stored, looked up and marked.
LEMMA EventSteps ==
  ASSUME EvidenceInv, NEW s \in Slots,
         \/ \E e \in due : HookFires(s, e)
         \/ \E e \in sent : Redeliver(s, e)
         \/ Store(s) \/ Select(s) \/ Mark(s) \/ Fail(s)
  PROVE  EvidenceInv'
<1>1. ASSUME NEW e, HookFires(s, e) \/ Redeliver(s, e)
      PROVE  EvidenceInv'
  <2>1. PICK t : t = [Task("hook", "store") EXCEPT !.ev = e]
    OBVIOUS
  <2>2. IsFresh([Task("hook", "store") EXCEPT !.ev = e], "hook", "store")
    BY FreshTask
  <2>3. IsTask(t) /\ ~NeedsEvidence(t)
    BY <2>1, <2>2 DEF IsFresh, NeedsEvidence
  <2>4. UNCHANGED <<order, payments, refunds, manual>>
    BY <1>1 DEF HookFires, Redeliver, book, history
  <2>5. \E op : Begin(s, op, t)
    BY <1>1, <2>1 DEF HookFires, Redeliver
  <2> QED
    BY <2>3, <2>4, <2>5, BeginStep
<1>2. CASE Store(s)
  <2>1. Goto(s, "select") \/ Resume(s)
    BY <1>2 DEF Store
  <2>2. Moves(s)
    BY <2>1, GotoMoves, ResumeMoves
  <2> QED
    BY <1>2, <2>2, QuietStep DEF Store, book
<1>3. CASE Select(s)
  <2>1. UNCHANGED <<order, payments, refunds, manual>>
    BY <1>3 DEF Select, book, history
  <2>2. CASE Goto(s, "fail") \/ Goto(s, "mark")
    BY <2>1, <2>2, GotoMoves, QuietStep
  <2>3. ASSUME NEW hit \in Hits(slot[s].ev),
               slot' = [slot EXCEPT ![s] =
                          [slot[s] EXCEPT !.pc = "commit", !.hit = hit, !.seen = order]]
        PROVE  EvidenceInv'
    <3>1. PICK row : row = order
      OBVIOUS
    <3>2. PICK t, u : t = slot[s] /\ u = [t EXCEPT !.pc = "commit", !.hit = hit, !.seen = row]
      OBVIOUS
    <3>3. IsTask(t)
      BY <3>2 DEF EvidenceInv, Shapes
    <3>4. IsTask(u) /\ u.pc = "commit" /\ u.ev = slot[s].ev
      BY <3>2, <3>3 DEF IsTask, Fields
    <3>5. u.ev.type = "refunded" => refunds # <<>>
      BY <3>4, HasElement DEF Hits, Outcome
    <3>6. NeedsEvidence(u) => Evidence
      BY <3>4, <3>5 DEF NeedsEvidence, EvidenceInv, Backed
    <3>7. slot' = [slot EXCEPT ![s] = u]
      BY <2>3, <3>1, <3>2
    <3> QED
      BY <2>1, <3>4, <3>6, <3>7, SlotStep
         DEF EvidenceInv, Shapes, Backed, Evidence, IsRow, IsList, ShowsMoney
  <2> QED
    BY <1>3, <2>2, <2>3 DEF Select
<1>4. CASE Mark(s)
  BY <1>4, ResumeMoves, QuietStep DEF Mark, book, history
<1>5. CASE Fail(s)
  BY <1>5, ResumeMoves, QuietStep DEF Fail, book, history
<1> QED
  BY <1>1, <1>2, <1>3, <1>4, <1>5

\* The transactions that process an event.
LEMMA CommitSteps ==
  ASSUME EvidenceInv, NEW s \in Slots,
         CommitPaid(s) \/ CommitDeclined(s) \/ CommitRefunded(s) \/ CommitRefundFailed(s)
  PROVE  EvidenceInv'
<1>1. CASE CommitPaid(s)
  <2>1. Goto(s, "mark") /\ UNCHANGED <<refunds, manual>>
    BY <1>1 DEF CommitPaid, history
  <2>2. PICK u : slot' = [slot EXCEPT ![s] = u] /\ IsTask(u) /\ ~NeedsEvidence(u)
    BY <2>1, GotoMoves DEF Moves
  <2>3. payments' # <<>> /\ IsList(payments)'
    <3>1. IsList(payments)
      BY DEF EvidenceInv, Shapes
    <3>2. PICK x : payments' = IF Booked(slot[s].ev.txn) THEN payments ELSE Append(payments, x)
      BY <1>1 DEF CommitPaid
    <3>3. Booked(slot[s].ev.txn) => payments # <<>>
      BY HasElement DEF Booked
    <3>4. IsList(payments') /\ payments' # <<>>
      BY <3>1, <3>2, <3>3, AppendIsList
    <3> QED
      BY <3>4 DEF IsList
  <2>4. IsRow(order)'
    BY <1>1 DEF CommitPaid, IsRow
  <2> QED
    BY <2>1, <2>2, <2>3, <2>4, SlotStep DEF Evidence, EvidenceInv, Shapes, IsList
<1>2. CASE CommitDeclined(s)
  BY <1>2, GotoMoves, QuietStep DEF CommitDeclined, history
<1>3. CASE CommitRefunded(s)
  <2>1. Goto(s, "fail") \/ Goto(s, "mark")
    BY <1>3 DEF CommitRefunded
  <2>2. PICK u : slot' = [slot EXCEPT ![s] = u] /\ IsTask(u) /\ ~NeedsEvidence(u)
    BY <2>1, GotoMoves DEF Moves
  <2>3. Evidence
    BY <1>3 DEF CommitRefunded, Committing, At, EvidenceInv, Backed, NeedsEvidence
  <2>4. UNCHANGED <<payments, manual>> /\ Evidence'
    BY <1>3, <2>3 DEF CommitRefunded, history, Evidence
  <2>5. IsRow(order)'
    BY <1>3 DEF CommitRefunded, EvidenceInv, Shapes, IsRow
  <2>6. IsList(refunds)'
    <3>1. IsList(refunds)
      BY DEF EvidenceInv, Shapes
    <3>2. CASE UNCHANGED refunds
      BY <3>1, <3>2 DEF IsList
    <3>3. CASE SetRefund(slot[s].hit, "succeeded", slot[s].ev.about)
      <4>1. PICK r, x : refunds' = [refunds EXCEPT ![r] = x]
        BY <3>3 DEF SetRefund
      <4>2. IsList(refunds')
        BY <3>1, <4>1, ReplaceIsList
      <4> QED
        BY <4>2 DEF IsList
    <3> QED
      BY <1>3, <3>2, <3>3 DEF CommitRefunded
  <2> QED
    BY <2>2, <2>4, <2>5, <2>6, SlotStep DEF EvidenceInv, Shapes, IsList
<1>4. CASE CommitRefundFailed(s)
  <2>1. Goto(s, "mark") /\ UNCHANGED <<order, payments, manual>>
    BY <1>4 DEF CommitRefundFailed, history
  <2>2. PICK u : slot' = [slot EXCEPT ![s] = u] /\ IsTask(u) /\ ~NeedsEvidence(u)
    BY <2>1, GotoMoves DEF Moves
  <2>3. IsList(refunds)
    BY DEF EvidenceInv, Shapes
  <2>4. PICK r, x : refunds' = [refunds EXCEPT ![r] = x]
    BY <1>4 DEF CommitRefundFailed, SetRefund
  <2>5. IsList(refunds') /\ (refunds' # <<>> => refunds # <<>>)
    BY <2>3, <2>4, ReplaceIsList
  <2> QED
    BY <2>1, <2>2, <2>5, SlotStep
       DEF EvidenceInv, Shapes, Backed, Evidence, IsRow, IsList, ShowsMoney
<1> QED
  BY <1>1, <1>2, <1>3, <1>4

\* Refunds are asked for, and their rows and the order are updated.
LEMMA RefundSteps ==
  ASSUME EvidenceInv, NEW s \in Slots,
         \/ RefundRequest(s)
         \/ \E r \in DOMAIN refunds : RetryRequest(s, r)
         \/ RefundUpdate(s) \/ RefundOrder(s)
  PROVE  EvidenceInv'
<1>1. CASE RefundRequest(s)
  <2>1. PICK r, id : r = Len(refunds') /\ id = drawn'
    OBVIOUS
  <2>2. PICK t : t = [Task("refund", "update") EXCEPT !.row = r, !.id = id]
    OBVIOUS
  <2>3. IsFresh([Task("refund", "update") EXCEPT !.row = r, !.id = id], "refund", "update")
    BY FreshTask
  <2>4. IsTask(t)
    BY <2>2, <2>3 DEF IsFresh
  <2>5. slot' = [slot EXCEPT ![s] = t]
    BY <1>1, <2>1, <2>2 DEF RefundRequest, Begin
  <2>6. payments # <<>> /\ UNCHANGED <<order, payments, manual>>
    BY <1>1 DEF RefundRequest, history
  <2>7. PICK x : refunds' = Append(refunds, x)
    BY <1>1 DEF RefundRequest
  <2>8. IsList(refunds')
    BY <2>7, AppendIsList DEF EvidenceInv, Shapes
  <2> QED
    BY <2>4, <2>5, <2>6, <2>8, SlotStep DEF EvidenceInv, Shapes, Evidence, IsRow, IsList
<1>2. ASSUME NEW r \in DOMAIN refunds, RetryRequest(s, r)
      PROVE  EvidenceInv'
  <2>1. PICK id : id = drawn'
    OBVIOUS
  <2>2. PICK t : t = [Task("retry", "update") EXCEPT !.row = r, !.id = id]
    OBVIOUS
  <2>3. IsFresh([Task("retry", "update") EXCEPT !.row = r, !.id = id], "retry", "update")
    BY FreshTask
  <2>4. IsTask(t)
    BY <2>2, <2>3 DEF IsFresh
  <2>5. Evidence
    BY HasElement DEF EvidenceInv, Backed
  <2> QED
    BY <1>2, <2>1, <2>2, <2>4, <2>5, BeginStep DEF RetryRequest, book, history
<1>3. CASE RefundUpdate(s)
  <2>1. Evidence /\ UNCHANGED <<order, payments, manual>>
    BY <1>3 DEF RefundUpdate, EvidenceInv, Backed, NeedsEvidence, history
  <2>2. IsList(refunds) /\ IsTask(slot[s])
    BY DEF EvidenceInv, Shapes
  <2>3. CASE UNCHANGED refunds /\ Finish(s)
    BY <2>1, <2>3, FinishMoves, QuietStep
  <2>4. CASE SetRefund(slot[s].row, "processing", slot[s].id) /\ Goto(s, "order")
    <3>1. PICK r, x : refunds' = [refunds EXCEPT ![r] = x]
      BY <2>4 DEF SetRefund
    <3>2. IsList(refunds')
      BY <2>2, <3>1, ReplaceIsList
    <3>3. PICK u : u = [slot[s] EXCEPT !.pc = "order"]
      OBVIOUS
    <3>4. IsTask(u) /\ slot' = [slot EXCEPT ![s] = u]
      BY <2>2, <2>4, <3>3, MovedTask DEF Goto
    <3> QED
      BY <2>1, <3>2, <3>4, SlotStep DEF EvidenceInv, Shapes, Evidence, IsRow, IsList
  <2> QED
    BY <1>3, <2>3, <2>4 DEF RefundUpdate
<1>4. CASE RefundOrder(s)
  <2>1. Evidence /\ UNCHANGED <<payments, refunds, manual>>
    BY <1>4 DEF RefundOrder, At, EvidenceInv, Backed, NeedsEvidence, book, history
  <2>2. PICK u : slot' = [slot EXCEPT ![s] = u] /\ IsTask(u) /\ ~NeedsEvidence(u)
    BY <1>4, FinishMoves DEF RefundOrder, Moves
  <2>3. IsRow(order)'
    BY <1>4 DEF RefundOrder, EvidenceInv, Shapes, IsRow
  <2> QED
    BY <2>1, <2>2, <2>3, SlotStep DEF EvidenceInv, Shapes, Evidence, IsList
<1> QED
  BY <1>1, <1>2, <1>3, <1>4

\* The jobs.
LEMMA JobSteps ==
  ASSUME EvidenceInv, NEW s \in Slots,
         ReplayList(s) \/ ReconcileList(s) \/ CleanupList(s) \/ CleanupStep(s)
  PROVE  EvidenceInv'
<1>1. UNCHANGED <<order, payments, refunds, manual>>
  BY DEF ReplayList, ReconcileList, CleanupList, CleanupStep, book, history
<1>2. \E op, todo : TakeNext(s, op, todo)
  <2>1. ASSUME NEW op, NEW todo, StartJob(s, op, todo)
        PROVE  TakeNext(s, op, todo)
    BY <2>1 DEF StartJob
  <2> QED
    BY <2>1 DEF ReplayList, ReconcileList, CleanupList, CleanupStep
<1> QED
  BY <1>1, <1>2, TakeNextMoves, QuietStep

\* Statements fail, and the process restarts.
LEMMA FaultSteps ==
  ASSUME EvidenceInv, Restart \/ \E s \in Slots : StatementFails(s)
  PROVE  EvidenceInv'
<1>1. ASSUME Crash
      PROVE  EvidenceInv'
  <2>1. UNCHANGED <<order, payments, refunds, manual>> /\ slot' = [s \in Slots |-> NoTask]
    BY <1>1 DEF Crash, book, history
  <2> QED
    BY <2>1, IdleTask DEF EvidenceInv, Shapes, Backed, Evidence, IsRow, IsList, ShowsMoney
<1>2. ASSUME NEW s \in Slots, StatementFails(s)
      PROVE  EvidenceInv'
  <2>1. \/ UNCHANGED <<order, payments, refunds, manual>> /\ (Goto(s, "fail") \/ Finish(s))
        \/ Crash
    BY <1>2 DEF StatementFails, book, history
  <2> QED
    BY <1>1, <2>1, GotoMoves, FinishMoves, QuietStep
<1> QED
  BY <1>1, <1>2 DEF Restart

(***************************************************************************)
(* The theorem.                                                            *)
(***************************************************************************)
LEMMA EvidenceInit ==
  ASSUME Init
  PROVE  EvidenceInv
<1>1. IsList(payments) /\ IsList(refunds)
  <2>1. <<>> \in Seq({})
    OBVIOUS
  <2> QED
    BY <2>1 DEF Init, IsList
<1> QED
  BY <1>1, IdleTask
     DEF Init, NewOrder, EvidenceInv, Shapes, Backed, Evidence, IsRow, ShowsMoney

LEMMA EvidenceNext ==
  ASSUME EvidenceInv, [Next]_vars
  PROVE  EvidenceInv'
<1>1. ASSUME NEW s \in Slots, Arrive(s)
      PROVE  EvidenceInv'
  BY <1>1, OrderSteps, IntentSteps, EventSteps, RefundSteps DEF Arrive
<1>2. ASSUME NEW s \in Slots, Timer(s)
      PROVE  EvidenceInv'
  BY <1>2, EventSteps, JobSteps DEF Timer
<1>3. ASSUME NEW s \in Slots, Continue(s)
      PROVE  EvidenceInv'
  BY <1>3, OrderSteps, IntentSteps, EventSteps, CommitSteps, RefundSteps, JobSteps DEF Continue
<1>4. CASE UNCHANGED vars
  BY <1>4 DEF vars, EvidenceInv, Shapes, Backed, Evidence, IsRow, IsList, ShowsMoney,
              NeedsEvidence, IsTask
<1> QED
  BY <1>1, <1>2, <1>3, <1>4, FaultSteps DEF Next

\* In every behaviour of the payment service an order is anything but unpaid
\* only when a payment row or a mark by hand accounts for it (payments.js,
\* eventProcessor.js, jobs/payments.js).
THEOREM PaidWithEvidence == Spec => []MoneyHasEvidence
<1>1. Init => EvidenceInv
  BY EvidenceInit
<1>2. EvidenceInv /\ [Next]_vars => EvidenceInv'
  BY EvidenceNext
<1>3. EvidenceInv => MoneyHasEvidence
  BY DEF EvidenceInv, Backed, ShowsMoney, Evidence, MoneyHasEvidence
<1> QED
  BY <1>1, <1>2, <1>3, PTL DEF Spec

(***************************************************************************)
(*                                 Books                                   *)
(***************************************************************************)

(***************************************************************************)
(* What a task holds fits the tables.  Tables only grow, so what fits goes *)
(* on fitting.                                                             *)
(***************************************************************************)
Handling == {"store", "select", "commit", "mark", "fail"}

OrderRow == [status : Status, pay : PaymentStatus]

RefundRow == [status : {"requested", "processing", "succeeded", "failed"}, rid : Nat]

\* A transaction of an intent that a webhook has announced.
Says(webhooks, txn, i) ==
  txn = 0 \/ \E e \in webhooks : e.type \in Outcome /\ e.txn = txn /\ e.about = i

Announced(txn, i) == Says(sent, txn, i)

\* An event about a payment is about an intent there is.
Addressed(e) == e \in Event /\ (e.type \in Outcome => e.about \in DOMAIN intents)

Aimed(e) == Addressed(e) /\ (e.type \in Outcome => Announced(e.txn, e.about))

InBooks(e) ==
  \E p \in DOMAIN payments : payments[p].intent = e.about /\ e.txn \in {0, payments[p].txn}

FitsEvent(t) ==
  t.pc \in Handling =>
    /\ t.op \in {"confirm", "hook", "replay", "reconcile"}
    /\ Aimed(t.ev)
    /\ t.pc # "store" => t.ev \in DOMAIN events
    /\ t.pc = "mark" /\ t.ev.type = "paid" => InBooks(t.ev)

FitsHit(t) ==
  t.pc = "commit" =>
    /\ t.ev.type \in Outcome => t.hit \in DOMAIN intents
    /\ t.ev.type = "paid" => t.hit = t.ev.about
    /\ t.ev.type \notin Outcome => t.hit \in DOMAIN refunds

FitsRow(t) ==
  /\ t.pc \in {"write", "commit"} => t.seen \in OrderRow
  /\ t.op = "confirm" => t.row \in DOMAIN intents /\ t.to \in IntentStatus
  /\ t.pc = "settle" => t.op = "confirm"
  /\ t.pc = "expire" => t.op = "cleanup" /\ t.row \in DOMAIN intents
  /\ t.pc = "update" => t.row \in DOMAIN refunds /\ t.id \in Nat

FitsTodo(t) ==
  /\ t.op = "hook" => t.todo = {}
  /\ t.op = "replay" => t.todo \subseteq DOMAIN events
  /\ t.op = "reconcile" => t.todo \subseteq DOMAIN payments
  /\ t.op = "cleanup" => t.todo \subseteq DOMAIN intents

TaskFits(t) == FitsEvent(t) /\ FitsHit(t) /\ FitsRow(t) /\ FitsTodo(t)

TasksFit == \A s \in Slots : TaskFits(slot[s])

EventsAimed ==
  /\ \A e \in DOMAIN events \union sent : Aimed(e)
  /\ \A e \in due : Addressed(e)

RowsAnnounced ==
  /\ \A i \in DOMAIN mock : Announced(mock[i].txn, i)
  /\ \A p \in DOMAIN payments : Announced(payments[p].txn, payments[p].intent)

\* The provider gives a transaction to one intent only.
TxnsOwned ==
  \A e, f \in due \union sent :
    e.type \in Outcome /\ f.type \in Outcome =>
      /\ e.txn <= drawn
      /\ e.txn = f.txn /\ e.txn # 0 => e.about = f.about

Ledger == TypeOK /\ EventsAimed /\ RowsAnnounced /\ TxnsOwned

Orderly == EvidenceInv /\ Ledger /\ TasksFit

Grows ==
  /\ sent \subseteq sent'
  /\ DOMAIN intents \subseteq DOMAIN intents'
  /\ DOMAIN refunds \subseteq DOMAIN refunds'
  /\ DOMAIN events \subseteq DOMAIN events'
  /\ DOMAIN payments \subseteq DOMAIN payments'
  /\ \A p \in DOMAIN payments : payments'[p] = payments[p]

\* The slot goes on with a task that fits.
StepsTo(s) == \E t : slot' = [slot EXCEPT ![s] = t] /\ IsTask(t) /\ TaskFits(t)'

LEMMA AimedOn ==
  ASSUME NEW e, Aimed(e), Grows
  PROVE  Aimed(e)'
BY DEF Aimed, Addressed, Announced, Says, Grows

LEMMA FitsOn ==
  ASSUME NEW t, TaskFits(t), Grows
  PROVE  TaskFits(t)'
<1>1. InBooks(t.ev) => InBooks(t.ev)'
  BY DEF InBooks, Grows
<1>2. FitsEvent(t)'
  BY <1>1, AimedOn DEF TaskFits, FitsEvent, Grows
<1>3. FitsHit(t)'
  BY DEF TaskFits, FitsHit, Grows
<1>4. FitsRow(t)'
  BY DEF TaskFits, FitsRow, Grows
<1>5. FitsTodo(t)'
  BY DEF TaskFits, FitsTodo, Grows
<1> QED
  BY <1>2, <1>3, <1>4, <1>5 DEF TaskFits

LEMMA TasksFitOn ==
  ASSUME Orderly, Grows, NEW s \in Slots, StepsTo(s)
  PROVE  TasksFit'
<1>1. PICK t : slot' = [slot EXCEPT ![s] = t] /\ IsTask(t) /\ TaskFits(t)'
  BY DEF StepsTo
<1>2. \A x \in Slots : slot'[x] = IF x = s THEN t ELSE slot[x]
  BY <1>1 DEF Orderly, Ledger, EvidenceInv, Shapes
<1>3. ASSUME NEW x \in Slots
      PROVE  TaskFits(slot[x])'
  <2>1. PICK u : u = slot'[x]
    OBVIOUS
  <2>2. CASE x = s
    BY <1>1, <1>2, <2>1, <2>2
  <2>3. CASE x # s
    <3>1. TaskFits(slot[x])
      BY DEF Orderly, Ledger, TasksFit
    <3>2. PICK v : v = slot[x]
      OBVIOUS
    <3>3. TaskFits(v)'
      BY <3>1, <3>2, FitsOn
    <3>4. u = v
      BY <1>2, <2>1, <2>3, <3>2
    <3> QED
      BY <2>1, <3>3, <3>4
  <2> QED
    BY <2>2, <2>3
<1> QED
  BY <1>3 DEF TasksFit

(***************************************************************************)
(* Lists.                                                                  *)
(***************************************************************************)
LEMMA SetsElement ==
  ASSUME NEW S, NEW list \in Seq(S), NEW i \in DOMAIN list, NEW x \in S
  PROVE  /\ [list EXCEPT ![i] = x] \in Seq(S)
         /\ Len([list EXCEPT ![i] = x]) = Len(list)
         /\ DOMAIN [list EXCEPT ![i] = x] = DOMAIN list
BY ExceptSeq, LenProperties

LEMMA AddsElement ==
  ASSUME NEW S, NEW list \in Seq(S), NEW x \in S
  PROVE  /\ Append(list, x) \in Seq(S)
         /\ Len(Append(list, x)) = Len(list) + 1
         /\ Len(list) + 1 \in DOMAIN Append(list, x)
         /\ Append(list, x)[Len(list) + 1] = x
         /\ DOMAIN Append(list, x) = DOMAIN list \union {Len(list) + 1}
         /\ \A i \in DOMAIN list : Append(list, x)[i] = list[i]
<1>1. /\ Append(list, x) \in Seq(S)
      /\ Len(Append(list, x)) = Len(list) + 1
      /\ Len(list) \in Nat /\ DOMAIN list = 1 .. Len(list)
  BY LenProperties
<1>2. DOMAIN Append(list, x) = 1 .. Len(list) + 1
  BY <1>1, LenProperties
<1>3. \A i \in 1 .. Len(list) : Append(list, x)[i] = list[i]
  BY <1>1
<1>4. Append(list, x)[Len(list) + 1] = x
  BY <1>1
<1> QED
  BY <1>1, <1>2, <1>3, <1>4

\* What the types of the tables say of their rows.
LEMMA PaymentRows ==
  ASSUME TypeOK, NEW p \in DOMAIN payments
  PROVE  p \in Nat /\ payments[p].intent \in DOMAIN intents /\ payments[p].txn \in Nat
<1>1. PICK S : S = [intent : DOMAIN intents, txn : Nat]
  OBVIOUS
<1>2. payments \in Seq(S)
  BY <1>1 DEF TypeOK
<1>3. payments[p] \in S /\ p \in Nat
  BY <1>2, ElementOfSeq, LenProperties
<1> QED
  BY <1>1, <1>3

LEMMA IntentRows ==
  ASSUME TypeOK
  PROVE  /\ DOMAIN intents = 1 .. Len(intents) /\ Len(intents) \in Nat
         /\ DOMAIN mock = DOMAIN intents
         /\ DOMAIN refunds = 1 .. Len(refunds) /\ Len(refunds) \in Nat
         /\ DOMAIN payments = 1 .. Len(payments) /\ Len(payments) \in Nat
<1>1. PICK S, T, U : /\ S = [intent : DOMAIN intents, txn : Nat]
                     /\ T = RefundRow
                     /\ U = [status : IntentStatus \union {"lost"}, txn : Nat]
  OBVIOUS
<1>2. payments \in Seq(S) /\ refunds \in Seq(T) /\ mock \in Seq(U) /\ intents \in Seq(IntentStatus)
      /\ Len(mock) = Len(intents)
  BY <1>1 DEF TypeOK, RefundRow
<1> QED
  BY <1>2, LenProperties

(***************************************************************************)
(* Tasks.                                                                  *)
(***************************************************************************)
LEMMA MovedFields ==
  ASSUME NEW t, NEW pc, IsTask(t)
  PROVE  LET u == [t EXCEPT !.pc = pc] IN
         /\ IsTask(u) /\ u.pc = pc /\ u.op = t.op /\ u.ev = t.ev /\ u.row = t.row
         /\ u.to = t.to /\ u.id = t.id /\ u.hit = t.hit /\ u.seen = t.seen /\ u.todo = t.todo
BY DEF IsTask, Fields

LEMMA NoTaskFits == IsTask(NoTask) /\ TaskFits(NoTask)
<1>1. NoTask.pc = "idle" /\ NoTask.op = "none" /\ NoTask.todo = {}
  BY DEF NoTask, Task
<1> QED
  BY <1>1, IdleTask DEF TaskFits, FitsEvent, FitsHit, FitsRow, FitsTodo, Handling

LEMMA FinishSteps ==
  ASSUME Grows, NEW s \in Slots, Finish(s)
  PROVE  StepsTo(s)
BY NoTaskFits, FitsOn DEF Finish, StepsTo

\* The task a job goes on with.
LEMMA ListedFits ==
  ASSUME Orderly, NEW op \in {"replay", "reconcile", "cleanup"}, NEW todo, NEW x \in todo,
         op = "replay" => todo \subseteq DOMAIN events,
         op = "reconcile" => todo \subseteq DOMAIN payments,
         op = "cleanup" => todo \subseteq DOMAIN intents
  PROVE  LET u == Listed(op, x, todo \ {x}) IN IsTask(u) /\ TaskFits(u)
<1> DEFINE rest == todo \ {x}
<1>0. rest \subseteq todo
  OBVIOUS
<1> HIDE DEF rest
<1>1. CASE op = "replay"
  <2>1. PICK u : u = [Task(op, "select") EXCEPT !.ev = x, !.todo = rest]
    OBVIOUS
  <2>2. u.op = op /\ u.pc = "select" /\ u.ev = x /\ u.todo = rest /\ IsTask(u)
    BY <2>1 DEF Task, IsTask, Fields
  <2>3. Aimed(x) /\ x \in DOMAIN events
    BY <1>1 DEF Orderly, Ledger, EventsAimed
  <2>4. TaskFits(u)
    BY <1>0, <1>1, <2>2, <2>3 DEF TaskFits, FitsEvent, FitsHit, FitsRow, FitsTodo, Handling
  <2> QED
    BY <1>1, <2>1, <2>2, <2>4 DEF Listed, rest
<1>2. CASE op = "reconcile"
  <2>0. PICK e : e = Reconcile(x)
    OBVIOUS
  <2>1. PICK u : u = [Task(op, "store") EXCEPT !.ev = e, !.todo = rest]
    OBVIOUS
  <2>2. u.op = op /\ u.pc = "store" /\ u.ev = e /\ u.todo = rest /\ IsTask(u)
    BY <2>1 DEF Task, IsTask, Fields
  <2>3. Aimed(e)
    <3>1. x \in DOMAIN payments
      BY <1>2
    <3>2. payments[x].intent \in DOMAIN intents /\ payments[x].txn \in Nat /\ x \in Nat
      BY <3>1, PaymentRows DEF Orderly, Ledger
    <3>3. DOMAIN intents \subseteq Nat
      BY IntentRows DEF Orderly, Ledger
    <3>4. Announced(payments[x].txn, payments[x].intent)
      BY <3>1 DEF Orderly, Ledger, RowsAnnounced
    <3> QED
      BY <2>0, <3>2, <3>3, <3>4 DEF Aimed, Addressed, Reconcile, Event, Type
  <2>4. TaskFits(u)
    BY <1>0, <1>2, <2>2, <2>3 DEF TaskFits, FitsEvent, FitsHit, FitsRow, FitsTodo, Handling
  <2> QED
    BY <1>2, <2>0, <2>1, <2>2, <2>4 DEF Listed, rest
<1>3. CASE op = "cleanup"
  <2>1. PICK u : u = [Task(op, "expire") EXCEPT !.row = x, !.todo = rest]
    OBVIOUS
  <2>2. u.op = op /\ u.pc = "expire" /\ u.row = x /\ u.todo = rest /\ IsTask(u)
    BY <2>1 DEF Task, IsTask, Fields
  <2>4. TaskFits(u)
    BY <1>0, <1>3, <2>2 DEF TaskFits, FitsEvent, FitsHit, FitsRow, FitsTodo, Handling
  <2> QED
    BY <1>3, <2>1, <2>2, <2>4 DEF Listed, rest
<1> QED
  BY <1>1, <1>2, <1>3

LEMMA TakeNextSteps ==
  ASSUME Orderly, Grows, NEW s \in Slots, NEW op \in {"replay", "reconcile", "cleanup"}, NEW todo,
         TakeNext(s, op, todo),
         op = "replay" => todo \subseteq DOMAIN events,
         op = "reconcile" => todo \subseteq DOMAIN payments,
         op = "cleanup" => todo \subseteq DOMAIN intents
  PROVE  StepsTo(s)
<1>1. CASE Finish(s)
  BY <1>1, FinishSteps
<1>2. ASSUME NEW x \in todo, slot' = [slot EXCEPT ![s] = Listed(op, x, todo \ {x})]
      PROVE  StepsTo(s)
  <2>1. PICK u : u = Listed(op, x, todo \ {x})
    OBVIOUS
  <2>2. IsTask(u) /\ TaskFits(u)
    BY <2>1, ListedFits
  <2> QED
    BY <1>2, <2>1, <2>2, FitsOn DEF StepsTo
<1> QED
  BY <1>1, <1>2 DEF TakeNext

\* A caller goes on when its event is done.
LEMMA ResumeSteps ==
  ASSUME Orderly, Grows, NEW s \in Slots, slot[s].pc \in Handling, Resume(s)
  PROVE  StepsTo(s)
<1>0. PICK t : t = slot[s]
  OBVIOUS
<1>1. IsTask(t) /\ TaskFits(t) /\ t.pc \in Handling
  BY <1>0 DEF Orderly, Ledger, EvidenceInv, Shapes, TasksFit
<1>2. t.op \in {"confirm", "hook", "replay", "reconcile"}
  BY <1>1 DEF TaskFits, FitsEvent
<1>3. CASE t.op = "confirm"
  <2>1. PICK u : u = [t EXCEPT !.pc = "settle"]
    OBVIOUS
  <2>2. IsTask(u) /\ u.pc = "settle" /\ u.op = t.op /\ u.row = t.row /\ u.to = t.to
    BY <1>1, <2>1, MovedFields
  <2>3. TaskFits(u)
    BY <1>1, <1>3, <2>2 DEF TaskFits, FitsEvent, FitsHit, FitsRow, FitsTodo, Handling
  <2>4. slot' = [slot EXCEPT ![s] = u]
    BY <1>0, <1>3, <2>1 DEF Resume, Goto
  <2> QED
    BY <2>2, <2>3, <2>4, FitsOn DEF StepsTo
<1>4. CASE t.op = "hook"
  <2>1. TakeNext(s, "hook", {})
    BY <1>0, <1>1, <1>4 DEF Resume, TaskFits, FitsTodo
  <2>2. Finish(s)
    BY <2>1 DEF TakeNext
  <2> QED
    BY <2>2, FinishSteps
<1>5. CASE t.op \in {"replay", "reconcile"}
  <2>1. PICK op, todo : op = t.op /\ todo = t.todo
    OBVIOUS
  <2>2. TakeNext(s, op, todo)
    BY <1>0, <1>5, <2>1 DEF Resume
  <2>3. /\ op = "replay" => todo \subseteq DOMAIN events
        /\ op = "reconcile" => todo \subseteq DOMAIN payments
        /\ op \in {"replay", "reconcile"}
    BY <1>1, <1>5, <2>1 DEF TaskFits, FitsTodo
  <2> QED
    BY <2>2, <2>3, TakeNextSteps
<1> QED
  BY <1>2, <1>3, <1>4, <1>5

\* The next statement for the same event.
LEMMA GotoSteps ==
  ASSUME Orderly, Grows, NEW s \in Slots, slot[s].pc \in Handling,
         NEW pc \in {"select", "mark", "fail"}, Goto(s, pc),
         NEW e, e = slot[s].ev,
         slot[s].pc = "store" => e \in DOMAIN events',
         pc = "mark" /\ e.type = "paid" => InBooks(e)'
  PROVE  StepsTo(s)
<1>0. PICK t : t = slot[s]
  OBVIOUS
<1>1. IsTask(t) /\ TaskFits(t) /\ t.pc \in Handling
  BY <1>0 DEF Orderly, Ledger, EvidenceInv, Shapes, TasksFit
<1>2. TaskFits(t)'
  BY <1>1, FitsOn
<1>3. PICK u : u = [t EXCEPT !.pc = pc]
  OBVIOUS
<1>4. IsTask(u) /\ u.pc = pc /\ u.op = t.op /\ u.ev = t.ev /\ u.row = t.row /\ u.to = t.to /\ u.todo = t.todo
  BY SMTT(30), <1>1, <1>3, MovedFields
<1>5. t.ev \in DOMAIN events'
  BY <1>0, <1>1, <1>2 DEF TaskFits, FitsEvent
<1>6. pc = "mark" /\ u.ev.type = "paid" => InBooks(u.ev)'
  BY <1>0, <1>4
<1>7. FitsEvent(u)'
  BY <1>1, <1>2, <1>4, <1>5, <1>6 DEF TaskFits, FitsEvent
<1>8. FitsHit(u)' /\ FitsRow(u)' /\ FitsTodo(u)'
  BY <1>2, <1>4 DEF TaskFits, FitsHit, FitsRow, FitsTodo
<1>9. slot' = [slot EXCEPT ![s] = u]
  BY <1>0, <1>3 DEF Goto
<1> QED
  BY <1>4, <1>7, <1>8, <1>9 DEF StepsTo, TaskFits

(***************************************************************************)
(* Tables.                                                                 *)
(***************************************************************************)
EventRow == [status : {"received", "processed", "failed"}, retries : Nat]

LEMMA AnnouncedOn ==
  ASSUME NEW txn, NEW i, Announced(txn, i), Grows
  PROVE  Announced(txn, i)'
BY DEF Announced, Says, Grows

\* Every new event, row and transaction comes from a webhook.
LEMMA LedgerOn ==
  ASSUME Orderly, Grows, TypeOK', TxnsOwned',
         \A e \in DOMAIN events' \union sent' : e \in DOMAIN events \union sent \/ Aimed(e)',
         \A e \in due' : e \in due \/ Addressed(e)',
         \A i \in DOMAIN mock' :
           (i \in DOMAIN mock /\ mock'[i] = mock[i]) \/ Says(sent', mock'[i].txn, i),
         \A p \in DOMAIN payments' :
           p \in DOMAIN payments \/ Says(sent', payments'[p].txn, payments'[p].intent)
  PROVE  Ledger'
<1>1. EventsAimed'
  <2>1. \A e \in DOMAIN events \union sent : Aimed(e)'
    BY AimedOn DEF Orderly, Ledger, EventsAimed
  <2>2. \A e \in due : Addressed(e)'
    BY DEF Orderly, Ledger, EventsAimed, Addressed, Grows
  <2> QED
    BY <2>1, <2>2 DEF EventsAimed
<1>2. RowsAnnounced'
  <2>1. \A i \in DOMAIN mock' : Says(sent', mock'[i].txn, i)
    <3>1. ASSUME NEW i \in DOMAIN mock, NEW txn, txn = mock[i].txn
          PROVE  Announced(txn, i)'
      BY <3>1, AnnouncedOn DEF Orderly, Ledger, RowsAnnounced
    <3> QED
      BY <3>1 DEF Announced, Says
  <2>2. \A p \in DOMAIN payments' : Says(sent', payments'[p].txn, payments'[p].intent)
    <3>1. ASSUME NEW p \in DOMAIN payments, NEW txn, NEW i,
                 txn = payments[p].txn, i = payments[p].intent
          PROVE  Announced(txn, i)'
      BY <3>1, AnnouncedOn DEF Orderly, Ledger, RowsAnnounced
    <3> QED
      BY <3>1 DEF Announced, Says, Grows
  <2> QED
    BY <2>1, <2>2 DEF RowsAnnounced, Announced
<1> QED
  BY <1>1, <1>2 DEF Ledger

LEMMA OwnedOn ==
  ASSUME Orderly, due' \union sent' \subseteq due \union sent, drawn' = drawn
  PROVE  TxnsOwned'
BY DEF Orderly, Ledger, TxnsOwned

LEMMA LedgerSame ==
  ASSUME Orderly, Grows, TypeOK', UNCHANGED <<due, sent, drawn, mock>>,
         \A e \in DOMAIN events' : e \in DOMAIN events \/ Aimed(e),
         \A p \in DOMAIN payments' :
           p \in DOMAIN payments \/ Says(sent, payments'[p].txn, payments'[p].intent)
  PROVE  Ledger'
<1>1. TxnsOwned'
  BY OwnedOn
<1>2. \A e \in DOMAIN events' \union sent' : e \in DOMAIN events \union sent \/ Aimed(e)'
  BY AimedOn
<1>3. \A p \in DOMAIN payments' :
        p \in DOMAIN payments \/ Says(sent', payments'[p].txn, payments'[p].intent)
  OBVIOUS
<1> QED
  BY <1>1, <1>2, <1>3, LedgerOn

LEMMA QuietTables ==
  ASSUME Orderly, UNCHANGED <<order, book, events, remote, errors, restarts, history>>
  PROVE  Ledger' /\ Grows
<1>1. TypeOK'
  BY DEF Orderly, Ledger, TypeOK, book, remote, history
<1>2. Grows /\ UNCHANGED <<due, sent, drawn, mock, events, payments>>
  BY DEF Grows, book, remote
<1> QED
  BY <1>1, <1>2, LedgerSame

LEMMA IntentSet ==
  ASSUME TypeOK, NEW i \in DOMAIN intents, NEW x \in IntentStatus,
         intents' = [intents EXCEPT ![i] = x]
  PROVE  intents' \in Seq(IntentStatus) /\ Len(intents') = Len(intents) /\ DOMAIN intents' = DOMAIN intents
<1>1. intents \in Seq(IntentStatus)
  BY DEF TypeOK
<1> QED
  BY <1>1, SetsElement

LEMMA RefundSet ==
  ASSUME TypeOK, NEW r \in DOMAIN refunds, NEW x \in RefundRow,
         refunds' = [refunds EXCEPT ![r] = x]
  PROVE  refunds' \in Seq(RefundRow) /\ DOMAIN refunds' = DOMAIN refunds
<1>1. refunds \in Seq(RefundRow)
  BY DEF TypeOK, RefundRow
<1> QED
  BY <1>1, SetsElement

LEMMA EventSet ==
  ASSUME TypeOK, NEW e \in Event, NEW status \in {"received", "processed", "failed"}, NEW n \in Nat,
         SetEvent(e, status, n)
  PROVE  /\ DOMAIN events' = DOMAIN events \union {e}
         /\ DOMAIN events' \subseteq Event
         /\ \A x \in DOMAIN events' : events'[x] \in EventRow
         /\ events'[e] = [status |-> status, retries |-> n]
         /\ \A x \in DOMAIN events \ {e} : events'[x] = events[x]
BY DEF TypeOK, SetEvent, EventRow

\* A step of one slot keeps the invariant when the tables stay in order.
LEMMA Keeps ==
  ASSUME Orderly, Next, NEW s \in Slots, StepsTo(s), Grows, Ledger'
  PROVE  Orderly'
<1>1. EvidenceInv'
  BY EvidenceNext DEF Orderly, Ledger
<1>2. TasksFit'
  BY TasksFitOn
<1> QED
  BY <1>1, <1>2 DEF Orderly, Ledger

LEMMA BeginSteps ==
  ASSUME Grows, NEW s \in Slots, NEW op, NEW t, Begin(s, op, t), IsTask(t), TaskFits(t)
  PROVE  StepsTo(s)
BY FitsOn DEF Begin, StepsTo

(***************************************************************************)
(* The actions.                                                            *)
(***************************************************************************)
LEMMA OrderFits ==
  ASSUME Orderly, NEW s \in Slots,
         (\E op \in {"mark_paid", "cancel", "close"} : OrderRead(s, op)) \/ OrderWrite(s)
  PROVE  StepsTo(s) /\ Grows /\ Ledger'
<1>1. ASSUME NEW op \in {"mark_paid", "cancel", "close"}, OrderRead(s, op)
      PROVE  StepsTo(s) /\ Grows /\ Ledger'
  <2>1. Grows /\ Ledger'
    BY <1>1, QuietTables DEF OrderRead
  <2>2. PICK row : row = order
    OBVIOUS
  <2>3. PICK t : t = [Task(op, "write") EXCEPT !.seen = row]
    OBVIOUS
  <2>4. IsTask(t) /\ t.op = op /\ t.pc = "write" /\ t.seen = row
    BY <2>3 DEF Task, IsTask, Fields
  <2>5. row \in OrderRow
    BY <2>2 DEF Orderly, Ledger, TypeOK, OrderRow
  <2>6. TaskFits(t)
    BY <2>4, <2>5 DEF TaskFits, FitsEvent, FitsHit, FitsRow, FitsTodo, Handling
  <2>7. Begin(s, op, t)
    BY <1>1, <2>2, <2>3 DEF OrderRead
  <2> QED
    BY <2>1, <2>4, <2>6, <2>7, BeginSteps
<1>2. CASE OrderWrite(s)
  <2>1. slot[s].seen \in OrderRow
    BY <1>2 DEF OrderWrite, Orderly, Ledger, TasksFit, TaskFits, FitsRow
  <2>2. order' \in OrderRow /\ manual' \in BOOLEAN /\ withdrawn' \in BOOLEAN
    <3>1. manual \in BOOLEAN /\ withdrawn \in BOOLEAN
      BY DEF Orderly, Ledger, TypeOK
    <3>2. PICK row : row = slot[s].seen
      OBVIOUS
    <3>3. row.status \in Status /\ row.pay \in PaymentStatus
      BY <2>1, <3>2 DEF OrderRow
    <3>4. CASE order' = [status |-> NextStatus(row.status), pay |-> "PAID"]
      BY <1>2, <3>1, <3>3, <3>4 DEF OrderWrite, OrderRow, Status, PaymentStatus, NextStatus
    <3>5. CASE order' = [status |-> "CANCELLED_BY_TRAVELER", pay |-> RefundedIfPaid(row.pay)]
      BY <1>2, <3>1, <3>3, <3>5
         DEF OrderWrite, OrderRow, Status, PaymentStatus, Cancelled, RefundedIfPaid
    <3>6. CASE order' = [status |-> "CANCELLED_REFUNDED", pay |-> "REFUNDED"]
      BY <1>2, <3>1, <3>6 DEF OrderWrite, OrderRow, Status, PaymentStatus, Cancelled
    <3> QED
      BY <1>2, <3>2, <3>4, <3>5, <3>6 DEF OrderWrite
  <2>3. UNCHANGED <<intents, payments, refunds, events, mock, due, sent, drawn, errors, restarts, skipped>>
    BY <1>2 DEF OrderWrite, book, remote
  <2>4. Grows /\ TypeOK'
    BY <2>2, <2>3 DEF Orderly, Ledger, TypeOK, Grows, OrderRow
  <2>5. Ledger'
    BY <2>3, <2>4, LedgerSame
  <2> QED
    BY <1>2, <2>4, <2>5, FinishSteps DEF OrderWrite
<1> QED
  BY <1>1, <1>2

\* create_intent, and the last statement of confirm.
LEMMA CreateFits ==
  ASSUME Orderly, NEW s \in Slots, CreateRead(s) \/ CreateInsert(s) \/ Settle(s)
  PROVE  StepsTo(s) /\ Grows /\ Ledger'
<1>1. CASE CreateRead(s)
  <2>1. Grows /\ Ledger'
    BY <1>1, QuietTables DEF CreateRead
  <2>2. PICK t : t = Task("create", "insert")
    OBVIOUS
  <2>3. IsTask(t) /\ t.op = "create" /\ t.pc = "insert"
    BY <2>2 DEF Task, IsTask, Fields
  <2>4. TaskFits(t)
    BY <2>3 DEF TaskFits, FitsEvent, FitsHit, FitsRow, FitsTodo, Handling
  <2> QED
    BY <1>1, <2>1, <2>2, <2>3, <2>4, BeginSteps DEF CreateRead
<1>2. CASE CreateInsert(s)
  <2>1. UNCHANGED <<order, payments, refunds, events, due, sent, drawn, errors, restarts, manual, withdrawn, skipped>>
    BY <1>2 DEF CreateInsert, history
  <2>2. CASE UNCHANGED <<intents, mock>>
    <3>1. Grows /\ Ledger'
      BY <2>1, <2>2, QuietTables DEF book, remote, history
    <3> QED
      BY <1>2, <3>1, FinishSteps DEF CreateInsert
  <2>3. CASE /\ intents' = Append(intents, "requires_confirmation")
             /\ mock' = Append(mock, [status |-> "requires_confirmation", txn |-> 0])
    <3>1. PICK x, U : /\ x = [status |-> "requires_confirmation", txn |-> 0]
                      /\ U = [status : IntentStatus \union {"lost"}, txn : Nat]
      OBVIOUS
    <3>2. /\ intents \in Seq(IntentStatus) /\ "requires_confirmation" \in IntentStatus
          /\ mock \in Seq(U) /\ x \in U /\ Len(mock) = Len(intents)
      BY <3>1 DEF Orderly, Ledger, TypeOK, IntentStatus
    <3>3. /\ intents' \in Seq(IntentStatus) /\ DOMAIN intents \subseteq DOMAIN intents'
          /\ mock' \in Seq(U) /\ Len(mock') = Len(intents')
      BY <2>3, <3>1, <3>2, AddsElement
    <3>4. PICK S, T : /\ S = [intent : DOMAIN intents, txn : Nat]
                      /\ T = [intent : DOMAIN intents', txn : Nat]
      OBVIOUS
    <3>5. payments \in Seq(S) /\ S \subseteq T
      BY <3>3, <3>4 DEF Orderly, Ledger, TypeOK
    <3>6. payments' \in Seq(T)
      BY <2>1, <3>5, SeqMonotonic
    <3>7. TypeOK'
      BY <2>1, <3>1, <3>3, <3>4, <3>6 DEF Orderly, Ledger, TypeOK
    <3>8. Grows
      BY <2>1, <3>3 DEF Grows
    <3>9. Ledger'
      <4>1. /\ mock'[Len(mock) + 1] = x /\ DOMAIN mock' = DOMAIN mock \union {Len(mock) + 1}
            /\ \A i \in DOMAIN mock : mock'[i] = mock[i]
        BY <2>3, <3>1, <3>2, AddsElement
      <4>2. \A i \in DOMAIN mock' :
              (i \in DOMAIN mock /\ mock'[i] = mock[i]) \/ Says(sent', mock'[i].txn, i)
        BY <3>1, <4>1 DEF Announced, Says
      <4>3. TxnsOwned'
        BY <2>1, OwnedOn
      <4> QED
        BY <2>1, <3>7, <3>8, <4>2, <4>3, LedgerOn
    <3> QED
      BY <1>2, <3>7, <3>8, <3>9, FinishSteps DEF CreateInsert
  <2> QED
    BY <1>2, <2>2, <2>3 DEF CreateInsert
<1>3. CASE Settle(s)
  <2>1. slot[s].row \in DOMAIN intents /\ slot[s].to \in IntentStatus
    BY <1>3 DEF Settle, At, Orderly, Ledger, TasksFit, TaskFits, FitsRow
  <2>2. intents' \in Seq(IntentStatus) /\ Len(intents') = Len(intents) /\ DOMAIN intents' = DOMAIN intents
    BY <1>3, <2>1, IntentSet DEF Settle, Orderly, Ledger
  <2>3. UNCHANGED <<order, payments, refunds, events, mock, due, sent, drawn, errors, restarts, manual, withdrawn, skipped>>
    BY <1>3 DEF Settle, remote, history
  <2>4. Grows /\ TypeOK'
    BY <2>2, <2>3 DEF Orderly, Ledger, TypeOK, Grows
  <2>5. Ledger'
    BY <2>3, <2>4, LedgerSame
  <2> QED
    BY <1>3, <2>4, <2>5, FinishSteps DEF Settle
<1> QED
  BY <1>1, <1>2, <1>3

(***************************************************************************)
(* The provider.                                                           *)
(***************************************************************************)
MockRow == [status : IntentStatus \union {"lost"}, txn : Nat]

LEMMA MockSet ==
  ASSUME TypeOK, NEW i \in DOMAIN intents
  PROVE  /\ mock[i] \in MockRow
         /\ \A x \in MockRow : LET new == [mock EXCEPT ![i] = x] IN
                                 new \in Seq(MockRow) /\ Len(new) = Len(mock)
<1>1. mock \in Seq(MockRow)
  BY DEF TypeOK, MockRow
<1>2. i \in DOMAIN mock
  BY IntentRows
<1> QED
  BY <1>1, <1>2, SetsElement, ElementOfSeq, LenProperties

\* What the provider does leaves the tables alone.
LEMMA ProviderTypes ==
  ASSUME Orderly, UNCHANGED <<order, book, events, errors, restarts, history>>,
         mock' \in Seq(MockRow), Len(mock') = Len(mock), drawn' \in Nat,
         \A e \in due' \union sent' : e \in due \union sent \/ Addressed(e)
  PROVE  TypeOK'
<1>1. UNCHANGED <<order, intents, payments, refunds, events, errors, restarts, manual, withdrawn, skipped>>
  BY DEF book, history
<1>2. due' \union sent' \subseteq Event
  BY DEF Orderly, Ledger, TypeOK, Addressed
<1> QED
  BY <1>1, <1>2 DEF Orderly, Ledger, TypeOK, MockRow

\* A webhook of a new number belongs to the intent it is about.
LEMMA OwnedNew ==
  ASSUME Orderly, NEW W, \A e \in W : e.type \in Outcome => e.txn = 0,
         NEW h, h.type \in Outcome => h.txn \in {0, drawn'},
         sent' = sent, due' \subseteq due \union W \union {h}, drawn' = drawn + 1
  PROVE  TxnsOwned'
<1>1. drawn \in Nat
  BY DEF Orderly, Ledger, TypeOK
<1>2. \A e \in due \union sent : e.type \in Outcome => e.txn \in Nat /\ e.txn <= drawn
  BY DEF Orderly, Ledger, TypeOK, TxnsOwned, Event
<1> QED
  BY <1>1, <1>2 DEF Orderly, Ledger, TxnsOwned

LEMMA ConfirmFits ==
  ASSUME Orderly, NEW s \in Slots, NEW i \in DOMAIN intents, NEW outcome \in Outcome,
         ConfirmRead(s, i, outcome)
  PROVE  StepsTo(s) /\ Grows /\ Ledger'
<1>0. TypeOK /\ drawn \in Nat /\ drawn' = drawn + 1 /\ sent' = sent
  BY DEF Orderly, Ledger, TypeOK, ConfirmRead
<1>1. TypeOK /\ i \in Nat /\ drawn' \in Nat /\ mock[i] \in MockRow
  BY <1>0, IntentRows, MockSet
<1> DEFINE h == Hook(drawn', outcome, i)
<1>2. Addressed(h) /\ (h.type \in Outcome => h.txn \in {0, drawn'})
  BY <1>1 DEF Addressed, Hook, Event, Type, Outcome
<1> HIDE DEF h
<1>3. mock' \in Seq(MockRow) /\ Len(mock') = Len(mock)
  <2>1. CASE UNCHANGED mock
    BY <1>1, <2>1 DEF TypeOK, MockRow
  <2>2. CASE mock' = [mock EXCEPT ![i].status = "processing"]
    <3>1. PICK x : x = [mock[i] EXCEPT !.status = "processing"]
      OBVIOUS
    <3>2. x \in MockRow
      BY <1>1, <3>1 DEF MockRow, IntentStatus
    <3>3. mock' = [mock EXCEPT ![i] = x]
      BY <2>2, <3>1
    <3> QED
      BY <1>1, <3>2, <3>3, MockSet
  <2> QED
    BY <2>1, <2>2 DEF ConfirmRead
<1>4. due' \subseteq due \union {h}
  BY DEF ConfirmRead, h
<1>5. Ledger' /\ Grows
  <2>1. TypeOK'
    BY <1>0, <1>1, <1>2, <1>3, <1>4, ProviderTypes DEF ConfirmRead
  <2>2. TxnsOwned'
    <3>1. PICK W : W = {}
      OBVIOUS
    <3>2. /\ \A e \in W : e.type \in Outcome => e.txn = 0
          /\ due' \subseteq due \union W \union {h}
      BY <1>4, <3>1
    <3> QED
      BY <1>0, <1>2, <3>2, OwnedNew
  <2>3. UNCHANGED <<intents, refunds, events, payments>>
    BY DEF ConfirmRead, book
  <2>4. Grows
    BY <1>0, <2>3 DEF Grows
  <2>5. \A e \in due' : e \in due \/ Addressed(e)'
    BY <1>2, <1>4, <2>3 DEF Addressed
  <2>6. \A j \in DOMAIN mock' :
          (j \in DOMAIN mock /\ mock'[j] = mock[j]) \/ Says(sent', mock'[j].txn, j)
    <3>1. CASE UNCHANGED mock
      BY <3>1
    <3>2. CASE mock' = [mock EXCEPT ![i].status = "processing"]
      <4>1. DOMAIN mock' = DOMAIN mock /\ \A j \in DOMAIN mock : j # i => mock'[j] = mock[j]
        BY <3>2
      <4>2. i \in DOMAIN mock
        BY <1>1, IntentRows
      <4>3. mock'[i].txn = mock[i].txn
        BY <1>1, <3>2, <4>2 DEF MockRow
      <4>4. PICK txn : txn = mock[i].txn
        OBVIOUS
      <4>5. Announced(txn, i)
        BY <4>2, <4>4 DEF Orderly, Ledger, RowsAnnounced
      <4>6. Announced(txn, i)'
        BY <2>4, <4>5, AnnouncedOn
      <4>7. Says(sent', mock'[i].txn, i)
        BY <4>3, <4>4, <4>6 DEF Announced, Says
      <4> QED
        BY <4>1, <4>7
    <3> QED
      BY <3>1, <3>2 DEF ConfirmRead
  <2> QED
    BY <1>0, <2>1, <2>2, <2>3, <2>4, <2>5, <2>6, LedgerOn
<1>6. PICK txn : txn = IF Answer(i) = "succeeded" THEN mock[i].txn ELSE 0
  OBVIOUS
<1>7. PICK to : to = Normalized(i, outcome)
  OBVIOUS
<1>8. txn \in Nat /\ to \in IntentStatus
  BY <1>1, <1>6, <1>7 DEF MockRow, Normalized, StatusOf, Answer, IntentStatus, Outcome
<1>a. Announced(txn, i)
  <2>1. i \in DOMAIN mock
    BY <1>1, IntentRows
  <2>2. Announced(mock[i].txn, i)
    BY <2>1 DEF Orderly, Ledger, RowsAnnounced
  <2> QED
    BY <1>6, <2>2 DEF Announced, Says
<1>9. CASE SyncType(i, outcome) = {}
  <2>1. PICK u : u = [Task("confirm", "settle") EXCEPT !.row = i, !.to = to]
    OBVIOUS
  <2>2. IsTask(u) /\ u.op = "confirm" /\ u.pc = "settle" /\ u.row = i /\ u.to = to
    BY <2>1 DEF Task, IsTask, Fields
  <2>3. TaskFits(u)
    BY <1>8, <2>2 DEF TaskFits, FitsEvent, FitsHit, FitsRow, FitsTodo, Handling
  <2>4. Begin(s, "confirm", u)
    BY <1>7, <1>9, <2>1 DEF ConfirmRead
  <2> QED
    BY <1>5, <2>2, <2>3, <2>4, BeginSteps
<1>10. ASSUME NEW type \in SyncType(i, outcome), NEW e, e = Sync(drawn', type, i, txn),
              Begin(s, "confirm", [[Task("confirm", "settle") EXCEPT !.row = i, !.to = to]
                                     EXCEPT !.pc = "store", !.ev = e])
       PROVE  StepsTo(s)
  <2>1. PICK u : u = [[Task("confirm", "settle") EXCEPT !.row = i, !.to = to]
                        EXCEPT !.pc = "store", !.ev = e]
    OBVIOUS
  <2>2. IsTask(u) /\ u.op = "confirm" /\ u.pc = "store" /\ u.row = i /\ u.to = to /\ u.ev = e
    BY <2>1 DEF Task, IsTask, Fields
  <2>3. type \in Outcome /\ Outcome \subseteq Type
    BY <1>10 DEF SyncType, Outcome, Type
  <2>4. Aimed(e)
    BY <1>1, <1>8, <1>a, <1>10, <2>3 DEF Aimed, Addressed, Sync, Event
  <2>5. TaskFits(u)
    BY <1>8, <2>2, <2>4 DEF TaskFits, FitsEvent, FitsHit, FitsRow, FitsTodo, Handling
  <2> QED
    BY <1>5, <1>10, <2>1, <2>2, <2>5, BeginSteps
<1> QED
  BY <1>5, <1>6, <1>7, <1>9, <1>10 DEF ConfirmRead

LEMMA HookFits ==
  ASSUME Orderly, NEW s \in Slots, NEW e,
         \/ e \in due /\ HookFires(s, e)
         \/ e \in sent /\ Redeliver(s, e)
  PROVE  StepsTo(s) /\ Grows /\ Ledger'
<1>1. Addressed(e)
  BY DEF Orderly, Ledger, EventsAimed, Aimed
<1>2. Grows /\ Ledger' /\ Aimed(e)'
  <2>1. CASE e \in sent /\ Redeliver(s, e)
    <3>1. Ledger' /\ Grows
      BY <2>1, QuietTables DEF Redeliver
    <3> QED
      BY <2>1, <3>1, AimedOn DEF Orderly, Ledger, EventsAimed
  <2>2. CASE e \in due /\ HookFires(s, e)
    <3>1. mock' \in Seq(MockRow) /\ Len(mock') = Len(mock)
      <4>1. CASE UNCHANGED mock
        BY <4>1 DEF Orderly, Ledger, TypeOK, MockRow
      <4>2. CASE e.type \in Outcome /\ mock' = [mock EXCEPT ![e.about] = [status |-> StatusOf(e.type), txn |-> e.txn]]
        <5>1. PICK x : x = [status |-> StatusOf(e.type), txn |-> e.txn]
          OBVIOUS
        <5>2. x \in MockRow /\ e.about \in DOMAIN intents
          BY <1>1, <4>2, <5>1 DEF MockRow, Addressed, Event, StatusOf, IntentStatus, Outcome
        <5> QED
          BY <4>2, <5>1, <5>2, MockSet DEF Orderly, Ledger
      <4> QED
        BY <2>2, <4>1, <4>2 DEF HookFires
    <3>2. /\ UNCHANGED <<order, book, events, drawn, errors, restarts, history>>
          /\ due' = due \ {e} /\ sent' = sent \union {e} /\ drawn' \in Nat
      BY <2>2 DEF HookFires, Orderly, Ledger, TypeOK
    <3>3. TypeOK'
      BY <1>1, <3>1, <3>2, ProviderTypes
    <3>4. UNCHANGED <<intents, refunds, events, payments>>
      BY <3>2 DEF book
    <3>5. Grows
      BY <3>2, <3>4 DEF Grows
    <3>6. Aimed(e)'
      BY <1>1, <3>2, <3>4 DEF Aimed, Addressed, Announced, Says
    <3>7. TxnsOwned'
      BY <2>2, <3>2, OwnedOn
    <3>8. \A j \in DOMAIN mock' :
            (j \in DOMAIN mock /\ mock'[j] = mock[j]) \/ Says(sent', mock'[j].txn, j)
      <4>1. CASE UNCHANGED mock
        BY <4>1
      <4>2. CASE e.type \in Outcome /\ mock' = [mock EXCEPT ![e.about] = [status |-> StatusOf(e.type), txn |-> e.txn]]
        <5>1. DOMAIN mock' = DOMAIN mock /\ \A j \in DOMAIN mock : j # e.about => mock'[j] = mock[j]
          BY <4>2
        <5>2. e.about \in DOMAIN mock => mock'[e.about].txn = e.txn
          BY <4>2
        <5>3. Announced(e.txn, e.about)'
          BY <3>2, <4>2 DEF Announced, Says
        <5>4. e.about \in DOMAIN mock => Says(sent', mock'[e.about].txn, e.about)
          BY <5>2, <5>3 DEF Announced, Says
        <5> QED
          BY <5>1, <5>4
      <4> QED
        BY <2>2, <4>1, <4>2 DEF HookFires
    <3>9. Ledger'
      BY <3>2, <3>3, <3>4, <3>5, <3>6, <3>7, <3>8, LedgerOn
    <3> QED
      BY <3>5, <3>6, <3>9
  <2> QED
    BY <2>1, <2>2
<1>3. PICK u : u = [Task("hook", "store") EXCEPT !.ev = e]
  OBVIOUS
<1>4. IsTask(u) /\ u.op = "hook" /\ u.pc = "store" /\ u.ev = e /\ u.todo = {}
  BY <1>3 DEF Task, IsTask, Fields
<1>5. TaskFits(u)'
  BY <1>2, <1>4 DEF TaskFits, FitsEvent, FitsHit, FitsRow, FitsTodo, Handling
<1>6. slot' = [slot EXCEPT ![s] = u]
  BY <1>3 DEF HookFires, Redeliver, Begin
<1> QED
  BY <1>2, <1>4, <1>5, <1>6 DEF StepsTo

\* The status of an event is set.
LEMMA EventTables ==
  ASSUME Orderly, NEW e, Aimed(e), NEW status \in {"received", "processed", "failed"},
         NEW n \in Nat, SetEvent(e, status, n), skipped' \subseteq Event,
         UNCHANGED <<order, book, remote, errors, restarts, manual, withdrawn>>
  PROVE  Ledger' /\ Grows
<1>1. /\ DOMAIN events' = DOMAIN events \union {e}
      /\ DOMAIN events' \subseteq Event
      /\ \A x \in DOMAIN events' : events'[x] \in EventRow
  BY EventSet DEF Orderly, Ledger, Aimed, Addressed
<1>2. UNCHANGED <<order, intents, payments, refunds, mock, due, sent, drawn, errors, restarts, manual, withdrawn>>
  BY DEF book, remote
<1>3. Grows
  BY <1>1, <1>2 DEF Grows
<1>4. TypeOK'
  BY <1>1, <1>2 DEF Orderly, Ledger, TypeOK, EventRow
<1>5. \A x \in DOMAIN events' : x \in DOMAIN events \/ Aimed(x)
  BY <1>1
<1> QED
  BY <1>2, <1>3, <1>4, <1>5, LedgerSame

\* The event of a slot, its row, and what the slot is doing.
LEMMA EventOf ==
  ASSUME Orderly, NEW s \in Slots, slot[s].pc \in Handling, NEW e, e = slot[s].ev
  PROVE  /\ Aimed(e) /\ e \in Event
         /\ slot[s].pc # "store" => e \in DOMAIN events /\ events[e] \in EventRow
         /\ slot[s].pc = "mark" /\ e.type = "paid" => InBooks(e)
<1>1. FitsEvent(slot[s])
  BY DEF Orderly, TasksFit, TaskFits
<1>2. \A x \in DOMAIN events : events[x] \in EventRow
  BY DEF Orderly, Ledger, TypeOK, EventRow
<1> QED
  BY <1>1, <1>2 DEF FitsEvent, Aimed, Addressed

LEMMA StoreFits ==
  ASSUME Orderly, NEW s \in Slots, Store(s)
  PROVE  StepsTo(s) /\ Grows /\ Ledger'
<1>1. PICK e : e = slot[s].ev
  OBVIOUS
<1>2. slot[s].pc = "store" /\ slot[s].pc \in Handling
  BY DEF Store, Handling
<1>3. Aimed(e) /\ e \in Event
  BY <1>1, <1>2, EventOf
<1>4. skipped' \subseteq Event
  BY <1>1, <1>3 DEF Store, Orderly, Ledger, TypeOK
<1>5. Ledger' /\ Grows
  <2>1. CASE e \in DOMAIN events
    <3>1. UNCHANGED <<order, intents, payments, refunds, events, mock, due, sent, drawn, errors, restarts, manual, withdrawn>>
      BY <1>1, <2>1 DEF Store, book, remote
    <3>2. TypeOK' /\ Grows
      BY <1>4, <3>1 DEF Orderly, Ledger, TypeOK, Grows
    <3> QED
      BY <3>1, <3>2, LedgerSame
  <2>2. CASE e \notin DOMAIN events
    <3>1. SetEvent(e, "received", 0)
      BY <1>1, <2>2 DEF Store
    <3> QED
      BY <1>3, <1>4, <3>1, EventTables DEF Store
  <2> QED
    BY <2>1, <2>2
<1>6. e \in DOMAIN events'
  <2>1. CASE e \in DOMAIN events
    BY <1>5, <2>1 DEF Grows
  <2>2. CASE e \notin DOMAIN events
    BY <1>1, <2>2 DEF Store, SetEvent
  <2> QED
    BY <2>1, <2>2
<1>7. CASE Goto(s, "select")
  BY <1>1, <1>2, <1>5, <1>6, <1>7, GotoSteps
<1>8. CASE Resume(s)
  BY <1>2, <1>5, <1>8, ResumeSteps
<1> QED
  BY <1>5, <1>7, <1>8 DEF Store

LEMMA SelectFits ==
  ASSUME Orderly, NEW s \in Slots, Select(s)
  PROVE  StepsTo(s) /\ Grows /\ Ledger'
<1>1. Ledger' /\ Grows
  BY QuietTables DEF Select
<1>2. PICK t, e : t = slot[s] /\ e = t.ev
  OBVIOUS
<1>3. t.pc = "select" /\ t.pc \in Handling
  BY <1>2 DEF Select, Handling
<1>4. IsTask(t) /\ TaskFits(t) /\ Aimed(e) /\ e \in DOMAIN events
  BY <1>2, <1>3, EventOf DEF Orderly, EvidenceInv, Shapes, TasksFit
<1>5. ASSUME Hits(e) = {}, NEW pc \in {"mark", "fail"}, Goto(s, pc)
      PROVE  StepsTo(s)
  <2>1. e.type # "paid"
    BY <1>5 DEF Hits
  <2> QED
    BY <1>1, <1>2, <1>3, <1>5, <2>1, GotoSteps
<1>6. ASSUME NEW hit \in Hits(e),
             slot' = [slot EXCEPT ![s] = [t EXCEPT !.pc = "commit", !.hit = hit, !.seen = order]]
      PROVE  StepsTo(s)
  <2>1. PICK row : row = order
    OBVIOUS
  <2>2. PICK u : u = [t EXCEPT !.pc = "commit", !.hit = hit, !.seen = row]
    OBVIOUS
  <2>3. /\ IsTask(u) /\ u.pc = "commit" /\ u.hit = hit /\ u.seen = row /\ u.ev = e
        /\ u.op = t.op /\ u.row = t.row /\ u.to = t.to /\ u.todo = t.todo
    BY <1>2, <1>4, <2>2 DEF IsTask, Fields
  <2>4. row \in OrderRow
    BY <2>1 DEF Orderly, Ledger, TypeOK, OrderRow
  <2>5. FitsHit(u)
    BY <1>4, <1>6, <2>3 DEF FitsHit, Hits, Aimed, Addressed, Outcome
  <2>6. FitsEvent(u) /\ FitsRow(u) /\ FitsTodo(u)
    BY <1>2, <1>3, <1>4, <2>3, <2>4 DEF TaskFits, FitsEvent, FitsRow, FitsTodo, Handling
  <2>7. TaskFits(u)'
    BY <1>1, <2>5, <2>6, FitsOn DEF TaskFits
  <2> QED
    BY <1>6, <2>1, <2>2, <2>3, <2>7 DEF StepsTo
<1> QED
  BY <1>1, <1>2, <1>5, <1>6 DEF Select

\* A transaction the books have is one of this intent.
LEMMA SameIntent ==
  ASSUME Orderly, NEW txn, NEW i, NEW j, txn # 0, Announced(txn, i), Announced(txn, j)
  PROVE  i = j
BY DEF Announced, Says, Orderly, Ledger, TxnsOwned

LEMMA CommitPaidFits ==
  ASSUME Orderly, NEW s \in Slots, CommitPaid(s)
  PROVE  /\ StepsTo(s) /\ Grows /\ Ledger'
         /\ \A p, q \in DOMAIN payments' :
              payments'[p].txn = payments'[q].txn /\ payments'[p].txn # 0 =>
                p = q \/ (p \in DOMAIN payments /\ q \in DOMAIN payments)
<1>1. PICK t, e, hit : t = slot[s] /\ e = t.ev /\ hit = t.hit
  OBVIOUS
<1>2. t.pc = "commit" /\ t.pc \in Handling /\ e.type = "paid"
  BY <1>1 DEF CommitPaid, Committing, At, Handling
<1>3. TaskFits(t) /\ Aimed(e) /\ e \in Event
  BY <1>1, <1>2, EventOf DEF Orderly, TasksFit
<1>4. hit = e.about /\ hit \in DOMAIN intents /\ t.seen \in OrderRow
  BY <1>1, <1>2, <1>3 DEF TaskFits, FitsHit, FitsRow, Outcome
<1>5. e.txn \in Nat /\ Announced(e.txn, e.about)
  BY <1>2, <1>3 DEF Aimed, Event, Outcome
<1>6. UNCHANGED <<refunds, events, mock, due, sent, drawn, errors, restarts, manual, withdrawn, skipped>>
  BY DEF CommitPaid, remote, history
<1>7. intents' \in Seq(IntentStatus) /\ Len(intents') = Len(intents) /\ DOMAIN intents' = DOMAIN intents
  <2>1. intents' = [intents EXCEPT ![hit] = "succeeded"] /\ "succeeded" \in IntentStatus
    BY <1>1 DEF CommitPaid, IntentStatus
  <2> QED
    BY <1>4, <2>1, IntentSet DEF Orderly, Ledger
<1>8. order' \in OrderRow
  BY <1>1, <1>4 DEF CommitPaid, OrderRow, NextStatus, Status, PaymentStatus
<1>9. PICK S, row : S = [intent : DOMAIN intents, txn : Nat] /\ row = [intent |-> hit, txn |-> e.txn]
  OBVIOUS
<1>10. payments \in Seq(S) /\ row \in S /\ row.txn = e.txn /\ row.intent = e.about
  BY <1>4, <1>5, <1>9 DEF Orderly, Ledger, TypeOK
<1>11. /\ payments' \in Seq(S) /\ DOMAIN payments \subseteq DOMAIN payments'
       /\ \A p \in DOMAIN payments : payments'[p] = payments[p]
       /\ \A p \in DOMAIN payments' : p \in DOMAIN payments \/ payments'[p] = row
       /\ \A p, q \in DOMAIN payments' \ DOMAIN payments : p = q
       /\ DOMAIN payments' # DOMAIN payments => ~Booked(e.txn)
       /\ \E p \in DOMAIN payments' : payments'[p].intent = e.about /\ e.txn \in {0, payments'[p].txn}
  <2>1. CASE Booked(e.txn)
    <3>1. payments' = payments
      BY <1>1, <2>1 DEF CommitPaid
    <3>2. PICK p \in DOMAIN payments : payments[p].txn = e.txn /\ e.txn # 0
      BY <2>1 DEF Booked
    <3>3. Announced(payments[p].txn, payments[p].intent)
      BY DEF Orderly, Ledger, RowsAnnounced
    <3>4. payments[p].intent = e.about
      BY <1>5, <3>2, <3>3, SameIntent
    <3> QED
      BY <1>10, <3>1, <3>2, <3>4
  <2>2. CASE ~Booked(e.txn)
    <3>1. payments' = Append(payments, row)
      BY <1>1, <1>9, <2>2 DEF CommitPaid
    <3>2. /\ payments' \in Seq(S)
          /\ Len(payments) + 1 \in DOMAIN payments' /\ payments'[Len(payments) + 1] = row
          /\ DOMAIN payments' = DOMAIN payments \union {Len(payments) + 1}
          /\ \A p \in DOMAIN payments : payments'[p] = payments[p]
      BY <1>10, <3>1, AddsElement
    <3> QED
      BY <1>10, <2>2, <3>2
  <2> QED
    BY <2>1, <2>2
<1>12. Grows /\ TypeOK'
  BY <1>6, <1>7, <1>8, <1>9, <1>11 DEF Grows, Orderly, Ledger, TypeOK, OrderRow
<1>13. Ledger'
  <2>1. \A p \in DOMAIN payments' :
          p \in DOMAIN payments \/ Says(sent, payments'[p].txn, payments'[p].intent)
    BY <1>5, <1>10, <1>11 DEF Announced
  <2> QED
    BY <1>6, <1>12, <2>1, LedgerSame
<1>14. InBooks(e)'
  BY <1>11 DEF InBooks
<1>15. StepsTo(s)
  <2>1. Goto(s, "mark") /\ slot[s].pc # "store"
    BY <1>1, <1>2 DEF CommitPaid
  <2> QED
    BY <1>1, <1>2, <1>12, <1>14, <2>1, GotoSteps
<1>16. \A p, q \in DOMAIN payments' :
         payments'[p].txn = payments'[q].txn /\ payments'[p].txn # 0 =>
           p = q \/ (p \in DOMAIN payments /\ q \in DOMAIN payments)
  <2>1. ASSUME NEW p \in DOMAIN payments, NEW q \in DOMAIN payments' \ DOMAIN payments,
               payments'[p].txn = payments'[q].txn, payments'[p].txn # 0
        PROVE  FALSE
    <3>1. payments[p].txn = e.txn /\ e.txn # 0
      BY <1>10, <1>11, <2>1
    <3>2. Booked(e.txn)
      BY <3>1 DEF Booked
    <3> QED
      BY <1>11, <2>1, <3>2
  <2> QED
    BY <1>11, <2>1
<1> QED
  BY <1>12, <1>13, <1>15, <1>16

LEMMA CommitDeclinedFits ==
  ASSUME Orderly, NEW s \in Slots, CommitDeclined(s)
  PROVE  StepsTo(s) /\ Grows /\ Ledger'
<1>1. PICK t, e, hit : t = slot[s] /\ e = t.ev /\ hit = t.hit
  OBVIOUS
<1>2. t.pc = "commit" /\ t.pc \in Handling /\ e.type \in {"declined", "action"}
  BY <1>1 DEF CommitDeclined, Committing, At, Handling
<1>3. hit \in DOMAIN intents
  BY <1>1, <1>2 DEF Orderly, TasksFit, TaskFits, FitsHit, Outcome
<1>4. intents' = [intents EXCEPT ![hit] = StatusOf(e.type)] /\ StatusOf(e.type) \in IntentStatus
  BY <1>1 DEF CommitDeclined, StatusOf, IntentStatus
<1>5. intents' \in Seq(IntentStatus) /\ Len(intents') = Len(intents) /\ DOMAIN intents' = DOMAIN intents
  BY <1>3, <1>4, IntentSet DEF Orderly, Ledger
<1>6. UNCHANGED <<order, payments, refunds, events, mock, due, sent, drawn, errors, restarts, manual, withdrawn, skipped>>
  BY DEF CommitDeclined, remote, history
<1>7. Grows /\ TypeOK'
  BY <1>5, <1>6 DEF Grows, Orderly, Ledger, TypeOK
<1>8. Ledger'
  BY <1>6, <1>7, LedgerSame
<1>9. Goto(s, "mark") /\ e.type # "paid" /\ slot[s].pc # "store"
  BY <1>1, <1>2 DEF CommitDeclined
<1> QED
  BY <1>1, <1>2, <1>7, <1>8, <1>9, GotoSteps

\* A row of refunds is written.
LEMMA RefundTables ==
  ASSUME Orderly, NEW r \in DOMAIN refunds, NEW status \in {"processing", "succeeded", "failed"},
         NEW rid \in Nat, SetRefund(r, status, rid), order' \in OrderRow,
         UNCHANGED <<intents, payments, events, remote, errors, restarts, history>>
  PROVE  Ledger' /\ Grows
<1>1. PICK row : row = [status |-> status, rid |-> rid]
  OBVIOUS
<1>2. row \in RefundRow
  BY <1>1 DEF RefundRow
<1>3. refunds' = [refunds EXCEPT ![r] = row]
  BY <1>1 DEF SetRefund
<1>4. refunds' \in Seq(RefundRow) /\ DOMAIN refunds' = DOMAIN refunds
  BY <1>2, <1>3, RefundSet DEF Orderly, Ledger
<1>5. UNCHANGED <<intents, payments, events, mock, due, sent, drawn, errors, restarts, manual, withdrawn, skipped>>
  BY DEF remote, history
<1>6. Grows /\ TypeOK'
  BY <1>4, <1>5 DEF Grows, Orderly, Ledger, TypeOK, OrderRow, RefundRow
<1> QED
  BY <1>5, <1>6, LedgerSame

LEMMA RefundRows ==
  ASSUME Orderly
  PROVE  \A r \in DOMAIN refunds : refunds[r] \in RefundRow /\ refunds[r].rid \in Nat /\ r \in Nat
<1>1. PICK S : S = RefundRow
  OBVIOUS
<1>2. refunds \in Seq(S)
  BY <1>1 DEF Orderly, Ledger, TypeOK, RefundRow
<1>3. \A r \in DOMAIN refunds : refunds[r] \in S /\ r \in Nat
  BY <1>2, ElementOfSeq, LenProperties
<1> QED
  BY <1>1, <1>3 DEF RefundRow

LEMMA PaysBack ==
  ASSUME Orderly, NEW pay \in PaymentStatus, order' = [order EXCEPT !.pay = pay]
  PROVE  order' \in OrderRow
BY DEF Orderly, Ledger, TypeOK, OrderRow

LEMMA CommitRefundFits ==
  ASSUME Orderly, NEW s \in Slots, CommitRefunded(s) \/ CommitRefundFailed(s)
  PROVE  StepsTo(s) /\ Grows /\ Ledger'
<1>1. PICK t, e, hit : t = slot[s] /\ e = t.ev /\ hit = t.hit
  OBVIOUS
<1>2. t.pc = "commit" /\ t.pc \in Handling /\ e.type \in {"refunded", "refund_failed"}
  BY <1>1 DEF CommitRefunded, CommitRefundFailed, Committing, At, Handling
<1>3. hit \in DOMAIN refunds /\ e.about \in Nat /\ refunds[hit].rid \in Nat
  <2>1. hit \in DOMAIN refunds
    BY <1>1, <1>2 DEF Orderly, TasksFit, TaskFits, FitsHit, Outcome
  <2>2. e \in Event
    BY <1>1, <1>2, EventOf
  <2> QED
    BY <2>1, <2>2, RefundRows DEF Event
<1>4. Ledger' /\ Grows
  <2>1. CASE UNCHANGED <<order, refunds>>
    <3>1. UNCHANGED <<order, book, events, remote, errors, restarts, history>>
      BY <2>1 DEF CommitRefunded, CommitRefundFailed, book
    <3> QED
      BY <3>1, QuietTables
  <2>2. CASE SetRefund(hit, "succeeded", e.about) /\ order' = [order EXCEPT !.pay = "REFUNDED"]
    <3>1. order' \in OrderRow
      BY <2>2, PaysBack DEF PaymentStatus
    <3> QED
      BY <1>3, <2>2, <3>1, RefundTables DEF CommitRefunded, CommitRefundFailed
  <2>3. CASE SetRefund(hit, "failed", refunds[hit].rid) /\ order' = order
    <3>1. order' \in OrderRow
      BY <2>3 DEF Orderly, Ledger, TypeOK, OrderRow
    <3> QED
      BY <1>3, <2>3, <3>1, RefundTables DEF CommitRefunded, CommitRefundFailed
  <2> QED
    BY <1>1, <2>1, <2>2, <2>3 DEF CommitRefunded, CommitRefundFailed
<1>5. PICK pc \in {"mark", "fail"} : Goto(s, pc)
  BY DEF CommitRefunded, CommitRefundFailed
<1>6. e.type # "paid" /\ slot[s].pc # "store"
  BY <1>1, <1>2
<1> QED
  BY <1>1, <1>2, <1>4, <1>5, <1>6, GotoSteps

LEMMA MarkFits ==
  ASSUME Orderly, NEW s \in Slots, Mark(s) \/ Fail(s)
  PROVE  StepsTo(s) /\ Grows /\ Ledger'
<1>1. PICK e : e = slot[s].ev
  OBVIOUS
<1>2. slot[s].pc \in {"mark", "fail"} /\ slot[s].pc \in Handling
  BY DEF Mark, Fail, At, Handling
<1>3. Aimed(e) /\ e \in DOMAIN events /\ events[e] \in EventRow
  BY <1>1, <1>2, EventOf
<1>4. PICK status \in {"received", "processed", "failed"}, n \in Nat : SetEvent(e, status, n)
  BY <1>1, <1>3 DEF Mark, Fail, EventRow
<1>5. UNCHANGED <<order, book, remote, errors, restarts, manual, withdrawn, skipped>>
  BY DEF Mark, Fail, history
<1>6. skipped' \subseteq Event
  BY <1>5 DEF Orderly, Ledger, TypeOK
<1>7. Ledger' /\ Grows
  BY <1>3, <1>4, <1>5, <1>6, EventTables
<1>8. Resume(s)
  BY DEF Mark, Fail
<1> QED
  BY <1>2, <1>7, <1>8, ResumeSteps

\* A refund is asked for: the provider draws an id and answers later.
LEMMA AskedTables ==
  ASSUME Orderly, drawn' = drawn + 1, RefundAnswer(drawn'),
         refunds' \in Seq(RefundRow), DOMAIN refunds \subseteq DOMAIN refunds',
         UNCHANGED <<order, intents, payments, events, mock, sent, errors, restarts, history>>
  PROVE  Ledger' /\ Grows /\ drawn' \in Nat
<1>1. PICK type \in RefundAnswers : due' = due \union {Hook(drawn', type, drawn')}
  BY DEF RefundAnswer
<1>2. PICK h : h = Hook(drawn', type, drawn')
  OBVIOUS
<1>3. drawn \in Nat /\ drawn' \in Nat
  BY DEF Orderly, Ledger, TypeOK
<1>4. h \in Event /\ h.type \notin Outcome
  BY <1>2, <1>3, BoundsAssumption DEF Hook, Event, Type, Outcome
<1>5. UNCHANGED <<order, intents, payments, events, mock, sent, errors, restarts, manual, withdrawn, skipped>>
  BY DEF history
<1>6. Grows
  BY <1>5 DEF Grows
<1>7. TypeOK'
  BY <1>1, <1>2, <1>3, <1>4, <1>5 DEF Orderly, Ledger, TypeOK, RefundRow
<1>8. TxnsOwned'
  <2>1. PICK W : W = {}
    OBVIOUS
  <2>2. /\ \A e \in W : e.type \in Outcome => e.txn = 0
        /\ due' \subseteq due \union W \union {h}
    BY <1>1, <1>2, <2>1
  <2> QED
    BY <1>4, <1>5, <2>2, OwnedNew
<1>9. \A e \in due' : e \in due \/ Addressed(e)'
  BY <1>1, <1>2, <1>4 DEF Addressed
<1> QED
  BY <1>3, <1>5, <1>6, <1>7, <1>8, <1>9, LedgerOn

LEMMA RefundFits ==
  ASSUME Orderly, NEW s \in Slots,
         RefundRequest(s) \/ \E r \in DOMAIN refunds : RetryRequest(s, r)
  PROVE  StepsTo(s) /\ Grows /\ Ledger'
<1>1. ASSUME NEW op \in {"refund", "retry"}, NEW r \in DOMAIN refunds', drawn' \in Nat, Grows, Ledger',
             NEW id, id = drawn',
             Begin(s, op, [Task(op, "update") EXCEPT !.row = r, !.id = id])
      PROVE  StepsTo(s)
  <2>1. PICK u : u = [Task(op, "update") EXCEPT !.row = r, !.id = id]
    OBVIOUS
  <2>2. IsTask(u) /\ u.op = op /\ u.pc = "update" /\ u.row = r /\ u.id = id
    BY <2>1 DEF Task, IsTask, Fields
  <2>3. TaskFits(u)'
    BY <1>1, <2>2 DEF TaskFits, FitsEvent, FitsHit, FitsRow, FitsTodo, Handling
  <2> QED
    BY <1>1, <2>1, <2>2, <2>3 DEF StepsTo, Begin
<1>2. CASE RefundRequest(s)
  <2>1. PICK row : row = [status |-> "requested", rid |-> 0]
    OBVIOUS
  <2>2. refunds \in Seq(RefundRow) /\ row \in RefundRow
    BY <2>1 DEF Orderly, Ledger, TypeOK, RefundRow
  <2>3. refunds' = Append(refunds, row)
    BY <1>2, <2>1 DEF RefundRequest
  <2>4. /\ refunds' \in Seq(RefundRow) /\ DOMAIN refunds \subseteq DOMAIN refunds'
        /\ Len(refunds') \in DOMAIN refunds'
    BY <2>2, <2>3, AddsElement
  <2>5. Ledger' /\ Grows /\ drawn' \in Nat
    BY <1>2, <2>4, AskedTables DEF RefundRequest
  <2>6. PICK r, id : r = Len(refunds') /\ id = drawn'
    OBVIOUS
  <2>7. Begin(s, "refund", [Task("refund", "update") EXCEPT !.row = r, !.id = id])
    BY <1>2, <2>6 DEF RefundRequest
  <2> QED
    BY <1>1, <2>4, <2>5, <2>6, <2>7
<1>3. ASSUME NEW r \in DOMAIN refunds, RetryRequest(s, r)
      PROVE  StepsTo(s) /\ Grows /\ Ledger'
  <2>1. refunds' = refunds /\ UNCHANGED <<order, intents, payments, events, mock, sent, errors, restarts, history>>
    BY <1>3 DEF RetryRequest, book
  <2>2. refunds' \in Seq(RefundRow)
    BY <2>1 DEF Orderly, Ledger, TypeOK, RefundRow
  <2>3. Ledger' /\ Grows /\ drawn' \in Nat
    BY <1>3, <2>1, <2>2, AskedTables DEF RetryRequest
  <2>4. PICK id : id = drawn'
    OBVIOUS
  <2>5. Begin(s, "retry", [Task("retry", "update") EXCEPT !.row = r, !.id = id])
    BY <1>3, <2>4 DEF RetryRequest
  <2> QED
    BY <1>1, <2>1, <2>3, <2>4, <2>5
<1> QED
  BY <1>2, <1>3

LEMMA RefundedFits ==
  ASSUME Orderly, NEW s \in Slots, RefundUpdate(s) \/ RefundOrder(s)
  PROVE  StepsTo(s) /\ Grows /\ Ledger'
<1>1. CASE RefundOrder(s)
  <2>1. order' \in OrderRow
    BY <1>1, PaysBack DEF RefundOrder, PaymentStatus
  <2>2. UNCHANGED <<intents, payments, refunds, events, mock, due, sent, drawn, errors, restarts, manual, withdrawn, skipped>>
    BY <1>1 DEF RefundOrder, book, remote, history
  <2>3. Grows /\ TypeOK'
    BY <2>1, <2>2 DEF Grows, Orderly, Ledger, TypeOK, OrderRow
  <2>4. Ledger'
    BY <2>2, <2>3, LedgerSame
  <2> QED
    BY <1>1, <2>3, <2>4, FinishSteps DEF RefundOrder
<1>2. CASE RefundUpdate(s)
  <2>1. PICK t, r, id : t = slot[s] /\ r = t.row /\ id = t.id
    OBVIOUS
  <2>2. IsTask(t) /\ TaskFits(t) /\ t.pc = "update"
    BY <1>2, <2>1 DEF RefundUpdate, Orderly, EvidenceInv, Shapes, TasksFit
  <2>3. r \in DOMAIN refunds /\ id \in Nat
    BY <2>1, <2>2 DEF TaskFits, FitsRow
  <2>4. CASE UNCHANGED refunds /\ Finish(s)
    <3>1. UNCHANGED <<order, book, events, remote, errors, restarts, history>>
      BY <1>2, <2>4 DEF RefundUpdate, book
    <3>2. Ledger' /\ Grows
      BY <3>1, QuietTables
    <3> QED
      BY <2>4, <3>2, FinishSteps
  <2>5. CASE SetRefund(r, "processing", id) /\ Goto(s, "order")
    <3>1. order' \in OrderRow
      BY <1>2 DEF RefundUpdate, Orderly, Ledger, TypeOK, OrderRow
    <3>2. Ledger' /\ Grows
      BY <1>2, <2>3, <2>5, <3>1, RefundTables DEF RefundUpdate
    <3>3. PICK u : u = [t EXCEPT !.pc = "order"]
      OBVIOUS
    <3>4. IsTask(u) /\ u.pc = "order" /\ u.op = t.op /\ u.row = t.row /\ u.to = t.to /\ u.todo = t.todo
      BY <2>2, <3>3, MovedFields
    <3>5. TaskFits(u)
      BY <2>2, <3>4 DEF TaskFits, FitsEvent, FitsHit, FitsRow, FitsTodo, Handling
    <3>6. slot' = [slot EXCEPT ![s] = u]
      BY <2>1, <2>5, <3>3 DEF Goto
    <3> QED
      BY <3>2, <3>4, <3>5, <3>6, FitsOn DEF StepsTo
  <2> QED
    BY <1>2, <2>1, <2>4, <2>5 DEF RefundUpdate
<1> QED
  BY <1>1, <1>2

LEMMA JobFits ==
  ASSUME Orderly, NEW s \in Slots,
         ReplayList(s) \/ ReconcileList(s) \/ CleanupList(s) \/ CleanupStep(s)
  PROVE  StepsTo(s) /\ Grows /\ Ledger'
<1>1. CASE ReplayList(s) \/ ReconcileList(s) \/ CleanupList(s)
  <2>1. Ledger' /\ Grows
    BY <1>1, QuietTables DEF ReplayList, ReconcileList, CleanupList
  <2>2. PICK op, todo :
          /\ op \in {"replay", "reconcile", "cleanup"}
          /\ TakeNext(s, op, todo)
          /\ op = "replay" => todo \subseteq DOMAIN events
          /\ op = "reconcile" => todo \subseteq DOMAIN payments
          /\ op = "cleanup" => todo \subseteq DOMAIN intents
    <3>1. CASE ReplayList(s)
      BY <3>1 DEF ReplayList, StartJob
    <3>2. CASE ReconcileList(s)
      BY <3>2 DEF ReconcileList, StartJob
    <3>3. CASE CleanupList(s)
      BY <3>3 DEF CleanupList, StartJob
    <3> QED
      BY <1>1, <3>1, <3>2, <3>3
  <2> QED
    BY <2>1, <2>2, TakeNextSteps
<1>2. CASE CleanupStep(s)
  <2>1. PICK t, r, todo : t = slot[s] /\ r = t.row /\ todo = t.todo
    OBVIOUS
  <2>2. t.pc = "expire" /\ TaskFits(t)
    BY <1>2, <2>1 DEF CleanupStep, At, Orderly, TasksFit
  <2>3. r \in DOMAIN intents /\ todo \subseteq DOMAIN intents
    BY <2>1, <2>2 DEF TaskFits, FitsRow, FitsTodo
  <2>4. intents' = [intents EXCEPT ![r] = "failed"] /\ "failed" \in IntentStatus
    BY <1>2, <2>1 DEF CleanupStep, IntentStatus
  <2>5. intents' \in Seq(IntentStatus) /\ Len(intents') = Len(intents) /\ DOMAIN intents' = DOMAIN intents
    BY <2>3, <2>4, IntentSet DEF Orderly, Ledger
  <2>6. UNCHANGED <<order, payments, refunds, events, mock, due, sent, drawn, errors, restarts, manual, withdrawn, skipped>>
    BY <1>2 DEF CleanupStep, remote, history
  <2>7. Grows /\ TypeOK'
    BY <2>5, <2>6 DEF Grows, Orderly, Ledger, TypeOK
  <2>8. Ledger'
    BY <2>6, <2>7, LedgerSame
  <2>9. TakeNext(s, "cleanup", todo)
    BY <1>2, <2>1 DEF CleanupStep
  <2> QED
    BY <2>3, <2>7, <2>8, <2>9, TakeNextSteps
<1> QED
  BY <1>1, <1>2

\* The counters of faults are in their bounds.
LEMMA FaultTypes ==
  ASSUME Orderly, Restart \/ \E s \in Slots : StatementFails(s)
  PROVE  errors' \in 0 .. MaxErrors /\ restarts' \in 0 .. MaxRestarts
<1>1. errors \in 0 .. MaxErrors /\ restarts \in 0 .. MaxRestarts
  BY DEF Orderly, Ledger, TypeOK
<1>2. MaxErrors \in Nat /\ MaxRestarts \in Nat
  BY BoundsAssumption
<1>3. CASE Restart
  BY <1>1, <1>2, <1>3 DEF Restart
<1>4. ASSUME NEW s \in Slots, StatementFails(s)
      PROVE  errors' \in 0 .. MaxErrors /\ restarts' = restarts
  BY <1>1, <1>2, <1>4 DEF StatementFails
<1> QED
  BY <1>1, <1>3, <1>4

LEMMA CrashKeeps ==
  ASSUME Orderly, Crash, EvidenceInv',
         errors' \in 0 .. MaxErrors, restarts' \in 0 .. MaxRestarts
  PROVE  Orderly'
<1>1. UNCHANGED <<order, intents, payments, refunds, events, sent, drawn, manual, withdrawn, skipped>>
  BY DEF Crash, book, history
<1>2. PICK lost : lost = [status |-> "lost", txn |-> 0]
  OBVIOUS
<1>3. mock' = [i \in DOMAIN mock |-> lost] /\ due' = {} /\ lost \in MockRow /\ lost.txn = 0
  BY <1>2 DEF Crash, MockRow
<1>4. mock' \in Seq(MockRow) /\ Len(mock') = Len(mock)
  <2>1. mock \in Seq(MockRow)
    BY DEF Orderly, Ledger, TypeOK, MockRow
  <2>2. DOMAIN mock = 1 .. Len(mock) /\ Len(mock) \in Nat
    BY <2>1, LenProperties
  <2> QED
    BY <1>3, <2>2
<1>5. Grows /\ TypeOK'
  BY <1>1, <1>3, <1>4 DEF Grows, Orderly, Ledger, TypeOK, MockRow
<1>6. TxnsOwned'
  BY <1>1, <1>3, OwnedOn
<1>7. \A i \in DOMAIN mock' :
        (i \in DOMAIN mock /\ mock'[i] = mock[i]) \/ Says(sent', mock'[i].txn, i)
  BY <1>3 DEF Says
<1>8. Ledger'
  BY <1>1, <1>3, <1>5, <1>6, <1>7, LedgerOn
<1>9. TasksFit'
  <2>1. PICK t : t = NoTask
    OBVIOUS
  <2>2. TaskFits(t)'
    BY <1>5, <2>1, NoTaskFits, FitsOn
  <2>3. \A s \in Slots : slot'[s] = t
    BY <2>1 DEF Crash
  <2> QED
    BY <2>2, <2>3 DEF TasksFit
<1> QED
  BY <1>8, <1>9 DEF Orderly

LEMMA FaultKeeps ==
  ASSUME Orderly, Next, Restart \/ \E s \in Slots : StatementFails(s)
  PROVE  Orderly'
<1>1. EvidenceInv' /\ errors' \in 0 .. MaxErrors /\ restarts' \in 0 .. MaxRestarts
  BY EvidenceNext, FaultTypes DEF Orderly
<1>2. CASE Crash
  BY <1>1, <1>2, CrashKeeps
<1>3. ASSUME NEW s \in Slots, UNCHANGED <<order, book, events, remote, history>>,
             Finish(s) \/ (slot[s].pc \in {"select", "commit", "mark"} /\ Goto(s, "fail"))
      PROVE  Orderly'
  <2>1. UNCHANGED <<order, intents, payments, refunds, events, mock, due, sent, drawn, manual, withdrawn, skipped>>
    BY <1>3 DEF book, remote, history
  <2>2. Grows /\ TypeOK'
    BY <1>1, <2>1 DEF Grows, Orderly, Ledger, TypeOK
  <2>3. Ledger'
    BY <2>1, <2>2, LedgerSame
  <2>4. CASE Finish(s)
    BY <2>2, <2>3, <2>4, FinishSteps, Keeps
  <2>5. CASE slot[s].pc \in {"select", "commit", "mark"} /\ Goto(s, "fail")
    <3>1. PICK e : e = slot[s].ev
      OBVIOUS
    <3>2. slot[s].pc \in Handling /\ slot[s].pc # "store"
      BY <2>5 DEF Handling
    <3>3. StepsTo(s)
      BY <2>2, <2>5, <3>1, <3>2, GotoSteps
    <3> QED
      BY <2>2, <2>3, <3>3, Keeps
  <2> QED
    BY <1>3, <2>4, <2>5
<1> QED
  BY <1>2, <1>3 DEF Restart, StatementFails

(***************************************************************************)
(* The invariant.                                                          *)
(***************************************************************************)
LEMMA OrderlyInit == Init => Orderly
<1> SUFFICES ASSUME Init PROVE Orderly
  OBVIOUS
<1>1. EvidenceInv
  BY EvidenceInit
<1>2. intents = <<>> /\ payments = <<>> /\ refunds = <<>> /\ mock = <<>>
  BY DEF Init
<1>3. DOMAIN events = {} /\ due = {} /\ sent = {} /\ skipped = {}
  BY DEF Init
<1>4. /\ \A S : <<>> \in Seq(S)
      /\ DOMAIN mock = {} /\ DOMAIN payments = {} /\ Len(mock) = Len(intents)
  BY <1>2
<1>5. order \in [status : Status, pay : PaymentStatus]
  BY DEF Init, NewOrder, Status, PaymentStatus
<1>6. drawn \in Nat /\ errors \in 0 .. MaxErrors /\ restarts \in 0 .. MaxRestarts
  BY BoundsAssumption DEF Init
<1>7. TypeOK
  BY <1>2, <1>3, <1>4, <1>5, <1>6 DEF TypeOK, Init
<1>8. EventsAimed /\ RowsAnnounced /\ TxnsOwned
  BY <1>3, <1>4 DEF EventsAimed, RowsAnnounced, TxnsOwned
<1>9. TasksFit
  <2>1. \A s \in Slots : slot[s] = NoTask
    BY DEF Init
  <2> QED
    BY <2>1, NoTaskFits DEF TasksFit
<1> QED
  BY <1>1, <1>7, <1>8, <1>9 DEF Orderly, Ledger

LEMMA OrderlyNext == Orderly /\ [Next]_vars => Orderly'
<1> SUFFICES ASSUME Orderly, [Next]_vars PROVE Orderly'
  OBVIOUS
<1>1. CASE UNCHANGED vars
  <2>1. /\ UNCHANGED <<order, intents, payments, refunds, events, mock, due, sent, drawn, slot>>
        /\ UNCHANGED <<errors, restarts, manual, withdrawn, skipped>>
    BY <1>1 DEF vars
  <2>2. EvidenceInv'
    BY EvidenceNext DEF Orderly
  <2>3. Grows /\ TypeOK'
    BY <2>1 DEF Grows, Orderly, Ledger, TypeOK
  <2>4. Ledger'
    BY <2>1, <2>3, LedgerSame
  <2>5. TasksFit'
    <3>1. ASSUME NEW s \in Slots, NEW t, t = slot[s]
          PROVE  TaskFits(t)'
      BY <2>3, <3>1, FitsOn DEF Orderly, TasksFit
    <3> QED
      BY <2>1, <3>1 DEF TasksFit
  <2> QED
    BY <2>2, <2>4, <2>5 DEF Orderly
<1>2. ASSUME Next, NEW s \in Slots, Arrive(s) \/ Timer(s) \/ Continue(s)
      PROVE  Orderly'
  <2>1. CASE Arrive(s)
    <3>1. StepsTo(s) /\ Grows /\ Ledger'
      BY <2>1, OrderFits, CreateFits, ConfirmFits, HookFits, RefundFits DEF Arrive
    <3> QED
      BY <1>2, <3>1, Keeps
  <2>2. CASE Timer(s)
    <3>1. StepsTo(s) /\ Grows /\ Ledger'
      BY <2>2, HookFits, JobFits DEF Timer
    <3> QED
      BY <1>2, <3>1, Keeps
  <2>3. CASE Continue(s)
    <3>1. StepsTo(s) /\ Grows /\ Ledger'
      BY <2>3, OrderFits, CreateFits, StoreFits, SelectFits, CommitPaidFits, CommitDeclinedFits,
         CommitRefundFits, MarkFits, RefundedFits, JobFits
         DEF Continue
    <3> QED
      BY <1>2, <3>1, Keeps
  <2> QED
    BY <1>2, <2>1, <2>2, <2>3
<1>3. CASE Next
  BY <1>2, <1>3, FaultKeeps DEF Next
<1> QED
  BY <1>1, <1>3

(***************************************************************************)
(* Who writes the tables.                                                  *)
(***************************************************************************)
LEMMA WritesEvents ==
  ASSUME [Next]_vars
  PROVE  UNCHANGED events \/ \E s \in Slots : Store(s) \/ Mark(s) \/ Fail(s)
<1>1. ASSUME NEW s \in Slots, Arrive(s) \/ Timer(s)
      PROVE  UNCHANGED events
  BY <1>1 DEF Arrive, Timer, OrderRead, CreateRead, ConfirmRead, Redeliver, RefundRequest, RetryRequest,
              HookFires, ReplayList, ReconcileList, CleanupList
<1>2. ASSUME NEW s \in Slots, Continue(s)
      PROVE  UNCHANGED events \/ Store(s) \/ Mark(s) \/ Fail(s)
  BY <1>2 DEF Continue, OrderWrite, CreateInsert, Settle, Select, CommitPaid, CommitDeclined,
              CommitRefunded, CommitRefundFailed, RefundUpdate, RefundOrder, CleanupStep
<1>3. ASSUME Restart \/ \E s \in Slots : StatementFails(s)
      PROVE  UNCHANGED events
  BY <1>3 DEF Restart, StatementFails, Crash
<1>4. CASE UNCHANGED vars
  BY <1>4 DEF vars
<1> QED
  BY <1>1, <1>2, <1>3, <1>4 DEF Next

LEMMA WritesPayments ==
  ASSUME [Next]_vars
  PROVE  UNCHANGED payments \/ \E s \in Slots : CommitPaid(s)
<1>1. ASSUME NEW s \in Slots, Arrive(s) \/ Timer(s)
      PROVE  UNCHANGED payments
  BY <1>1 DEF Arrive, Timer, OrderRead, CreateRead, ConfirmRead, Redeliver, RefundRequest, RetryRequest,
              HookFires, ReplayList, ReconcileList, CleanupList, book
<1>2. ASSUME NEW s \in Slots, Continue(s)
      PROVE  UNCHANGED payments \/ CommitPaid(s)
  BY <1>2 DEF Continue, OrderWrite, CreateInsert, Settle, Store, Select, CommitDeclined, CommitRefunded,
              CommitRefundFailed, Mark, Fail, RefundUpdate, RefundOrder, CleanupStep, book
<1>3. ASSUME Restart \/ \E s \in Slots : StatementFails(s)
      PROVE  UNCHANGED payments
  BY <1>3 DEF Restart, StatementFails, Crash, book
<1>4. CASE UNCHANGED vars
  BY <1>4 DEF vars
<1> QED
  BY <1>1, <1>2, <1>3, <1>4 DEF Next

LEMMA WritesOrder ==
  ASSUME Orderly, [Next]_vars
  PROVE  \/ UNCHANGED order /\ (withdrawn => withdrawn')
         \/ order'.pay # "REFUNDED"
         \/ withdrawn'
         \/ \E s \in Slots : Committing(s, {"refunded"})
<1>1. ASSUME NEW s \in Slots, Arrive(s) \/ Timer(s)
      PROVE  UNCHANGED <<order, withdrawn>>
  BY <1>1 DEF Arrive, Timer, OrderRead, CreateRead, ConfirmRead, Redeliver, RefundRequest, RetryRequest,
              HookFires, ReplayList, ReconcileList, CleanupList, history
<1>2. ASSUME NEW s \in Slots, Continue(s)
      PROVE  \/ UNCHANGED <<order, withdrawn>>
             \/ order'.pay # "REFUNDED"
             \/ withdrawn'
             \/ Committing(s, {"refunded"})
  <2>1. CASE RefundOrder(s)
    <3>1. order.pay \in PaymentStatus /\ order = [status |-> order.status, pay |-> order.pay]
      BY DEF Orderly, Ledger, TypeOK
    <3>2. order'.pay = "REFUNDING"
      BY <2>1, <3>1 DEF RefundOrder
    <3> QED
      BY <3>2
  <2>2. CASE CommitPaid(s) \/ CommitRefunded(s) \/ OrderWrite(s)
    BY <2>2 DEF CommitPaid, CommitRefunded, OrderWrite
  <2>3. CASE ~(RefundOrder(s) \/ CommitPaid(s) \/ CommitRefunded(s) \/ OrderWrite(s))
    BY <1>2, <2>3 DEF Continue, CreateInsert, Settle, Store, Select, CommitDeclined,
                      CommitRefundFailed, Mark, Fail, RefundUpdate, CleanupStep, history
  <2> QED
    BY <2>1, <2>2, <2>3
<1>3. ASSUME Restart \/ \E s \in Slots : StatementFails(s)
      PROVE  UNCHANGED <<order, withdrawn>>
  BY <1>3 DEF Restart, StatementFails, Crash, history
<1>4. CASE UNCHANGED vars
  BY <1>4 DEF vars
<1> QED
  BY <1>1, <1>2, <1>3, <1>4 DEF Next

\* The rows of refunds that a step makes succeed.
Answers(s, r) ==
  /\ Committing(s, {"refunded"})
  /\ refunds'[r].rid = slot[s].ev.about

LEMMA WritesRefunds ==
  ASSUME Orderly, [Next]_vars, NEW r \in DOMAIN refunds', refunds'[r].status = "succeeded"
  PROVE  \/ r \in DOMAIN refunds /\ refunds[r] = refunds'[r]
         \/ \E s \in Slots : Answers(s, r)
<1>1. ASSUME NEW s \in Slots, RefundRequest(s)
      PROVE  r \in DOMAIN refunds /\ refunds[r] = refunds'[r]
  <2>1. PICK S, row : S = RefundRow /\ row = [status |-> "requested", rid |-> 0]
    OBVIOUS
  <2>2. refunds \in Seq(S) /\ row \in S
    BY <2>1 DEF Orderly, Ledger, TypeOK, RefundRow
  <2>3. refunds' = Append(refunds, row) /\ row.status # "succeeded"
    BY <1>1, <2>1 DEF RefundRequest
  <2> QED
    BY <2>2, <2>3, AddsElement
<1>2. ASSUME NEW s \in Slots, Arrive(s) \/ Timer(s), ~RefundRequest(s)
      PROVE  UNCHANGED refunds
  BY <1>2 DEF Arrive, Timer, OrderRead, CreateRead, ConfirmRead, Redeliver, RetryRequest,
              HookFires, ReplayList, ReconcileList, CleanupList, book
<1>3. ASSUME NEW s \in Slots, Continue(s)
      PROVE  (r \in DOMAIN refunds /\ refunds[r] = refunds'[r]) \/ Answers(s, r)
  <2>1. ASSUME NEW x, NEW status, NEW rid, SetRefund(x, status, rid), status # "succeeded" \/ Answers(s, x)
        PROVE  (r \in DOMAIN refunds /\ refunds[r] = refunds'[r]) \/ Answers(s, r)
    <3>1. PICK row : row = [status |-> status, rid |-> rid]
      OBVIOUS
    <3>2. refunds' = [refunds EXCEPT ![x] = row] /\ row.status = status
      BY <2>1, <3>1 DEF SetRefund
    <3>3. CASE r = x
      BY <2>1, <3>2, <3>3
    <3> QED
      BY <3>2, <3>3
  <2>2. CASE CommitRefunded(s)
    <3>1. CASE UNCHANGED refunds
      BY <3>1
    <3>2. CASE SetRefund(slot[s].hit, "succeeded", slot[s].ev.about)
      <4>1. slot[s].hit \in DOMAIN refunds
        BY <2>2 DEF CommitRefunded, Committing, At, Orderly, TasksFit, TaskFits, FitsHit, Outcome
      <4>2. Answers(s, slot[s].hit)
        BY <2>2, <3>2, <4>1 DEF CommitRefunded, Answers, SetRefund
      <4> QED
        BY <2>1, <3>2, <4>2
    <3> QED
      BY <2>2, <3>1, <3>2 DEF CommitRefunded
  <2>3. CASE CommitRefundFailed(s)
    BY <2>1, <2>3 DEF CommitRefundFailed
  <2>4. CASE RefundUpdate(s)
    <3>1. CASE UNCHANGED refunds
      BY <3>1
    <3>2. CASE SetRefund(slot[s].row, "processing", slot[s].id)
      BY <2>1, <3>2
    <3> QED
      BY <2>4, <3>1, <3>2 DEF RefundUpdate
  <2>5. CASE ~(CommitRefunded(s) \/ CommitRefundFailed(s) \/ RefundUpdate(s))
    BY <1>3, <2>5 DEF Continue, OrderWrite, CreateInsert, Settle, Store, Select, CommitPaid,
                      CommitDeclined, Mark, Fail, RefundOrder, CleanupStep, book
  <2> QED
    BY <2>2, <2>3, <2>4, <2>5
<1>4. ASSUME Restart \/ \E s \in Slots : StatementFails(s)
      PROVE  UNCHANGED refunds
  BY <1>4 DEF Restart, StatementFails, Crash, book
<1>5. CASE UNCHANGED vars
  BY <1>5 DEF vars
<1> QED
  BY <1>1, <1>2, <1>3, <1>4, <1>5 DEF Next

\* Nothing is ever taken out of the tables.
LEMMA TablesGrow ==
  ASSUME Orderly, [Next]_vars
  PROVE  DOMAIN events \subseteq DOMAIN events' /\ \A e : InBooks(e) => InBooks(e)'
<1>1. DOMAIN events \subseteq DOMAIN events'
  BY WritesEvents DEF Store, Mark, Fail, SetEvent
<1>2. CASE UNCHANGED payments
  BY <1>1, <1>2 DEF InBooks
<1>3. ASSUME NEW s \in Slots, CommitPaid(s)
      PROVE  \A e : InBooks(e) => InBooks(e)'
  BY <1>3, CommitPaidFits DEF Grows, InBooks
<1> QED
  BY <1>1, <1>2, <1>3, WritesPayments

(***************************************************************************)
(* The theorems.                                                           *)
(***************************************************************************)
LEMMA OrderlyAlways == Spec => []Orderly
<1> QED
  BY OrderlyInit, OrderlyNext, PTL DEF Spec

\* In every behaviour of the payment service (payments.js, eventProcessor.js,
\* webhookHandler.js, mockProvider.js, jobs/payments.js) the tables, the
\* provider's memory and the local state have their types.
THEOREM PaymentsType == Spec => []TypeOK
<1>1. Orderly => TypeOK
  BY DEF Orderly, Ledger
<1> QED
  BY <1>1, OrderlyAlways, PTL

\* However failures, repetitions and replays interleave, a payment event is
\* marked processed (eventProcessor.js) only when its payment is in the books.
THEOREM MarkedIsBooked == Spec => []ProcessedMeansBooked
<1>1. Init => ProcessedMeansBooked
  BY DEF Init, ProcessedMeansBooked
<1>2. Orderly /\ ProcessedMeansBooked /\ [Next]_vars => ProcessedMeansBooked'
  <2> SUFFICES ASSUME Orderly, ProcessedMeansBooked, [Next]_vars,
                      NEW e \in DOMAIN events', e.type = "paid", events'[e].status = "processed"
               PROVE  InBooks(e)'
    BY DEF ProcessedMeansBooked, InBooks
  <2>1. InBooks(e) => InBooks(e)'
    BY TablesGrow
  <2>2. CASE e \in DOMAIN events /\ events[e].status = "processed"
    BY <2>1, <2>2 DEF ProcessedMeansBooked, InBooks
  <2>3. ASSUME NEW s \in Slots, Mark(s), e = slot[s].ev
        PROVE  InBooks(e)
    BY <2>3, EventOf DEF Mark, At, Handling
  <2>4. ASSUME NEW s \in Slots, Store(s) \/ Fail(s) \/ (Mark(s) /\ e # slot[s].ev)
        PROVE  e \in DOMAIN events /\ events[e].status = "processed"
    <3>1. CASE Store(s)
      BY <3>1 DEF Store, SetEvent
    <3>2. CASE Mark(s) /\ e # slot[s].ev
      BY <3>2 DEF Mark, SetEvent
    <3>3. CASE Fail(s)
      <4>1. slot[s].ev \in DOMAIN events
        BY <3>3, EventOf DEF Fail, At, Handling
      <4> QED
        BY <3>3, <4>1 DEF Fail, SetEvent
    <3> QED
      BY <2>4, <3>1, <3>2, <3>3
  <2> QED
    BY <2>1, <2>2, <2>3, <2>4, WritesEvents
<1> QED
  BY <1>1, <1>2, OrderlyAlways, PTL DEF Spec

\* A transaction of the provider is in the table payments at most once: the
\* unique index of migration 0013 with ON CONFLICT DO NOTHING in
\* eventProcessor.js, however often its event is processed.
THEOREM TransactionsOnce == Spec => []TxnBookedOnce
<1>1. Init => TxnBookedOnce
  BY DEF Init, TxnBookedOnce
<1>2. Orderly /\ TxnBookedOnce /\ [Next]_vars => TxnBookedOnce'
  <2> SUFFICES ASSUME Orderly, TxnBookedOnce, [Next]_vars PROVE TxnBookedOnce'
    OBVIOUS
  <2>1. CASE UNCHANGED payments
    BY <2>1 DEF TxnBookedOnce
  <2>2. ASSUME NEW s \in Slots, CommitPaid(s)
        PROVE  TxnBookedOnce'
    BY <2>2, CommitPaidFits DEF TxnBookedOnce, Grows
  <2> QED
    BY <2>1, <2>2, WritesPayments
<1> QED
  BY <1>1, <1>2, OrderlyAlways, PTL DEF Spec

\* An order says REFUNDED only after a withdrawal (orders.js) or a refund
\* webhook (eventProcessor.js); asking for a refund (payments.js) is not enough.
THEOREM RefundsAreAnnounced == Spec => []RefundedByWebhook
<1>1. Init => RefundedByWebhook
  BY DEF Init, NewOrder, RefundedByWebhook
<1>2. Orderly /\ RefundedByWebhook /\ [Next]_vars => RefundedByWebhook'
  <2> SUFFICES ASSUME Orderly, RefundedByWebhook, [Next]_vars, order'.pay = "REFUNDED"
               PROVE  withdrawn' \/ \E e \in DOMAIN events' : e.type = "refunded"
    BY DEF RefundedByWebhook
  <2>1. DOMAIN events \subseteq DOMAIN events'
    BY TablesGrow
  <2>2. ASSUME NEW s \in Slots, Committing(s, {"refunded"})
        PROVE  \E e \in DOMAIN events : e.type = "refunded"
    BY <2>2, EventOf DEF Committing, At, Handling
  <2> QED
    BY <2>1, <2>2, WritesOrder DEF RefundedByWebhook
<1> QED
  BY <1>1, <1>2, OrderlyAlways, PTL DEF Spec

\* A refund that succeeded carries the id of a refund the provider made,
\* although eventProcessor.js books its webhook on the youngest row and
\* retries (payments.js) give rows new ids.
THEOREM RefundsAreAnswered == Spec => []SucceededRefundIsAnswered
<1>1. Init => SucceededRefundIsAnswered
  BY DEF Init, SucceededRefundIsAnswered
<1>2. Orderly /\ SucceededRefundIsAnswered /\ [Next]_vars => SucceededRefundIsAnswered'
  <2> SUFFICES ASSUME Orderly, SucceededRefundIsAnswered, [Next]_vars,
                      NEW r \in DOMAIN refunds', refunds'[r].status = "succeeded"
               PROVE  \E e \in DOMAIN events' : e.type = "refunded" /\ e.about = refunds'[r].rid
    BY DEF SucceededRefundIsAnswered
  <2>1. DOMAIN events \subseteq DOMAIN events'
    BY TablesGrow
  <2>2. ASSUME NEW s \in Slots, Answers(s, r)
        PROVE  \E e \in DOMAIN events : e.type = "refunded" /\ e.about = refunds'[r].rid
    BY <2>2, EventOf DEF Answers, Committing, At, Handling
  <2> QED
    BY <2>1, <2>2, WritesRefunds DEF SucceededRefundIsAnswered
<1> QED
  BY <1>1, <1>2, OrderlyAlways, PTL DEF Spec

\* What is booked stays booked, in its place and unchanged, and no event that was
\* stored is forgotten.
BooksGrow ==
  /\ DOMAIN events \subseteq DOMAIN events'
  /\ DOMAIN payments \subseteq DOMAIN payments'
  /\ \A p \in DOMAIN payments : payments'[p] = payments[p]

\* The books are only added to: no statement of a handler or a job (payments.js,
\* eventProcessor.js, jobs/payments.js), and no crash, changes or removes a row
\* of payments, and none removes an event.
THEOREM BooksAreAppendOnly == Spec => [][BooksGrow]_vars
<1>1. Orderly /\ [Next]_vars => [BooksGrow]_vars
  <2> SUFFICES ASSUME Orderly, [Next]_vars PROVE BooksGrow
    OBVIOUS
  <2>1. DOMAIN events \subseteq DOMAIN events'
    BY TablesGrow
  <2>2. CASE UNCHANGED payments
    BY <2>1, <2>2 DEF BooksGrow
  <2>3. ASSUME NEW s \in Slots, CommitPaid(s)
        PROVE  BooksGrow
    BY <2>1, <2>3, CommitPaidFits DEF Grows, BooksGrow
  <2> QED
    BY <2>2, <2>3, WritesPayments
<1> QED
  BY <1>1, OrderlyAlways, PTL DEF Spec

(***************************************************************************)
(*                                Promise                                  *)
(***************************************************************************)

(***************************************************************************)
(* Where events come from.  What a confirmation is about to write to its   *)
(* intent, and what an order says of refunds, has its reason in the tables *)
(* already, or in the event at hand.                                       *)
(***************************************************************************)
\* What the provider says has an id.
Spoken(e) ==
  e.src = "hook" /\ (e.type = "paid" => e.txn # 0) /\ (e.type = "refunded" => e.about # 0)

\* What may be stored as an event.
Credible(e) ==
  \/ e.src = "hook" /\ e \in sent
  \/ /\ e.src = "reconcile" /\ e.type = "paid"
     /\ e.n \in DOMAIN payments /\ payments[e.n] = [intent |-> e.about, txn |-> e.txn]
  \/ e.src = "sync" /\ e.type \in {"paid", "declined"}

Reported(i) == \E e \in DOMAIN events : e.type = "paid" /\ e.about = i

Grounds(t) ==
  /\ t.pc = "store" => Credible(t.ev)
  /\ (t.op = "confirm" /\ t.to = "succeeded") =>
       IF t.pc = "settle" THEN Reported(t.row) ELSE t.ev.type = "paid" /\ t.ev.about = t.row
  /\ t.pc = "order" => DOMAIN refunds # {}

Grounded ==
  /\ \A e \in due \union sent : Spoken(e)
  /\ \A e \in DOMAIN events : Credible(e)
  /\ \A s \in Slots : Grounds(slot[s])

GroundsTo(s) == \E t : slot' = [slot EXCEPT ![s] = t] /\ Grounds(t)'

\* Nothing is ever taken out of the tables, whoever takes a step.
LEMMA AllGrow ==
  ASSUME Orderly, [Next]_vars
  PROVE  Grows
<1>1. ASSUME NEW s \in Slots, Arrive(s)
      PROVE  Grows
  BY <1>1, OrderFits, CreateFits, ConfirmFits, HookFits, RefundFits DEF Arrive
<1>2. ASSUME NEW s \in Slots, Timer(s)
      PROVE  Grows
  BY <1>2, HookFits, JobFits DEF Timer
<1>3. ASSUME NEW s \in Slots, Continue(s)
      PROVE  Grows
  BY <1>3, OrderFits, CreateFits, StoreFits, SelectFits, CommitPaidFits, CommitDeclinedFits,
     CommitRefundFits, MarkFits, RefundedFits, JobFits
     DEF Continue
<1>4. ASSUME Restart \/ \E s \in Slots : StatementFails(s)
      PROVE  Grows
  <2>1. UNCHANGED <<intents, payments, refunds, events, sent>>
    BY <1>4 DEF Restart, StatementFails, Crash, book, remote
  <2> QED
    BY <2>1 DEF Grows
<1>5. CASE UNCHANGED vars
  BY <1>5 DEF vars, Grows
<1> QED
  BY <1>1, <1>2, <1>3, <1>4, <1>5 DEF Next

LEMMA CredibleOn ==
  ASSUME NEW e, Credible(e), Grows
  PROVE  Credible(e)'
BY DEF Credible, Grows

LEMMA ReportedOn ==
  ASSUME NEW i, Reported(i), Grows
  PROVE  Reported(i)'
BY DEF Reported, Grows

LEMMA GroundsOn ==
  ASSUME NEW t, Grounds(t), Grows
  PROVE  Grounds(t)'
<1>1. DOMAIN refunds # {} => DOMAIN refunds' # {}
  BY DEF Grows
<1> QED
  BY <1>1, CredibleOn, ReportedOn DEF Grounds

LEMMA SlotsGrounded ==
  ASSUME Orderly, Grounded, Grows, NEW s \in Slots, GroundsTo(s)
  PROVE  \A x \in Slots : Grounds(slot[x])'
<1>1. PICK t : slot' = [slot EXCEPT ![s] = t] /\ Grounds(t)'
  BY DEF GroundsTo
<1>2. \A x \in Slots : slot'[x] = IF x = s THEN t ELSE slot[x]
  BY <1>1 DEF Orderly, Ledger, EvidenceInv, Shapes
<1>3. ASSUME NEW x \in Slots, NEW v, v = slot[x]
      PROVE  Grounds(v)'
  BY <1>3, GroundsOn DEF Grounded
<1>4. ASSUME NEW x \in Slots
      PROVE  Grounds(slot[x])'
  <2>1. PICK u, v : u = slot'[x] /\ v = slot[x]
    OBVIOUS
  <2>2. Grounds(v)'
    BY <1>3, <2>1
  <2>3. u = t \/ u = v
    BY <1>2, <2>1
  <2>4. Grounds(u)'
    BY <1>1, <2>2, <2>3
  <2> QED
    BY <2>1, <2>4
<1> QED
  BY <1>4

(***************************************************************************)
(* What slots go on with.                                                  *)
(***************************************************************************)
LEMMA NoTaskGrounds == Grounds(NoTask)
<1>1. NoTask.pc = "idle" /\ NoTask.op = "none"
  BY DEF NoTask, Task
<1> QED
  BY <1>1 DEF Grounds

LEMMA FinishGrounds ==
  ASSUME Grows, NEW s \in Slots, Finish(s)
  PROVE  GroundsTo(s)
<1>1. PICK t : t = NoTask
  OBVIOUS
<1>2. Grounds(t)'
  BY <1>1, NoTaskGrounds, GroundsOn
<1> QED
  BY <1>1, <1>2 DEF Finish, GroundsTo

\* A task that begins and is neither a confirmation nor about to store an event.
LEMMA BeginGrounds ==
  ASSUME NEW s \in Slots, NEW op, NEW t, Begin(s, op, t),
         t.op # "confirm", t.pc \notin {"store", "order"}
  PROVE  GroundsTo(s)
BY DEF Begin, GroundsTo, Grounds

\* The next statement of a task.
LEMMA GotoGrounds ==
  ASSUME Orderly, Grounded, Grows, NEW s \in Slots, slot[s].pc # "settle",
         NEW pc \in {"select", "mark", "fail", "order"}, Goto(s, pc),
         pc = "order" => DOMAIN refunds' # {}
  PROVE  GroundsTo(s)
<1>0. PICK t : t = slot[s]
  OBVIOUS
<1>1. IsTask(t) /\ Grounds(t) /\ t.pc # "settle"
  BY <1>0 DEF Orderly, EvidenceInv, Shapes, Grounded
<1>2. Grounds(t)'
  BY <1>1, GroundsOn
<1>3. PICK u : u = [t EXCEPT !.pc = pc]
  OBVIOUS
<1>4. u.pc = pc /\ u.op = t.op /\ u.ev = t.ev /\ u.row = t.row /\ u.to = t.to
  BY SMTT(30), <1>1, <1>3, MovedFields
<1>5. Grounds(u)'
  BY <1>1, <1>2, <1>4 DEF Grounds
<1>6. slot' = [slot EXCEPT ![s] = u]
  BY <1>0, <1>3 DEF Goto
<1> QED
  BY <1>5, <1>6 DEF GroundsTo

\* What a job goes on with: reconciliation repeats a row of the books.
LEMMA TakeNextGrounds ==
  ASSUME Orderly, Grows, NEW s \in Slots, NEW op \in {"replay", "reconcile", "cleanup"}, NEW todo,
         TakeNext(s, op, todo), op = "reconcile" => todo \subseteq DOMAIN payments
  PROVE  GroundsTo(s)
<1>1. CASE Finish(s)
  BY <1>1, FinishGrounds
<1>2. ASSUME NEW x \in todo, slot' = [slot EXCEPT ![s] = Listed(op, x, todo \ {x})]
      PROVE  GroundsTo(s)
  <2>1. PICK u, rest : u = Listed(op, x, rest) /\ rest = todo \ {x}
    OBVIOUS
  <2>2. CASE op \in {"replay", "cleanup"}
    <3>1. u.op = op /\ u.pc \in {"select", "expire"}
      BY <2>1, <2>2 DEF Listed, Task
    <3>2. Grounds(u)'
      BY <2>2, <3>1 DEF Grounds
    <3> QED
      BY <1>2, <2>1, <3>2 DEF GroundsTo
  <2>3. CASE op = "reconcile"
    <3>1. PICK e : e = Reconcile(x)
      OBVIOUS
    <3>2. u = [Task(op, "store") EXCEPT !.ev = e, !.todo = rest]
      BY <2>1, <2>3, <3>1 DEF Listed
    <3>3. u.op = op /\ u.pc = "store" /\ u.ev = e
      BY <3>2 DEF Task
    <3>4. Credible(e)
      <4>1. x \in DOMAIN payments
        BY <2>3
      <4>2. PICK S : S = [intent : DOMAIN intents, txn : Nat]
        OBVIOUS
      <4>3. payments \in Seq(S)
        BY <4>2 DEF Orderly, Ledger, TypeOK
      <4>4. payments[x] \in S
        BY <4>1, <4>3, ElementOfSeq, LenProperties
      <4>5. payments[x] = [intent |-> payments[x].intent, txn |-> payments[x].txn]
        BY <4>2, <4>4
      <4> QED
        BY <3>1, <4>1, <4>5 DEF Credible, Reconcile
    <3>5. Grounds(u)
      BY <2>3, <3>3, <3>4 DEF Grounds
    <3>6. Grounds(u)'
      BY <3>5, GroundsOn
    <3> QED
      BY <1>2, <2>1, <3>6 DEF GroundsTo
  <2> QED
    BY <2>2, <2>3
<1> QED
  BY <1>1, <1>2 DEF TakeNext

LEMMA ResumeGrounds ==
  ASSUME Orderly, Grounded, Grows, NEW s \in Slots, slot[s].pc \in Handling, Resume(s),
         slot[s].ev \in DOMAIN events'
  PROVE  GroundsTo(s)
<1>0. PICK t : t = slot[s]
  OBVIOUS
<1>1. IsTask(t) /\ TaskFits(t) /\ t.pc \in Handling /\ Grounds(t)
  BY <1>0 DEF Orderly, EvidenceInv, Shapes, TasksFit, Grounded
<1>2. t.op \in {"confirm", "hook", "replay", "reconcile"}
  BY <1>1 DEF TaskFits, FitsEvent
<1>3. CASE t.op = "confirm"
  <2>1. PICK u : u = [t EXCEPT !.pc = "settle"]
    OBVIOUS
  <2>2. u.pc = "settle" /\ u.op = t.op /\ u.row = t.row /\ u.to = t.to
    BY <1>1, <2>1, MovedFields
  <2>3. t.to = "succeeded" => t.ev.type = "paid" /\ t.ev.about = t.row
    BY <1>1, <1>3 DEF Grounds, Handling
  <2>4. t.to = "succeeded" => Reported(t.row)'
    BY <1>0, <2>3 DEF Reported
  <2>5. Grounds(u)'
    BY <2>2, <2>4 DEF Grounds
  <2>6. slot' = [slot EXCEPT ![s] = u]
    BY <1>0, <1>3, <2>1 DEF Resume, Goto
  <2> QED
    BY <2>5, <2>6 DEF GroundsTo
<1>4. CASE t.op = "hook"
  <2>1. TakeNext(s, "hook", {})
    BY <1>0, <1>1, <1>4 DEF Resume, TaskFits, FitsTodo
  <2>2. Finish(s)
    BY <2>1 DEF TakeNext
  <2> QED
    BY <2>2, FinishGrounds
<1>5. CASE t.op \in {"replay", "reconcile"}
  <2>1. PICK op, todo : op = t.op /\ todo = t.todo
    OBVIOUS
  <2>2. TakeNext(s, op, todo)
    BY <1>0, <1>5, <2>1 DEF Resume
  <2>3. op = "reconcile" => todo \subseteq DOMAIN payments
    BY <1>1, <2>1 DEF TaskFits, FitsTodo
  <2> QED
    BY <1>5, <2>1, <2>2, <2>3, TakeNextGrounds
<1> QED
  BY <1>2, <1>3, <1>4, <1>5

(***************************************************************************)
(* The actions keep to it.                                                 *)
(***************************************************************************)
\* A slot that leaves the events and the provider alone.
LEMMA GroundsKept ==
  ASSUME Orderly, Grounded, Grows, NEW s \in Slots, GroundsTo(s), due' \subseteq due,
         sent' = sent, events' = events
  PROVE  Grounded'
BY SlotsGrounded, CredibleOn DEF Grounded

LEMMA ArriveGrounded ==
  ASSUME Orderly, Grounded, Grows, NEW s \in Slots,
         \/ \E op \in {"mark_paid", "cancel", "close"} : OrderRead(s, op)
         \/ CreateRead(s)
         \/ \E e \in sent : Redeliver(s, e)
         \/ \E e \in due : HookFires(s, e)
  PROVE  Grounded'
<1>1. ASSUME NEW op \in {"mark_paid", "cancel", "close"}, OrderRead(s, op)
      PROVE  Grounded'
  <2>1. PICK row : row = order
    OBVIOUS
  <2>2. PICK t : t = [Task(op, "write") EXCEPT !.seen = row]
    OBVIOUS
  <2>3. t.op = op /\ t.pc = "write"
    BY <2>2 DEF Task
  <2>4. Begin(s, op, t) /\ UNCHANGED <<due, sent, events>>
    BY <1>1, <2>1, <2>2 DEF OrderRead, remote
  <2> QED
    BY <2>3, <2>4, BeginGrounds, GroundsKept
<1>2. CASE CreateRead(s)
  <2>1. PICK t : t = Task("create", "insert")
    OBVIOUS
  <2>2. t.op = "create" /\ t.pc = "insert"
    BY <2>1 DEF Task
  <2>3. Begin(s, "create", t) /\ UNCHANGED <<due, sent, events>>
    BY <1>2, <2>1 DEF CreateRead, remote
  <2> QED
    BY <2>2, <2>3, BeginGrounds, GroundsKept
<1>3. ASSUME NEW e \in due \union sent, NEW op \in {"hook", "redeliver"},
             Begin(s, op, [Task("hook", "store") EXCEPT !.ev = e]),
             sent' = sent \union {e}, due' \subseteq due, events' = events
      PROVE  Grounded'
  <2>1. PICK t : t = [Task("hook", "store") EXCEPT !.ev = e]
    OBVIOUS
  <2>2. t.op = "hook" /\ t.pc = "store" /\ t.ev = e
    BY <2>1 DEF Task
  <2>3. Spoken(e)
    BY DEF Grounded
  <2>4. Credible(e)'
    BY <1>3, <2>3 DEF Credible, Spoken
  <2>5. Grounds(t)'
    BY <2>2, <2>4 DEF Grounds
  <2>6. GroundsTo(s)
    BY <1>3, <2>1, <2>5 DEF Begin, GroundsTo
  <2>7. \A x \in Slots : Grounds(slot[x])'
    BY <2>6, SlotsGrounded
  <2> QED
    BY <1>3, <2>7, CredibleOn DEF Grounded
<1>4. ASSUME NEW e \in sent, Redeliver(s, e)
      PROVE  Grounded'
  <2>1. sent' = sent \union {e} /\ due' \subseteq due /\ events' = events
    BY <1>4 DEF Redeliver, remote
  <2> QED
    BY <1>3, <1>4, <2>1 DEF Redeliver
<1>5. ASSUME NEW e \in due, HookFires(s, e)
      PROVE  Grounded'
  BY <1>3, <1>5 DEF HookFires
<1> QED
  BY <1>1, <1>2, <1>4, <1>5

\* What a confirmation is going to write last is what its event says.
LEMMA ConfirmGrounded ==
  ASSUME Orderly, Grounded, Grows, NEW s \in Slots, NEW i \in DOMAIN intents, NEW outcome \in Outcome,
         ConfirmRead(s, i, outcome)
  PROVE  Grounded'
<1>0. PICK txn, to, h : /\ txn = IF Answer(i) = "succeeded" THEN mock[i].txn ELSE 0
                        /\ to = Normalized(i, outcome)
                        /\ h = Hook(drawn', outcome, i)
  OBVIOUS
<1>1. Spoken(h)
  <2>1. drawn \in Nat /\ drawn' = drawn + 1
    BY DEF Orderly, Ledger, TypeOK, ConfirmRead
  <2>2. drawn' # 0
    BY <2>1
  <2> QED
    BY <1>0, <2>2 DEF Spoken, Hook, Outcome
<1>2. due' \subseteq due \union {h} /\ sent' = sent /\ events' = events
  BY <1>0 DEF ConfirmRead
<1>3. GroundsTo(s)
  <2>1. CASE SyncType(i, outcome) = {}
    <3>1. PICK u : u = [Task("confirm", "settle") EXCEPT !.row = i, !.to = to]
      OBVIOUS
    <3>2. u.op = "confirm" /\ u.pc = "settle" /\ u.row = i /\ u.to = to
      BY <3>1 DEF Task
    <3>3. to # "succeeded"
      BY <1>0, <2>1 DEF SyncType, Normalized, StatusOf, Answer
    <3>4. Grounds(u)'
      BY <3>2, <3>3 DEF Grounds
    <3>5. slot' = [slot EXCEPT ![s] = u]
      BY <1>0, <2>1, <3>1 DEF ConfirmRead, Begin
    <3> QED
      BY <3>4, <3>5 DEF GroundsTo
  <2>2. ASSUME NEW type \in SyncType(i, outcome), NEW e, e = Sync(drawn', type, i, txn),
               Begin(s, "confirm", [[Task("confirm", "settle") EXCEPT !.row = i, !.to = to]
                                      EXCEPT !.pc = "store", !.ev = e])
        PROVE  GroundsTo(s)
    <3>1. PICK u : u = [[Task("confirm", "settle") EXCEPT !.row = i, !.to = to]
                          EXCEPT !.pc = "store", !.ev = e]
      OBVIOUS
    <3>2. u.op = "confirm" /\ u.pc = "store" /\ u.row = i /\ u.to = to /\ u.ev = e
      BY <3>1 DEF Task
    <3>3. e.src = "sync" /\ e.type = type /\ e.about = i
      BY <2>2 DEF Sync
    <3>4. type \in {"paid", "declined"} /\ (to = "succeeded" => type = "paid")
      BY <1>0, <2>2 DEF SyncType, Normalized, StatusOf, Answer, Outcome
    <3>5. Credible(e)
      BY <3>3, <3>4 DEF Credible
    <3>6. Grounds(u)
      BY <3>2, <3>3, <3>4, <3>5 DEF Grounds
    <3>7. Grounds(u)'
      BY <3>6, GroundsOn
    <3> QED
      BY <2>2, <3>1, <3>7 DEF Begin, GroundsTo
  <2> QED
    BY <1>0, <2>1, <2>2 DEF ConfirmRead
<1>4. \A x \in Slots : Grounds(slot[x])'
  BY <1>3, SlotsGrounded
<1> QED
  BY <1>1, <1>2, <1>4, CredibleOn DEF Grounded

LEMMA RefundGrounded ==
  ASSUME Orderly, Grounded, Grows, NEW s \in Slots,
         RefundRequest(s) \/ \E r \in DOMAIN refunds : RetryRequest(s, r)
  PROVE  Grounded'
<1>1. ASSUME NEW op \in {"refund", "retry"}, NEW r, NEW id,
             Begin(s, op, [Task(op, "update") EXCEPT !.row = r, !.id = id])
      PROVE  GroundsTo(s)
  <2>1. PICK t : t = [Task(op, "update") EXCEPT !.row = r, !.id = id]
    OBVIOUS
  <2>2. t.op = op /\ t.pc = "update"
    BY <2>1 DEF Task
  <2> QED
    BY <1>1, <2>1, <2>2, BeginGrounds
<1>2. GroundsTo(s) /\ drawn' = drawn + 1 /\ RefundAnswer(drawn') /\ sent' = sent /\ events' = events
  <2>1. CASE RefundRequest(s)
    BY <1>1, <2>1 DEF RefundRequest
  <2>2. ASSUME NEW r \in DOMAIN refunds, RetryRequest(s, r)
        PROVE  /\ GroundsTo(s) /\ drawn' = drawn + 1 /\ RefundAnswer(drawn')
               /\ sent' = sent /\ events' = events
    BY <1>1, <2>2 DEF RetryRequest
  <2> QED
    BY <2>1, <2>2
<1>3. PICK type \in RefundAnswers : due' = due \union {Hook(drawn', type, drawn')}
  BY <1>2 DEF RefundAnswer
<1>4. PICK h : h = Hook(drawn', type, drawn')
  OBVIOUS
<1>5. drawn' # 0
  BY <1>2 DEF Orderly, Ledger, TypeOK
<1>6. type \in {"refunded", "refund_failed"}
  BY BoundsAssumption
<1>7. Spoken(h)
  BY <1>4, <1>5, <1>6 DEF Spoken, Hook
<1>8. \A x \in Slots : Grounds(slot[x])'
  BY <1>2, SlotsGrounded
<1> QED
  BY <1>2, <1>3, <1>4, <1>7, <1>8, CredibleOn DEF Grounded

LEMMA EventsGrounded ==
  ASSUME Orderly, Grounded, Grows, NEW s \in Slots, Store(s) \/ Mark(s) \/ Fail(s)
  PROVE  Grounded'
<1>1. PICK e : e = slot[s].ev
  OBVIOUS
<1>2. slot[s].pc \in {"store", "mark", "fail"} /\ slot[s].pc \in Handling
  BY DEF Store, Mark, Fail, At, Handling
<1>3. Credible(e)
  BY <1>1, <1>2, EventOf DEF Grounded, Grounds
<1>4. DOMAIN events' = DOMAIN events \union {e}
  <2>1. slot[s].pc # "store" => e \in DOMAIN events
    BY <1>1, <1>2, EventOf
  <2> QED
    BY <1>1, <2>1 DEF Store, Mark, Fail, SetEvent, At
<1>5. UNCHANGED <<due, sent>>
  BY DEF Store, Mark, Fail, remote
<1>6. GroundsTo(s)
  <2>1. CASE Resume(s)
    BY <1>1, <1>2, <1>4, <2>1, ResumeGrounds
  <2>2. CASE Goto(s, "select")
    BY <1>2, <2>2, GotoGrounds
  <2> QED
    BY <2>1, <2>2 DEF Store, Mark, Fail
<1>7. \A x \in Slots : Grounds(slot[x])'
  BY <1>6, SlotsGrounded
<1> QED
  BY <1>3, <1>4, <1>5, <1>7, CredibleOn DEF Grounded

LEMMA ContinueGrounded ==
  ASSUME Orderly, Grounded, Grows, NEW s \in Slots, Continue(s), ~(Store(s) \/ Mark(s) \/ Fail(s))
  PROVE  Grounded'
<1>1. UNCHANGED <<due, sent, events>>
  BY DEF Continue, OrderWrite, CreateInsert, Settle, Select, CommitPaid, CommitDeclined,
         CommitRefunded, CommitRefundFailed, RefundUpdate, RefundOrder, CleanupStep, remote
<1>2. CASE OrderWrite(s) \/ CreateInsert(s) \/ Settle(s) \/ RefundOrder(s)
  BY <1>1, <1>2, FinishGrounds, GroundsKept DEF OrderWrite, CreateInsert, Settle, RefundOrder
<1>3. CASE Select(s)
  <2>1. ASSUME NEW pc \in {"mark", "fail"}, Goto(s, pc)
        PROVE  GroundsTo(s)
    BY <1>3, <2>1, GotoGrounds DEF Select
  <2>2. ASSUME NEW hit, slot' = [slot EXCEPT ![s] = [slot[s] EXCEPT !.pc = "commit", !.hit = hit, !.seen = order]]
        PROVE  GroundsTo(s)
    <3>0. PICK t, row : t = slot[s] /\ row = order
      OBVIOUS
    <3>1. IsTask(t) /\ Grounds(t) /\ t.pc = "select"
      BY <1>3, <3>0 DEF Orderly, EvidenceInv, Shapes, Grounded, Select
    <3>2. PICK u : u = [t EXCEPT !.pc = "commit", !.hit = hit, !.seen = row]
      OBVIOUS
    <3>3. u.pc = "commit" /\ u.op = t.op /\ u.ev = t.ev /\ u.row = t.row /\ u.to = t.to
      BY SMTT(30), <3>1, <3>2 DEF IsTask, Fields
    <3>4. Grounds(u)
      BY <3>1, <3>3 DEF Grounds
    <3>5. Grounds(u)'
      BY <3>4, GroundsOn
    <3> QED
      BY <2>2, <3>0, <3>2, <3>5 DEF GroundsTo
  <2>3. GroundsTo(s)
    BY <1>3, <2>1, <2>2 DEF Select
  <2> QED
    BY <1>1, <2>3, GroundsKept
<1>4. CASE CommitPaid(s) \/ CommitDeclined(s) \/ CommitRefunded(s) \/ CommitRefundFailed(s)
  <2>1. slot[s].pc = "commit" /\ (Goto(s, "mark") \/ Goto(s, "fail"))
    BY <1>4 DEF CommitPaid, CommitDeclined, CommitRefunded, CommitRefundFailed, Committing, At
  <2> QED
    BY <1>1, <2>1, GotoGrounds, GroundsKept
<1>5. CASE RefundUpdate(s)
  <2>1. slot[s].pc = "update" /\ slot[s].row \in DOMAIN refunds
    BY <1>5 DEF RefundUpdate, Orderly, TasksFit, TaskFits, FitsRow
  <2>2. DOMAIN refunds' # {}
    BY <2>1 DEF Grows
  <2>3. Finish(s) \/ Goto(s, "order")
    BY <1>5 DEF RefundUpdate
  <2> QED
    BY <1>1, <2>1, <2>2, <2>3, FinishGrounds, GotoGrounds, GroundsKept
<1>6. CASE CleanupStep(s)
  <2>1. PICK todo : todo = slot[s].todo
    OBVIOUS
  <2>2. TakeNext(s, "cleanup", todo)
    BY <1>6, <2>1 DEF CleanupStep
  <2> QED
    BY <1>1, <2>2, TakeNextGrounds, GroundsKept
<1> QED
  BY <1>2, <1>3, <1>4, <1>5, <1>6 DEF Continue

LEMMA JobsGrounded ==
  ASSUME Orderly, Grounded, Grows, NEW s \in Slots,
         ReplayList(s) \/ ReconcileList(s) \/ CleanupList(s)
  PROVE  Grounded'
<1>1. UNCHANGED <<due, sent, events>>
  BY DEF ReplayList, ReconcileList, CleanupList, remote
<1>2. PICK op, todo : /\ op \in {"replay", "reconcile", "cleanup"} /\ TakeNext(s, op, todo)
                      /\ op = "reconcile" => todo \subseteq DOMAIN payments
  BY DEF ReplayList, ReconcileList, CleanupList, StartJob
<1> QED
  BY <1>1, <1>2, TakeNextGrounds, GroundsKept

LEMMA FaultGrounded ==
  ASSUME Orderly, Grounded, Grows, Restart \/ \E s \in Slots : StatementFails(s)
  PROVE  Grounded'
<1>1. CASE Crash
  <2>1. due' = {} /\ sent' = sent /\ events' = events
    BY <1>1 DEF Crash
  <2>2. PICK t : t = NoTask
    OBVIOUS
  <2>3. Grounds(t)'
    BY <2>2, NoTaskGrounds, GroundsOn
  <2>4. \A s \in Slots : slot'[s] = t
    BY <1>1, <2>2 DEF Crash
  <2>5. \A s \in Slots : Grounds(slot[s])'
    BY <2>3, <2>4
  <2> QED
    BY <2>1, <2>5, CredibleOn DEF Grounded
<1>2. ASSUME NEW s \in Slots, UNCHANGED <<order, book, events, remote, history>>,
             Finish(s) \/ (slot[s].pc \in {"select", "commit", "mark"} /\ Goto(s, "fail"))
      PROVE  Grounded'
  <2>1. UNCHANGED <<due, sent, events>>
    BY <1>2 DEF remote
  <2> QED
    BY <1>2, <2>1, FinishGrounds, GotoGrounds, GroundsKept
<1> QED
  BY <1>1, <1>2 DEF Restart, StatementFails

LEMMA GroundedNext == Orderly /\ Grounded /\ [Next]_vars => Grounded'
<1> SUFFICES ASSUME Orderly, Grounded, [Next]_vars PROVE Grounded'
  OBVIOUS
<1>0. Grows
  BY AllGrow
<1>1. CASE UNCHANGED vars
  <2>1. UNCHANGED <<due, sent, events, payments, refunds, slot>>
    BY <1>1 DEF vars
  <2>2. ASSUME NEW s \in Slots, NEW t, t = slot[s]
        PROVE  Grounds(t)'
    BY <1>0, <2>2, GroundsOn DEF Grounded
  <2>3. \A s \in Slots : Grounds(slot[s])'
    BY <2>1, <2>2
  <2> QED
    BY <1>0, <2>1, <2>3, CredibleOn DEF Grounded
<1>2. ASSUME NEW s \in Slots, Arrive(s) \/ Timer(s)
      PROVE  Grounded'
  BY <1>0, <1>2, ArriveGrounded, ConfirmGrounded, RefundGrounded, JobsGrounded DEF Arrive, Timer
<1>3. ASSUME NEW s \in Slots, Continue(s)
      PROVE  Grounded'
  BY <1>0, <1>3, EventsGrounded, ContinueGrounded
<1> QED
  BY <1>0, <1>1, <1>2, <1>3, FaultGrounded DEF Next

LEMMA GroundedInit == Init => Grounded
<1> SUFFICES ASSUME Init PROVE Grounded
  OBVIOUS
<1>1. due = {} /\ sent = {} /\ DOMAIN events = {} /\ \A s \in Slots : slot[s] = NoTask
  BY DEF Init
<1> QED
  BY <1>1, NoTaskGrounds DEF Grounded

(***************************************************************************)
(* What PaymentLedger sees of the tables.                                  *)
(***************************************************************************)
Won == {i \in DOMAIN intents : intents[i] = "succeeded"}

Answered == [r \in DOMAIN refunds |-> IF refunds[r].status = "succeeded" THEN refunds[r].rid ELSE 0]

\* What a step of PaymentLedger does, or it does nothing.
Allowed == Promise!LedgerNext \/ UNCHANGED Promise!ledgerVars

Heard == DOMAIN events

Pay == order.pay

LEMMA NothingSeen ==
  ASSUME UNCHANGED <<sent, Heard, payments, Won, Answered, Pay, manual, withdrawn>>
  PROVE  Allowed
BY DEF Allowed, Promise!ledgerVars, Won, Answered, Heard, Pay

\* One row of payment_intents is written.
LEMMA WonSet ==
  ASSUME NEW i \in DOMAIN intents, NEW x, intents' = [intents EXCEPT ![i] = x]
  PROVE  Won' = IF x = "succeeded" THEN Won \union {i} ELSE Won \ {i}
BY DEF Won

\* One row of refunds is written.
LEMMA AnsweredSet ==
  ASSUME NEW r \in DOMAIN refunds, NEW status, NEW rid, SetRefund(r, status, rid)
  PROVE  Answered' = [Answered EXCEPT ![r] = IF status = "succeeded" THEN rid ELSE 0]
BY DEF Answered, SetRefund

(***************************************************************************)
(* The steps of PaymentLedger.                                             *)
(***************************************************************************)
LEMMA Tells ==
  ASSUME NEW e, sent' = sent \union {e},
         \A f \in sent : e.type = "paid" /\ f.type = "paid" /\ e.txn = f.txn => e.about = f.about,
         UNCHANGED <<Heard, payments, Won, Answered, Pay, manual, withdrawn>>
  PROVE  Allowed
<1>1. Promise!Tell(e)
  BY DEF Promise!Tell, Won, Answered, Heard, Pay
<1> QED
  BY <1>1 DEF Allowed, Promise!LedgerNext

LEMMA Hears ==
  ASSUME NEW e, Credible(e), Heard' = Heard \union {e},
         UNCHANGED <<sent, payments, Won, Answered, Pay, manual, withdrawn>>
  PROVE  Allowed
<1>1. Promise!Hear(e)
  BY DEF Promise!Hear, Promise!Credible, Credible, Won, Answered, Heard, Pay
<1>2. e \in DOMAIN events'
  BY DEF Heard
<1> QED
  BY <1>1, <1>2 DEF Allowed, Promise!LedgerNext

LEMMA Enters ==
  ASSUME NEW e \in Heard, e.type = "paid",
         payments' = IF Booked(e.txn) THEN payments
                     ELSE Append(payments, [intent |-> e.about, txn |-> e.txn]),
         Won' = Won \union {e.about}, Pay' = "PAID",
         UNCHANGED <<sent, Heard, Answered, manual, withdrawn>>
  PROVE  Allowed
<1>1. Promise!Enter(e)
  BY DEF Promise!Enter, Promise!Booked, Booked, Won, Answered, Heard, Pay
<1>2. e \in DOMAIN events'
  BY DEF Heard
<1> QED
  BY <1>1, <1>2 DEF Allowed, Promise!LedgerNext

\* The status of one intent is written, alone.
LEMMA ShowsIntent ==
  ASSUME NEW i \in DOMAIN intents, NEW x, intents' = [intents EXCEPT ![i] = x],
         x = "succeeded" => Reported(i),
         UNCHANGED <<sent, Heard, payments, Answered, Pay, manual, withdrawn>>
  PROVE  Allowed
<1>1. CASE x = "succeeded"
  <2>1. Won' = Won \union {i} /\ i \in Won'
    BY <1>1, WonSet
  <2>2. Promise!Accept(i)
    BY <1>1, <2>1 DEF Promise!Accept, Reported, Won, Answered, Heard, Pay
  <2> QED
    BY <2>1, <2>2 DEF Allowed, Promise!LedgerNext, Won
<1>2. CASE x # "succeeded" /\ i \in Won
  <2>1. Won' = Won \ {i}
    BY <1>2, WonSet
  <2>2. Promise!Obscure(i)
    BY <2>1 DEF Promise!Obscure, Won, Answered, Heard, Pay
  <2> QED
    BY <1>2, <2>2 DEF Allowed, Promise!LedgerNext, Won
<1>3. CASE x # "succeeded" /\ i \notin Won
  <2>1. Won' = Won \ {i}
    BY <1>3, WonSet
  <2>2. UNCHANGED Won
    BY <1>3, <2>1
  <2> QED
    BY <2>2, NothingSeen
<1> QED
  BY <1>1, <1>2, <1>3

LEMMA AsksBack ==
  ASSUME Orderly, NEW row, row = [status |-> "requested", rid |-> 0],
         refunds' = Append(refunds, row), payments # <<>>,
         UNCHANGED <<sent, Heard, payments, Won, Pay, manual, withdrawn>>
  PROVE  Allowed
<1>1. PICK S, r : S = RefundRow /\ r = Len(refunds) + 1
  OBVIOUS
<1>2. refunds \in Seq(S) /\ row \in S
  BY <1>1 DEF Orderly, Ledger, TypeOK, RefundRow
<1>3. /\ DOMAIN refunds' = DOMAIN refunds \union {r} /\ r \notin DOMAIN refunds
      /\ refunds'[r] = row /\ \A x \in DOMAIN refunds : refunds'[x] = refunds[x]
  BY <1>1, <1>2, AddsElement, IntentRows DEF Orderly, Ledger
<1>4. row.status # "succeeded"
  OBVIOUS
<1>5. Answered' = [x \in DOMAIN Answered \union {r} |-> IF x = r THEN 0 ELSE Answered[x]]
  BY <1>3, <1>4 DEF Answered
<1>6. r \notin DOMAIN Answered /\ r \in DOMAIN Answered'
  BY <1>3 DEF Answered
<1>7. Promise!AskBack(r)
  BY <1>5, <1>6 DEF Promise!AskBack, Won, Answered, Heard, Pay
<1> QED
  BY <1>6, <1>7 DEF Allowed, Promise!LedgerNext, Answered

LEMMA Returns ==
  ASSUME NEW e \in Heard, e.type = "refunded", e.about # 0, NEW r \in DOMAIN refunds,
         ~Taken(r, e.about), SetRefund(r, "succeeded", e.about), Pay' = "REFUNDED",
         UNCHANGED <<sent, Heard, payments, Won, manual, withdrawn>>
  PROVE  Allowed
<1>1. Answered' = [Answered EXCEPT ![r] = e.about]
  BY AnsweredSet
<1>2. r \in DOMAIN Answered /\ \A x \in DOMAIN Answered \ {r} : Answered[x] # e.about
  BY DEF Answered, Taken
<1>3. Promise!Return(e, r)
  BY <1>1, <1>2 DEF Promise!Return, Won, Answered, Heard, Pay
<1>4. e \in DOMAIN events' /\ r \in DOMAIN Answered
  BY <1>2 DEF Heard
<1> QED
  BY <1>3, <1>4 DEF Allowed, Promise!LedgerNext, Answered

LEMMA Reopens ==
  ASSUME NEW r \in DOMAIN refunds, NEW status, NEW rid, SetRefund(r, status, rid), status # "succeeded",
         UNCHANGED <<sent, Heard, payments, Won, Pay, manual, withdrawn>>
  PROVE  Allowed
<1>1. Answered' = [Answered EXCEPT ![r] = 0]
  BY AnsweredSet
<1>2. Promise!Reopen(r)
  BY <1>1 DEF Promise!Reopen, Won, Answered, Heard, Pay
<1>3. r \in DOMAIN Answered'
  BY <1>1 DEF Answered
<1> QED
  BY <1>2, <1>3 DEF Allowed, Promise!LedgerNext, Answered

\* The order alone is written.
LEMMA PaysOrder ==
  ASSUME UNCHANGED <<sent, Heard, payments, Won, Answered>>,
         \/ /\ Pay' = "REFUNDING" /\ DOMAIN refunds # {}
            /\ UNCHANGED <<manual, withdrawn>>
         \/ /\ Pay' = "PAID" /\ manual' = TRUE
            /\ UNCHANGED withdrawn
         \/ /\ Pay' \in {"UNPAID", "REFUNDING", "REFUNDED"}
            /\ Pay' # "UNPAID" => Evidence
            /\ withdrawn' = TRUE /\ UNCHANGED manual
  PROVE  Allowed
<1>1. Promise!Refunding \/ Promise!MarkPaid \/ Promise!Withdraw
  BY DEF Promise!Refunding, Promise!MarkPaid, Promise!Withdraw, Promise!Evidence, Evidence,
         Won, Answered, Heard, Pay
<1> QED
  BY <1>1 DEF Allowed, Promise!LedgerNext

(***************************************************************************)
(* The actions.                                                            *)
(***************************************************************************)
\* What a slot knows when it commits.
LEMMA CommitsOn ==
  ASSUME Orderly, Grounded, NEW s \in Slots, slot[s].pc = "commit", NEW e, e = slot[s].ev
  PROVE  /\ e \in Heard
         /\ e.type \in Outcome => slot[s].hit \in DOMAIN intents
         /\ e.type = "paid" => slot[s].hit = e.about
         /\ e.type \notin Outcome => slot[s].hit \in DOMAIN refunds
         /\ e.type = "refunded" => e.about # 0
<1>1. e \in DOMAIN events /\ FitsHit(slot[s])
  BY EventOf DEF Handling, Orderly, TasksFit, TaskFits
<1>2. e.type = "refunded" => e.about # 0
  BY <1>1 DEF Grounded, Credible, Spoken
<1> QED
  BY <1>1, <1>2 DEF FitsHit, Heard

LEMMA OrderAllowed ==
  ASSUME Orderly, Grounded, NEW s \in Slots, OrderWrite(s) \/ RefundOrder(s)
  PROVE  Allowed
<1>1. UNCHANGED <<sent, Heard, payments, Won, Answered>>
  BY DEF OrderWrite, RefundOrder, book, remote, Heard, Won, Answered
<1>2. CASE RefundOrder(s)
  <2>1. order = [status |-> order.status, pay |-> order.pay]
    BY DEF Orderly, EvidenceInv, Shapes, IsRow
  <2>2. Pay' = "REFUNDING"
    BY <1>2, <2>1 DEF RefundOrder, Pay
  <2>3. DOMAIN refunds # {}
    BY <1>2 DEF RefundOrder, At, Grounded, Grounds
  <2> QED
    BY <1>1, <1>2, <2>2, <2>3, PaysOrder DEF RefundOrder, history
<1>3. CASE OrderWrite(s)
  <2>1. PICK t : t = slot[s]
    OBVIOUS
  <2>2. /\ t.pc = "write" /\ t.seen.pay \in PaymentStatus
        /\ t.op = "close" \/ t.seen.pay # "UNPAID" => Evidence
    BY <1>3, <2>1 DEF OrderWrite, Orderly, TasksFit, TaskFits, FitsRow, OrderRow,
                      EvidenceInv, Backed, NeedsEvidence, ShowsMoney
  <2>3. CASE t.op = "mark_paid"
    BY <1>1, <1>3, <2>1, <2>3, PaysOrder DEF OrderWrite, Pay
  <2>4. CASE t.op = "cancel"
    <3>1. Pay' = RefundedIfPaid(t.seen.pay) /\ withdrawn' = TRUE /\ UNCHANGED manual
      BY <1>3, <2>1, <2>4 DEF OrderWrite, Pay
    <3>2. Pay' \in {"UNPAID", "REFUNDING", "REFUNDED"} /\ (Pay' # "UNPAID" => Evidence)
      BY <2>2, <3>1 DEF RefundedIfPaid, PaymentStatus
    <3> QED
      BY <1>1, <3>1, <3>2, PaysOrder
  <2>5. CASE t.op = "close"
    BY <1>1, <1>3, <2>1, <2>2, <2>5, PaysOrder DEF OrderWrite, Pay
  <2> QED
    BY <1>3, <2>1, <2>3, <2>4, <2>5 DEF OrderWrite
<1> QED
  BY <1>2, <1>3

\* An intent that is created has not succeeded.
LEMMA CreateAllowed ==
  ASSUME Orderly, NEW s \in Slots, CreateInsert(s)
  PROVE  Allowed
<1>1. UNCHANGED <<sent, Heard, payments, Answered, Pay, manual, withdrawn>>
  BY DEF CreateInsert, history, Heard, Answered, Pay
<1>2. UNCHANGED Won
  <2>1. CASE UNCHANGED intents
    BY <2>1 DEF Won
  <2>2. CASE intents' = Append(intents, "requires_confirmation")
    <3>1. intents \in Seq(IntentStatus) /\ "requires_confirmation" \in IntentStatus
      BY DEF Orderly, Ledger, TypeOK, IntentStatus
    <3>2. /\ DOMAIN intents' = DOMAIN intents \union {Len(intents) + 1}
          /\ intents'[Len(intents) + 1] = "requires_confirmation"
          /\ \A i \in DOMAIN intents : intents'[i] = intents[i]
      BY <2>2, <3>1, AddsElement
    <3> QED
      BY <3>2 DEF Won
  <2> QED
    BY <2>1, <2>2 DEF CreateInsert
<1> QED
  BY <1>1, <1>2, NothingSeen

LEMMA HookAllowed ==
  ASSUME Orderly, Grounded, NEW s \in Slots, NEW e \in due, HookFires(s, e)
  PROVE  Allowed
<1>1. UNCHANGED <<Heard, payments, Won, Answered, Pay, manual, withdrawn>>
  BY DEF HookFires, book, history, Heard, Won, Answered, Pay
<1>2. ASSUME NEW f \in sent, e.type = "paid", f.type = "paid", e.txn = f.txn
      PROVE  e.about = f.about
  BY <1>2 DEF Orderly, Ledger, TxnsOwned, Outcome, Grounded, Spoken
<1> QED
  BY <1>1, <1>2, Tells DEF HookFires

\* An event is stored, or its status is set.
LEMMA EventAllowed ==
  ASSUME Orderly, Grounded, NEW s \in Slots, Store(s) \/ Mark(s) \/ Fail(s)
  PROVE  Allowed
<1>1. PICK e : e = slot[s].ev
  OBVIOUS
<1>2. slot[s].pc \in {"store", "mark", "fail"} /\ slot[s].pc \in Handling
  BY DEF Store, Mark, Fail, At, Handling
<1>3. UNCHANGED <<sent, payments, Won, Answered, Pay, manual, withdrawn>>
  BY DEF Store, Mark, Fail, book, remote, history, Won, Answered, Pay
<1>4. CASE slot[s].pc = "store" /\ e \notin Heard
  <2>1. Credible(e)
    BY <1>1, <1>4 DEF Grounded, Grounds
  <2>2. Heard' = Heard \union {e}
    BY <1>1, <1>4 DEF Store, Mark, Fail, At, SetEvent, Heard
  <2> QED
    BY <1>3, <2>1, <2>2, Hears
<1>5. CASE e \in Heard
  <2>1. UNCHANGED Heard
    BY <1>1, <1>5 DEF Store, Mark, Fail, SetEvent, Heard
  <2> QED
    BY <1>3, <2>1, NothingSeen
<1>6. slot[s].pc # "store" => e \in Heard
  BY <1>1, <1>2, EventOf DEF Heard
<1> QED
  BY <1>4, <1>5, <1>6

\* A payment is booked with the intent and the order it pays; a declined one
\* writes its intent alone.
LEMMA CommitAllowed ==
  ASSUME Orderly, Grounded, NEW s \in Slots, CommitPaid(s) \/ CommitDeclined(s)
  PROVE  Allowed
<1>1. PICK e, hit : e = slot[s].ev /\ hit = slot[s].hit
  OBVIOUS
<1>2. slot[s].pc = "commit" /\ e.type \in Outcome
  BY <1>1 DEF CommitPaid, CommitDeclined, Committing, At, Outcome
<1>3. e \in Heard /\ hit \in DOMAIN intents /\ (e.type = "paid" => hit = e.about)
  BY <1>1, <1>2, CommitsOn
<1>4. UNCHANGED <<sent, Heard, Answered, manual, withdrawn>>
  BY DEF CommitPaid, CommitDeclined, remote, history, Heard, Answered
<1>5. CASE CommitPaid(s)
  <2>1. /\ e.type = "paid" /\ intents' = [intents EXCEPT ![hit] = "succeeded"] /\ Pay' = "PAID"
        /\ payments' = IF Booked(e.txn) THEN payments
                       ELSE Append(payments, [intent |-> hit, txn |-> e.txn])
    BY <1>1, <1>5 DEF CommitPaid, Committing, Pay
  <2>2. Won' = Won \union {hit}
    BY <1>3, <2>1, WonSet
  <2> QED
    BY <1>3, <1>4, <2>1, <2>2, Enters
<1>6. CASE CommitDeclined(s)
  <2>1. /\ intents' = [intents EXCEPT ![hit] = StatusOf(e.type)] /\ StatusOf(e.type) # "succeeded"
        /\ UNCHANGED <<payments, Pay>>
    BY <1>1, <1>6 DEF CommitDeclined, Committing, StatusOf, Pay
  <2> QED
    BY <1>3, <1>4, <2>1, ShowsIntent
<1> QED
  BY <1>5, <1>6

\* What confirm writes last was said by an event it stored; cleaning up fails intents.
LEMMA IntentAllowed ==
  ASSUME Orderly, Grounded, NEW s \in Slots, Settle(s) \/ CleanupStep(s)
  PROVE  Allowed
<1>1. PICK t, row, to : t = slot[s] /\ row = t.row /\ to = IF t.pc = "settle" THEN t.to ELSE "failed"
  OBVIOUS
<1>2. t.pc \in {"settle", "expire"} /\ intents' = [intents EXCEPT ![row] = to]
  BY <1>1 DEF Settle, CleanupStep, At
<1>3. row \in DOMAIN intents /\ (t.pc = "settle" => t.op = "confirm")
  BY <1>1, <1>2 DEF Orderly, TasksFit, TaskFits, FitsRow
<1>4. to = "succeeded" => Reported(row)
  BY <1>1, <1>2, <1>3 DEF Grounded, Grounds
<1>5. UNCHANGED <<sent, Heard, payments, Answered, Pay, manual, withdrawn>>
  BY DEF Settle, CleanupStep, remote, history, Heard, Answered, Pay
<1> QED
  BY <1>2, <1>3, <1>4, <1>5, ShowsIntent

LEMMA RefundAllowed ==
  ASSUME Orderly, Grounded, NEW s \in Slots,
         RefundRequest(s) \/ CommitRefunded(s) \/ CommitRefundFailed(s) \/ RefundUpdate(s)
  PROVE  Allowed
<1>1. UNCHANGED <<sent, Heard, payments, Won, manual, withdrawn>>
  BY DEF RefundRequest, CommitRefunded, CommitRefundFailed, RefundUpdate, remote, history, Heard, Won
<1>2. CASE RefundRequest(s)
  BY <1>1, <1>2, AsksBack DEF RefundRequest, Pay
<1>3. CASE UNCHANGED <<order, refunds>>
  BY <1>1, <1>3, NothingSeen DEF Answered, Pay
<1>4. CASE CommitRefunded(s) /\ ~UNCHANGED <<order, refunds>>
  <2>1. PICK e, hit : e = slot[s].ev /\ hit = slot[s].hit
    OBVIOUS
  <2>2. slot[s].pc = "commit" /\ e.type = "refunded"
    BY <1>4, <2>1 DEF CommitRefunded, Committing, At
  <2>3. e \in Heard /\ hit \in DOMAIN refunds /\ e.about # 0
    BY <2>1, <2>2, CommitsOn DEF Outcome
  <2>4. /\ ~Taken(hit, e.about) /\ SetRefund(hit, "succeeded", e.about)
        /\ order' = [order EXCEPT !.pay = "REFUNDED"]
    BY <1>4, <2>1 DEF CommitRefunded
  <2>5. order = [status |-> order.status, pay |-> order.pay]
    BY DEF Orderly, EvidenceInv, Shapes, IsRow
  <2>6. Pay' = "REFUNDED"
    BY <2>4, <2>5 DEF Pay
  <2> QED
    BY <1>1, <2>2, <2>3, <2>4, <2>6, Returns
<1>5. CASE CommitRefundFailed(s)
  <2>1. PICK hit : hit = slot[s].hit
    OBVIOUS
  <2>2. hit \in DOMAIN refunds
    BY <1>5, <2>1, CommitsOn DEF CommitRefundFailed, Committing, At, Outcome
  <2>3. SetRefund(hit, "failed", refunds[hit].rid) /\ UNCHANGED Pay
    BY <1>5, <2>1 DEF CommitRefundFailed, Pay
  <2> QED
    BY <1>1, <2>2, <2>3, Reopens
<1>6. CASE RefundUpdate(s) /\ ~UNCHANGED <<order, refunds>>
  <2>1. PICK row, id : row = slot[s].row /\ id = slot[s].id
    OBVIOUS
  <2>2. row \in DOMAIN refunds
    BY <1>6, <2>1 DEF RefundUpdate, Orderly, TasksFit, TaskFits, FitsRow
  <2>3. SetRefund(row, "processing", id) /\ UNCHANGED Pay
    BY <1>6, <2>1 DEF RefundUpdate, Pay
  <2> QED
    BY <1>1, <2>2, <2>3, Reopens
<1> QED
  BY <1>2, <1>3, <1>4, <1>5, <1>6

\* The other steps read, or move a slot on.
LEMMA QuietAllowed ==
  ASSUME UNCHANGED <<order, book, events, sent, manual, withdrawn>>
  PROVE  Allowed
BY NothingSeen DEF book, Heard, Won, Answered, Pay

LEMMA NextAllowed ==
  ASSUME Orderly, Grounded, [Next]_vars
  PROVE  Allowed
<1>1. ASSUME NEW s \in Slots, Arrive(s) \/ Timer(s)
      PROVE  Allowed
  <2>1. CASE RefundRequest(s) \/ \E e \in due : HookFires(s, e)
    BY <2>1, HookAllowed, RefundAllowed
  <2>2. CASE ~(RefundRequest(s) \/ \E e \in due : HookFires(s, e))
    <3>1. UNCHANGED <<order, book, events, sent, manual, withdrawn>>
      BY <1>1, <2>2 DEF Arrive, Timer, OrderRead, CreateRead, ConfirmRead, Redeliver, RetryRequest,
                        ReplayList, ReconcileList, CleanupList, remote, history
    <3> QED
      BY <3>1, QuietAllowed
  <2> QED
    BY <2>1, <2>2
<1>2. ASSUME NEW s \in Slots, Continue(s)
      PROVE  Allowed
  <2>1. CASE Select(s)
    BY <2>1, QuietAllowed DEF Select, remote, history
  <2> QED
    BY <1>2, <2>1, OrderAllowed, CreateAllowed, EventAllowed, CommitAllowed, IntentAllowed,
       RefundAllowed DEF Continue
<1>3. CASE Restart \/ \E s \in Slots : StatementFails(s)
  <2>1. UNCHANGED <<order, book, events, sent, manual, withdrawn>>
    BY <1>3 DEF Restart, StatementFails, Crash, remote, history
  <2> QED
    BY <2>1, QuietAllowed
<1>4. CASE UNCHANGED vars
  <2>1. UNCHANGED <<order, book, events, sent, manual, withdrawn>>
    BY <1>4 DEF vars, book
  <2> QED
    BY <2>1, QuietAllowed
<1> QED
  BY <1>1, <1>2, <1>3, <1>4 DEF Next

LEMMA GroundedAlways == Spec => []Grounded
<1>1. Orderly /\ Grounded /\ [Next]_vars => Grounded'
  BY GroundedNext
<1> QED
  BY <1>1, GroundedInit, OrderlyAlways, PTL DEF Spec

\* Whatever the handlers of payments.js, the webhooks, eventProcessor.js and the
\* jobs of jobs/payments.js do at once, and whatever fails, the tables only do
\* what PaymentLedger allows: an intent succeeds, a payment is booked, a refund
\* is answered and an order shows money only for a reason in the books.
THEOREM LedgerKept == Spec => KeepsLedger
<1>1. Init => Promise!LedgerInit
  BY DEF Init, NewOrder, Promise!LedgerInit
<1>2. Orderly /\ Grounded /\ [Next]_vars => [Promise!LedgerNext]_(Promise!ledgerVars)
  BY NextAllowed DEF Allowed
<1> QED
  BY <1>1, <1>2, OrderlyAlways, GroundedAlways, PTL DEF Spec, KeepsLedger, Promise!LedgerSpec
=============================================================================
