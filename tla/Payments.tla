------------------------------ MODULE Payments ------------------------------
(***************************************************************************)
(* How one order is paid for and refunded: the handlers of server/src/     *)
(* routes/payments.js, the webhook handler and the event processor of      *)
(* server/src/services/payments, the mock provider (the only provider that *)
(* is implemented) and the jobs of server/src/jobs/payments.js.            *)
(*                                                                         *)
(* A slot of Slots is a handler, a webhook or a run of a job at work.      *)
(* Every statement is an action; a transaction of the event processor is   *)
(* two, its SELECT and its COMMIT, because nothing is locked before its    *)
(* first UPDATE.  A statement that only reads what the next one reads      *)
(* again, or whose table no handler reads (payment_attempts), is part of   *)
(* the action beside it.  The later statuses of an order are treated by    *)
(* this code as PENDING_HOST_CONFIRM is, which stands for them.            *)
(***************************************************************************)
EXTENDS Naturals, Sequences, FiniteSets, SequencesExt

CONSTANTS Slots,        \* handlers, webhooks and job runs at work at once
          Ops,          \* what is asked for (a bound)
          WebhookOnly,  \* PAYMENTS_WEBHOOK_ONLY
          RefundAnswers,\* how the provider answers refunds
          MaxIntents,   \* bound on the intents of the order
          MaxIds,       \* bound on the ids the provider draws
          MaxPayments,  \* reconciling stops at this many payment rows (a bound)
          MaxErrors,    \* bound on the statements that fail
          MaxRestarts   \* bound on the restarts of the server

ASSUME BoundsAssumption ==
  /\ {MaxIntents, MaxIds, MaxPayments, MaxErrors, MaxRestarts} \subseteq Nat
  /\ WebhookOnly \in BOOLEAN
  /\ RefundAnswers \subseteq {"refunded", "refund_failed"}

VARIABLES
  order,     \* the columns status and payment_status of the order
  intents,   \* payment_intents: the status of each, in the order of creation
  payments,  \* payments: the intent and the transaction id of each
  refunds,   \* refunds: the status and the provider's id of each
  events,    \* webhook_events: a status and a retry count per event
  mock,      \* the provider's memory: a status and a transaction per intent
  due,       \* the webhooks the provider has set a timer for
  sent,      \* the webhooks that were sent at least once
  drawn,     \* how many ids the provider has drawn
  slot,      \* the local state of each slot
  errors, restarts,
  manual,    \* history: the order was marked as paid by hand
  withdrawn, \* history: the order was cancelled
  skipped    \* history: the events answered as duplicates

book == <<intents, payments, refunds>>
remote == <<mock, due, sent, drawn>>
history == <<manual, withdrawn, skipped>>
vars == <<order, intents, payments, refunds, events, mock, due, sent, drawn, slot,
          errors, restarts, manual, withdrawn, skipped>>

(***************************************************************************)
(* Rows.                                                                   *)
(***************************************************************************)
Cancelled == {"CANCELLED_BY_TRAVELER", "CANCELLED_REFUNDED"}
Status == {"PENDING_PAYMENT", "PENDING_HOST_CONFIRM"} \union Cancelled
PaymentStatus == {"UNPAID", "PAID", "REFUNDING", "REFUNDED"}
NewOrder == [status |-> "PENDING_PAYMENT", pay |-> "UNPAID"]

IntentStatus ==
  {"requires_confirmation", "processing", "requires_action", "succeeded", "failed"}

\* The statuses the unique index payment_intents_order_active_idx covers.
Active(i) == intents[i] = "requires_confirmation"

\* A webhook event: what it is about is an intent, or a refund by its id; txn
\* is 0 where the payload has no provider_txn_id.  The first two fields stand
\* for event_id.
Type == {"paid", "declined", "action", "refunded", "refund_failed"}
Event == [src : {"sync", "hook", "reconcile"}, n : Nat, type : Type, about : Nat, txn : Nat]

Sync(n, type, i, txn) == [src |-> "sync", n |-> n, type |-> type, about |-> i, txn |-> txn]

Hook(n, type, about) ==
  [src |-> "hook", n |-> n, type |-> type, about |-> about,
   txn |-> IF type = "paid" THEN n ELSE 0]

\* createReconcileEvent: one event id for ever per row of payments.
Reconcile(p) ==
  [src |-> "reconcile", n |-> p, type |-> "paid", about |-> payments[p].intent,
   txn |-> payments[p].txn]

NoEvent == Sync(0, "paid", 0, 0)

\* What simulate asks the mock provider for, as an event type and as the
\* status the handler writes.
Outcome == {"paid", "declined", "action"}

\* Mutant of StatusOf: the provider's word is written as it is.
StatusOf_Raw(type) == type

StatusOf(type) ==
  IF type = "paid" THEN "succeeded" ELSE IF type = "declined" THEN "failed" ELSE "requires_action"

(***************************************************************************)
(* Slots.                                                                  *)
(***************************************************************************)
\* row: the intent or refund at hand; to: the status confirm writes last; id:
\* the refund id the provider gave; hit: the row the SELECT of an event found;
\* seen: a copy of the order; todo: the rows or events a job has listed and not
\* come to yet.
Task(op, pc) ==
  [op |-> op, pc |-> pc, ev |-> NoEvent, row |-> 0, to |-> "processing", id |-> 0,
   hit |-> 0, seen |-> NewOrder, todo |-> {}]

NoTask == Task("none", "idle")

Idle(s) == slot[s].pc = "idle"

At(s, pc) == slot[s].pc = pc

Begin(s, op, task) == /\ Idle(s) /\ op \in Ops
                      /\ slot' = [slot EXCEPT ![s] = task]

Goto(s, pc) == slot' = [slot EXCEPT ![s].pc = pc]

Finish(s) == slot' = [slot EXCEPT ![s] = NoTask]

(***************************************************************************)
(* The order service (module Orders), as far as it writes payment_status:  *)
(* a read, then an update by id.                                           *)
(***************************************************************************)
NextStatus(status) ==
  IF status = "PENDING_PAYMENT" THEN "PENDING_HOST_CONFIRM" ELSE status

\* Mutant of RefundedIfPaid: a cancelled order is refunded, paid or not.
RefundedIfPaid_Always(pay) == "REFUNDED"

RefundedIfPaid(pay) == IF pay = "PAID" THEN "REFUNDED" ELSE pay

OrderRead(s, op) ==
  /\ op = "mark_paid" => order.pay = "UNPAID" /\ order.status \notin Cancelled
  /\ op = "close" => order.status = "PENDING_HOST_CONFIRM"
  /\ Begin(s, op, [Task(op, "write") EXCEPT !.seen = order])
  /\ UNCHANGED <<order, book, events, remote, errors, restarts, history>>

OrderWrite(s) ==
  LET t == slot[s] IN
  /\ t.pc = "write"
  /\ \/ /\ t.op = "mark_paid"
        /\ order' = [status |-> NextStatus(t.seen.status), pay |-> "PAID"]
        /\ manual' = TRUE /\ UNCHANGED withdrawn
     \/ /\ t.op = "cancel"
        /\ order' = [status |-> "CANCELLED_BY_TRAVELER",
                     pay |-> RefundedIfPaid(t.seen.pay)]
        /\ withdrawn' = TRUE /\ UNCHANGED manual
     \/ /\ t.op = "close"
        /\ order' = [status |-> "CANCELLED_REFUNDED", pay |-> "REFUNDED"]
        /\ withdrawn' = TRUE /\ UNCHANGED manual
  /\ Finish(s)
  /\ UNCHANGED <<book, events, remote, errors, restarts, skipped>>

(***************************************************************************)
(* Intents: create_intent and confirm.                                     *)
(***************************************************************************)
CreateRead(s) ==
  /\ order.pay = "UNPAID" /\ order.status \notin Cancelled
  /\ ~ \E i \in DOMAIN intents : Active(i)
  /\ Len(intents) < MaxIntents
  /\ Begin(s, "create", Task("create", "insert"))
  /\ UNCHANGED <<order, book, events, remote, errors, restarts, history>>

\* The unique index turns the INSERT of the slower of two requests away; it
\* then returns the intent of the other.
CreateInsert(s) ==
  /\ At(s, "insert")
  /\ IF \E i \in DOMAIN intents : Active(i)
     THEN UNCHANGED <<intents, mock>>
     ELSE /\ Len(intents) < MaxIntents
          /\ intents' = Append(intents, "requires_confirmation")
          /\ mock' = Append(mock, [status |-> "requires_confirmation", txn |-> 0])
  /\ Finish(s)
  /\ UNCHANGED <<order, payments, refunds, events, due, sent, drawn, errors, restarts, history>>

\* MockProvider.confirmIntent has an answer when it knows the intent to be
\* final, or does not know it; otherwise it says "processing" and sets a timer.
Answer(i) ==
  IF mock[i].status = "lost" THEN "failed"
  ELSE IF mock[i].status \in {"succeeded", "failed"} THEN mock[i].status
  ELSE "processing"

\* Mutant of SyncType: with PAYMENTS_WEBHOOK_ONLY set no event is made of the
\* outcome, which is still written to the intent.
SyncType_Obeys(i, outcome) == IF WebhookOnly THEN {} ELSE {outcome}

\* The event confirm processes itself: for the mock provider always, and with
\* the outcome the client asked for, not the one the provider gave.
SyncType(i, outcome) ==
  IF outcome # "action" THEN {outcome}
  ELSE IF ~WebhookOnly /\ Answer(i) = "succeeded" THEN {"paid"}
  ELSE IF ~WebhookOnly /\ Answer(i) = "failed" THEN {"declined"}
  ELSE {}

\* The status confirm writes to the intent last.
Normalized(i, outcome) ==
  IF outcome # "action" THEN StatusOf(outcome)
  ELSE IF WebhookOnly THEN "processing"
  ELSE Answer(i)

\* handleConfirm up to the call of the provider and the attempt it records.
ConfirmRead(s, i, outcome) ==
  /\ drawn < MaxIds
  /\ intents[i] # "succeeded" /\ order.pay # "PAID"
  /\ drawn' = drawn + 1
  /\ IF Answer(i) = "processing"
     THEN /\ mock' = [mock EXCEPT ![i].status = "processing"]
          /\ due' = due \union {Hook(drawn', outcome, i)}
     ELSE UNCHANGED <<mock, due>>
  /\ LET txn == IF Answer(i) = "succeeded" THEN mock[i].txn ELSE 0
         task == [Task("confirm", "settle") EXCEPT !.row = i, !.to = Normalized(i, outcome)]
     IN  IF SyncType(i, outcome) = {} THEN Begin(s, "confirm", task)
         ELSE \E type \in SyncType(i, outcome) :
                Begin(s, "confirm", [task EXCEPT !.pc = "store", !.ev = Sync(drawn', type, i, txn)])
  /\ UNCHANGED <<order, book, events, sent, errors, restarts, history>>

\* The last statement of confirm, whatever the intent has become meanwhile.
Settle(s) ==
  /\ At(s, "settle")
  /\ intents' = [intents EXCEPT ![slot[s].row] = slot[s].to]
  /\ Finish(s)
  /\ UNCHANGED <<order, payments, refunds, events, remote, errors, restarts, history>>

(***************************************************************************)
(* The webhooks of the provider.                                           *)
(***************************************************************************)
\* A timer of the provider goes off; onWebhook calls the handler in process.
HookFires(s, e) ==
  /\ e \in due
  /\ Begin(s, "hook", [Task("hook", "store") EXCEPT !.ev = e])
  /\ due' = due \ {e} /\ sent' = sent \union {e}
  /\ IF e.type \in Outcome
     THEN mock' = [mock EXCEPT ![e.about] = [status |-> StatusOf(e.type), txn |-> e.txn]]
     ELSE UNCHANGED mock
  /\ UNCHANGED <<order, book, events, drawn, errors, restarts, history>>

\* A webhook the provider has sent is posted to /webhook again.
Redeliver(s, e) ==
  /\ e \in sent
  /\ Begin(s, "redeliver", [Task("hook", "store") EXCEPT !.ev = e])
  /\ UNCHANGED <<order, book, events, remote, errors, restarts, history>>

(***************************************************************************)
(* Processing an event.  Four callers share the steps: a confirmation, a   *)
(* webhook and the jobs that replay and reconcile.                         *)
(***************************************************************************)
\* A job goes on with any row of its list; the order of the list is left out.
Listed(op, x, rest) ==
  IF op = "replay" THEN [Task(op, "select") EXCEPT !.ev = x, !.todo = rest]
  ELSE IF op = "reconcile" THEN [Task(op, "store") EXCEPT !.ev = Reconcile(x), !.todo = rest]
  ELSE [Task(op, "expire") EXCEPT !.row = x, !.todo = rest]

TakeNext(s, op, todo) ==
  \/ todo = {} /\ Finish(s)
  \/ \E x \in todo : slot' = [slot EXCEPT ![s] = Listed(op, x, todo \ {x})]

\* What the caller does when it is done with the event.
Resume(s) ==
  LET t == slot[s] IN
  IF t.op = "confirm" THEN Goto(s, "settle") ELSE TakeNext(s, t.op, t.todo)

SetEvent(e, status, retries) ==
  events' = [x \in DOMAIN events \union {e} |->
               IF x = e THEN [status |-> status, retries |-> retries] ELSE events[x]]

\* INSERT ... ON CONFLICT DO NOTHING.  Who finds the event there leaves it,
\* except that reconciling goes on unless it was processed.
Store(s) ==
  LET t == slot[s]
      known == t.ev \in DOMAIN events
  IN
  /\ t.pc = "store"
  /\ IF known THEN UNCHANGED events ELSE SetEvent(t.ev, "received", 0)
  /\ IF ~known \/ (t.op = "reconcile" /\ events[t.ev].status # "processed")
     THEN Goto(s, "select") ELSE Resume(s)
  /\ skipped' = IF known /\ t.op = "hook" THEN skipped \union {t.ev} ELSE skipped
  /\ UNCHANGED <<order, book, remote, errors, restarts, manual, withdrawn>>

\* The rows the SELECT of an event finds; it takes the youngest.
Hits(e) ==
  IF e.type = "paid" THEN {e.about}
  ELSE IF e.type \in Outcome
  THEN {e.about} \union {i \in DOMAIN intents : intents[i] = "processing"}
  ELSE {r \in DOMAIN refunds : refunds[r].rid = e.about \/ refunds[r].status = "processing"}

Select(s) ==
  LET t == slot[s] IN
  /\ t.pc = "select"
  /\ \/ /\ Hits(t.ev) = {}
        /\ Goto(s, IF t.ev.type = "refunded" THEN "fail" ELSE "mark")
     \/ \E hit \in Hits(t.ev) :
          /\ \A other \in Hits(t.ev) : other <= hit
          /\ slot' = [slot EXCEPT ![s] = [t EXCEPT !.pc = "commit", !.hit = hit, !.seen = order]]
  /\ UNCHANGED <<order, book, events, remote, errors, restarts, history>>

Committing(s, types) == At(s, "commit") /\ slot[s].ev.type \in types

\* Whether the unique index on (provider, provider_txn_id) has the transaction.
\* Mutant of Booked: no such index.
Booked_Never(txn) == FALSE

Booked(txn) == txn # 0 /\ \E p \in DOMAIN payments : payments[p].txn = txn

CommitPaid(s) ==
  LET t == slot[s] IN
  /\ Committing(s, {"paid"})
  /\ intents' = [intents EXCEPT ![t.hit] = "succeeded"]
  /\ payments' = IF Booked(t.ev.txn) THEN payments
                 ELSE Append(payments, [intent |-> t.hit, txn |-> t.ev.txn])
  /\ order' = [status |-> NextStatus(t.seen.status), pay |-> "PAID"]
  /\ Goto(s, "mark")
  /\ UNCHANGED <<refunds, events, remote, errors, restarts, history>>

CommitDeclined(s) ==
  /\ Committing(s, {"declined", "action"})
  /\ intents' = [intents EXCEPT ![slot[s].hit] = StatusOf(slot[s].ev.type)]
  /\ Goto(s, "mark")
  /\ UNCHANGED <<order, payments, refunds, events, remote, errors, restarts, history>>

\* Whether a row other than r has the provider's refund id (a unique index).
Taken(r, rid) == \E other \in DOMAIN refunds \ {r} : refunds[other].rid = rid

SetRefund(r, status, rid) ==
  refunds' = [refunds EXCEPT ![r] = [status |-> status, rid |-> rid]]

\* Mutant of CommitRefunded: the row keeps the id it had.
CommitRefunded_KeepsId(s) ==
  LET r == slot[s].hit IN
  /\ Committing(s, {"refunded"})
  /\ SetRefund(r, "succeeded", refunds[r].rid)
  /\ order' = [order EXCEPT !.pay = "REFUNDED"]
  /\ Goto(s, "mark")
  /\ UNCHANGED <<intents, payments, events, remote, errors, restarts, history>>

CommitRefunded(s) ==
  LET t == slot[s] IN
  /\ Committing(s, {"refunded"})
  /\ IF Taken(t.hit, t.ev.about)
     THEN UNCHANGED <<order, refunds>> /\ Goto(s, "fail")
     ELSE /\ SetRefund(t.hit, "succeeded", t.ev.about)
          /\ order' = [order EXCEPT !.pay = "REFUNDED"]
          /\ Goto(s, "mark")
  /\ UNCHANGED <<intents, payments, events, remote, errors, restarts, history>>

CommitRefundFailed(s) ==
  LET r == slot[s].hit IN
  /\ Committing(s, {"refund_failed"})
  /\ SetRefund(r, "failed", refunds[r].rid)
  /\ Goto(s, "mark")
  /\ UNCHANGED <<order, intents, payments, events, remote, errors, restarts, history>>

Mark(s) ==
  LET e == slot[s].ev IN
  /\ At(s, "mark")
  /\ SetEvent(e, "processed", events[e].retries)
  /\ Resume(s)
  /\ UNCHANGED <<order, book, remote, errors, restarts, history>>

\* Mutant of Fail: the event is marked processed all the same.
Fail_Processed(s) ==
  /\ At(s, "fail")
  /\ SetEvent(slot[s].ev, "processed", events[slot[s].ev].retries)
  /\ Resume(s)
  /\ UNCHANGED <<order, book, remote, errors, restarts, history>>

\* Mutant of Fail: a replay is not counted.
Fail_NoCount(s) ==
  /\ At(s, "fail")
  /\ SetEvent(slot[s].ev, "failed", events[slot[s].ev].retries)
  /\ Resume(s)
  /\ UNCHANGED <<order, book, remote, errors, restarts, history>>

\* The catch of the four callers.
Fail(s) ==
  LET e == slot[s].ev IN
  /\ At(s, "fail")
  /\ IF slot[s].op = "replay" THEN SetEvent(e, events[e].status, events[e].retries + 1)
     ELSE SetEvent(e, "failed", events[e].retries)
  /\ Resume(s)
  /\ UNCHANGED <<order, book, remote, errors, restarts, history>>

(***************************************************************************)
(* Refunds.  The row is inserted and the provider is called before anything *)
(* else of the request can be seen.                                        *)
(***************************************************************************)
RefundAnswer(rid) == \E type \in RefundAnswers : due' = due \union {Hook(rid, type, rid)}

RefundRequest(s) ==
  /\ order.pay \in {"PAID", "REFUNDED"} /\ payments # <<>>
  /\ drawn < MaxIds
  /\ drawn' = drawn + 1
  /\ refunds' = Append(refunds, [status |-> "requested", rid |-> 0])
  /\ RefundAnswer(drawn')
  /\ Begin(s, "refund", [Task("refund", "update") EXCEPT !.row = Len(refunds'), !.id = drawn'])
  /\ UNCHANGED <<order, intents, payments, events, mock, sent, errors, restarts, history>>

\* handleRefundRetry: a refund that is still processing may be asked for again.
RetryRequest(s, r) ==
  /\ refunds[r].status # "succeeded"
  /\ drawn < MaxIds
  /\ drawn' = drawn + 1
  /\ RefundAnswer(drawn')
  /\ Begin(s, "retry", [Task("retry", "update") EXCEPT !.row = r, !.id = drawn'])
  /\ UNCHANGED <<order, book, events, mock, sent, errors, restarts, history>>

\* A webhook may have given the id to another row: the update then fails.
RefundUpdate(s) ==
  LET t == slot[s] IN
  /\ t.pc = "update"
  /\ IF Taken(t.row, t.id) THEN UNCHANGED refunds /\ Finish(s)
     ELSE SetRefund(t.row, "processing", t.id) /\ Goto(s, "order")
  /\ UNCHANGED <<order, intents, payments, events, remote, errors, restarts, history>>

\* Mutant of RefundOrder: the refund counts as done once it is asked for.
RefundOrder_Final(s) ==
  /\ At(s, "order")
  /\ order' = [order EXCEPT !.pay = "REFUNDED"]
  /\ Finish(s)
  /\ UNCHANGED <<book, events, remote, errors, restarts, history>>

RefundOrder(s) ==
  /\ At(s, "order")
  /\ order' = [order EXCEPT !.pay = "REFUNDING"]
  /\ Finish(s)
  /\ UNCHANGED <<book, events, remote, errors, restarts, history>>

(***************************************************************************)
(* The jobs.  A run that finds nothing to do changes nothing.              *)
(***************************************************************************)
MaxRetries == 3

StartJob(s, op, todo) == Idle(s) /\ op \in Ops /\ todo # {} /\ TakeNext(s, op, todo)

ReplayList(s) ==
  /\ StartJob(s, "replay", {e \in DOMAIN events : /\ events[e].status = "failed"
                                                 /\ events[e].retries < MaxRetries})
  /\ UNCHANGED <<order, book, events, remote, errors, restarts, history>>

ReconcileList(s) ==
  /\ order.pay # "PAID" /\ Len(payments) < MaxPayments
  /\ StartJob(s, "reconcile", DOMAIN payments)
  /\ UNCHANGED <<order, book, events, remote, errors, restarts, history>>

\* Which of the open intents are old enough is not modelled: any of them.
CleanupList(s) ==
  /\ order.pay # "PAID"
  /\ \E todo \in SUBSET {i \in DOMAIN intents : intents[i] \notin {"succeeded", "failed"}} :
       StartJob(s, "cleanup", todo)
  /\ UNCHANGED <<order, book, events, remote, errors, restarts, history>>

CleanupStep(s) ==
  /\ At(s, "expire")
  /\ intents' = [intents EXCEPT ![slot[s].row] = "failed"]
  /\ TakeNext(s, "cleanup", slot[s].todo)
  /\ UNCHANGED <<order, payments, refunds, events, remote, errors, restarts, history>>

(***************************************************************************)
(* Faults.                                                                 *)
(***************************************************************************)
\* The process ends: requests, jobs, timers and the provider's memory are gone.
Crash == /\ slot' = [s \in Slots |-> NoTask]
         /\ due' = {}
         /\ mock' = [i \in DOMAIN mock |-> [status |-> "lost", txn |-> 0]]
         /\ UNCHANGED <<order, book, events, sent, drawn, history>>

Restart == restarts < MaxRestarts /\ restarts' = restarts + 1 /\ Crash /\ UNCHANGED errors

\* A statement fails.  Processing an event catches it; a handler ends with an
\* error; a job, whose promise nobody awaits, takes the process down with it.
StatementFails(s) ==
  /\ ~Idle(s) /\ errors < MaxErrors
  /\ errors' = errors + 1
  /\ \/ /\ slot[s].pc \in {"select", "commit", "mark"}
        /\ Goto(s, "fail")
        /\ UNCHANGED <<order, book, events, remote, history>>
     \/ /\ slot[s].pc \in {"store", "fail", "write", "insert", "settle", "update", "order"}
        /\ slot[s].op \notin {"replay", "reconcile"}
        /\ Finish(s)
        /\ UNCHANGED <<order, book, events, remote, history>>
     \/ /\ slot[s].pc \in {"store", "fail", "expire"}
        /\ slot[s].op \in {"replay", "reconcile", "cleanup"}
        /\ Crash
  /\ UNCHANGED restarts

(***************************************************************************)
(* The specification.                                                      *)
(***************************************************************************)
Init ==
  /\ order = NewOrder
  /\ intents = <<>> /\ payments = <<>> /\ refunds = <<>>
  /\ events = [e \in {} |-> [status |-> "received", retries |-> 0]]
  /\ mock = <<>> /\ due = {} /\ sent = {} /\ drawn = 0
  /\ slot = [s \in Slots |-> NoTask]
  /\ errors = 0 /\ restarts = 0
  /\ manual = FALSE /\ withdrawn = FALSE /\ skipped = {}

Arrive(s) ==
  \/ \E op \in {"mark_paid", "cancel", "close"} : OrderRead(s, op)
  \/ CreateRead(s)
  \/ \E i \in DOMAIN intents, outcome \in Outcome : ConfirmRead(s, i, outcome)
  \/ \E e \in sent : Redeliver(s, e)
  \/ RefundRequest(s)
  \/ \E r \in DOMAIN refunds : RetryRequest(s, r)

Timer(s) == \/ \E e \in due : HookFires(s, e)
            \/ ReplayList(s) \/ ReconcileList(s) \/ CleanupList(s)

Continue(s) ==
  \/ OrderWrite(s) \/ CreateInsert(s) \/ Settle(s)
  \/ Store(s) \/ Select(s)
  \/ CommitPaid(s) \/ CommitDeclined(s) \/ CommitRefunded(s) \/ CommitRefundFailed(s)
  \/ Mark(s) \/ Fail(s)
  \/ RefundUpdate(s) \/ RefundOrder(s)
  \/ CleanupStep(s)

Next == \/ \E s \in Slots : Arrive(s) \/ Timer(s) \/ Continue(s) \/ StatementFails(s)
        \/ Restart

Spec == Init /\ [][Next]_vars

\* A statement that was sent is executed, a timer that was set goes off, and
\* setInterval starts the jobs again and again, whatever else is going on.
Fairness ==
  /\ \A s \in Slots : WF_vars(Continue(s))
  /\ SF_vars(\E s \in Slots, e \in due : HookFires(s, e))
  /\ SF_vars(\E s \in Slots : ReplayList(s))
  /\ SF_vars(\E s \in Slots : ReconcileList(s))

FairSpec == Spec /\ Fairness

(***************************************************************************)
(* Properties.                                                             *)
(***************************************************************************)
\* Every variable has its type.
TypeOK ==
  /\ order \in [status : Status, pay : PaymentStatus]
  /\ intents \in Seq(IntentStatus)
  /\ payments \in Seq([intent : DOMAIN intents, txn : Nat])
  /\ refunds \in Seq([status : {"requested", "processing", "succeeded", "failed"}, rid : Nat])
  /\ DOMAIN events \subseteq Event
  /\ \A e \in DOMAIN events :
       events[e] \in [status : {"received", "processed", "failed"}, retries : Nat]
  /\ mock \in Seq([status : IntentStatus \union {"lost"}, txn : Nat])
  /\ Len(mock) = Len(intents)
  /\ due \union sent \subseteq Event
  /\ drawn \in Nat /\ errors \in 0 .. MaxErrors /\ restarts \in 0 .. MaxRestarts
  /\ manual \in BOOLEAN /\ withdrawn \in BOOLEAN /\ skipped \subseteq Event

\* An order is never anything but unpaid without a payment row or a payment
\* marked by hand that accounts for it, however webhooks, confirmations,
\* cancellations and jobs overwrite one another.
MoneyHasEvidence == order.pay # "UNPAID" => payments # <<>> \/ manual

\* An order is refunded only when a webhook said so or when somebody, or the
\* closing job, withdrew from it: asking for a refund is not enough.
RefundedByWebhook ==
  order.pay = "REFUNDED" => withdrawn \/ \E e \in DOMAIN events : e.type = "refunded"

\* A refund that succeeded carries the id of a refund the provider did make,
\* whichever row its webhook was booked on and however often it was retried.
SucceededRefundIsAnswered ==
  \A r \in DOMAIN refunds :
    refunds[r].status = "succeeded" =>
      \E e \in DOMAIN events : e.type = "refunded" /\ e.about = refunds[r].rid

\* A payment event is marked processed only when its payment is in the books,
\* after whatever failures, repetitions and replays: a marked event is never
\* looked at again.
ProcessedMeansBooked ==
  \A e \in DOMAIN events :
    (e.type = "paid" /\ events[e].status = "processed") =>
      \E p \in DOMAIN payments : payments[p].intent = e.about /\ e.txn \in {0, payments[p].txn}

\* One transaction of the provider is booked once, although its event may be
\* processed again after it was committed.
TxnBookedOnce ==
  \A p, q \in DOMAIN payments :
    payments[p].txn = payments[q].txn /\ payments[p].txn # 0 => p = q

\* The refinement mapping: what is left of the tables when it is forgotten who
\* writes them, in how many statements, and which copies are under way.
Promise == INSTANCE PaymentLedger WITH
  told <- sent,
  heard <- DOMAIN events,
  booked <- payments,
  won <- {i \in DOMAIN intents : intents[i] = "succeeded"},
  answered <- [r \in DOMAIN refunds |-> IF refunds[r].status = "succeeded" THEN refunds[r].rid ELSE 0],
  pay <- order.pay,
  byHand <- manual

\* The tables, under every interleaving, failure and restart, only do what
\* PaymentLedger allows: an intent succeeds, a payment is booked, a refund is
\* answered and the order shows money only for a reason that is in the books.
KeepsLedger == Promise!LedgerSpec

Has(e, status) == e \in DOMAIN events /\ events[e].status = status

\* The events that wait for the replay job.
Waiting == {e \in DOMAIN events : Has(e, "failed") /\ events[e].retries < MaxRetries}

\* An event whose processing failed is processed in the end, or was tried
\* again as often as it may be, whatever fails on the way.
FailedEventsAreReplayed == (Waiting # {}) ~> (Waiting = {})

(***************************************************************************)
(* What the documentation says and the code does not do.                   *)
(***************************************************************************)
\* docs/payments_v2.md:7: "End-to-end idempotency across client, server, and
\* database": an intent is paid once.
OneBookingPerIntent ==
  \A p, q \in DOMAIN payments : payments[p].intent = payments[q].intent => p = q

\* webhookHandler.js:68, where a known event is skipped: "Already processed".
SkippedEventsWereProcessed == (skipped # {}) ~> (\A e \in skipped : Has(e, "processed"))

\* docs/payments_v2.md:96: "Repair: if payment succeeded but order.payment_status
\* != PAID, update via event handler" (or the bound on payment rows is reached).
OrdersAreRepaired == (payments # <<>>) ~> (order.pay # "UNPAID" \/ Len(payments) >= MaxPayments)

\* tests/golden/order_timeout_close.json:5, of an order the host did not
\* answer: "payment_status becomes REFUNDED" (and nobody pays it again).
TimedOutOrdersAreRefunded ==
  [][(order.status = "CANCELLED_REFUNDED" /\ order.pay = "REFUNDED") => order'.pay # "PAID"]_vars
=============================================================================
