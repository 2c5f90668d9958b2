------------------------------- MODULE Orders -------------------------------
(***************************************************************************)
(* The life of an order: the request handlers of server/src/routes/        *)
(* orders.js and the job autoCloseUnconfirmed of server/src/jobs/index.js. *)
(*                                                                         *)
(* A handler sends its statements to the database one by one, outside any  *)
(* transaction: it reads the order, checks the copy it read, then updates  *)
(* the row by its id alone and last inserts a row of order_status_logs.    *)
(* Every statement is an action of its own, so the statements of requests  *)
(* served at the same time, and of the job, interleave in every order.     *)
(*                                                                         *)
(* The rows of OrderIds are those of one booking (same traveler, host,     *)
(* experience and start time), which is what handleCreate looks up.        *)
(***************************************************************************)
EXTENDS Naturals, FiniteSets

CONSTANTS OrderIds,     \* the ids the table can hand out (a bound)
          Requests,     \* requests the server works on at the same time
          JobRuns,      \* runs of the job that can overlap
          Ops,          \* what clients and the payment service ask for (a bound)
          MaxFaults     \* statements that may fail (a bound)

ASSUME OrderIdsAssumption == OrderIds # {}
ASSUME MaxFaultsAssumption == MaxFaults \in Nat

VARIABLES
  orders,      \* the table orders
  trail,       \* the statuses order_status_logs says each order moved to
  reviews,     \* the table reviews: which party of each order wrote one
  age,         \* time since created_at: 0, 1 (30 minutes) or 2 (12 hours)
  revealDue,   \* whether completed_at lies 14 days or more in the past
  revealed,    \* whether it ever did (history)
  shown,       \* the parties whose review a client has been sent
  req,         \* the local state of each request
  job,         \* the local state of each run of autoCloseUnconfirmed
  faults       \* how many statements have failed

tables == <<orders, trail, reviews>>
clock == <<age, revealDue, revealed>>
ordersVars == <<orders, trail, reviews, age, revealDue, revealed, shown, req, job, faults>>

(***************************************************************************)
(* Rows.  The columns paid_at, confirmed_at, started_at, completed_at and  *)
(* cancelled_at are the set "at" of those that are not null.               *)
(***************************************************************************)
Cancelled == {"CANCELLED_REFUNDED", "CANCELLED_BY_TRAVELER"}

Status == {"PENDING_PAYMENT", "PENDING_HOST_CONFIRM", "CONFIRMED",
           "IN_SERVICE", "COMPLETED"} \union Cancelled

PaymentStatus == {"UNPAID", "PAID", "REFUNDING", "REFUNDED"}

Stamp == {"paid", "confirmed", "started", "completed", "cancelled"}

\* "NONE" is the status of an id that no row has yet.
Row == [status : Status \union {"NONE"}, pay : PaymentStatus, at : SUBSET Stamp]

NoRow == [status |-> "NONE", pay |-> "UNPAID", at |-> {}]

NewRow == [status |-> "PENDING_PAYMENT", pay |-> "UNPAID", at |-> {}]

Exists(o) == orders[o].status # "NONE"

Party == {"TRAVELER", "HOST"}

(***************************************************************************)
(* Requests.  "seen" is the copy of the row a handler holds between its    *)
(* SELECT and the statements that follow; "to" is the status its UPDATE    *)
(* writes and its log row repeats.                                         *)
(***************************************************************************)
Op == {"create", "mark_paid", "accept", "reject", "cancel", "start", "end",
       "review", "detail", "payment", "refund"}

\* The columns of the row a handler looks at after its SELECT.
Copy == [status : Status \union {"NONE"}, pay : PaymentStatus]

CopyOf(row) == [status |-> row.status, pay |-> row.pay]

Request ==
  [pc : {"idle", "insert", "update", "log", "check", "review", "reviews"},
   op : Op, id : OrderIds, seen : Copy, to : Status, party : Party, visible : BOOLEAN]

Idle(r) == req[r].pc = "idle"

Local(pc, op, o, seen, to, party, visible) ==
  [pc |-> pc, op |-> op, id |-> o, seen |-> seen, to |-> to,
   party |-> party, visible |-> visible]

\* What a slot holds when no request uses it: nothing of it is read.
NoRequest(o) ==
  Local("idle", "create", o, CopyOf(NoRow), "PENDING_PAYMENT", "TRAVELER", FALSE)

SomeId == CHOOSE o \in OrderIds : TRUE

Done(r) == req' = [req EXCEPT ![r] = NoRequest(SomeId)]

Proceed(r, pc) == req' = [req EXCEPT ![r].pc = pc]

(***************************************************************************)
(* The checks each handler makes on the copy it read.                      *)
(***************************************************************************)
MarkPaidAllowed(row) ==
  /\ row.pay = "UNPAID"
  /\ row.status \notin Cancelled \union {"COMPLETED"}

\* Mutant of AcceptAllowed: the PAYMENT_REQUIRED check is missing.
AcceptAllowed_Unpaid(row) == row.status \in {"PENDING_PAYMENT", "PENDING_HOST_CONFIRM"}

AcceptAllowed(row) == row.pay = "PAID" /\ row.status = "PENDING_HOST_CONFIRM"

RejectAllowed(row) == row.status = "PENDING_HOST_CONFIRM"

CancelAllowed(row) == row.status \notin {"COMPLETED", "IN_SERVICE"}

StartAllowed(row) == row.status = "CONFIRMED"

\* Mutant of EndAllowed: a confirmed service can be ended without a start.
EndAllowed_NotStarted(row) == row.status \in {"CONFIRMED", "IN_SERVICE"}

EndAllowed(row) == row.status = "IN_SERVICE"

\* Mutant of ReviewAllowed: a running service can be reviewed.
ReviewAllowed_Early(row) == row.status \in {"IN_SERVICE", "COMPLETED"}

ReviewAllowed(row) == row.status = "COMPLETED"

\* The status a payment leaves an order in.
NextStatus(status) ==
  IF status = "PENDING_PAYMENT" THEN "PENDING_HOST_CONFIRM" ELSE status

\* The payment status a rejection or a cancellation leaves behind.
RefundedIfPaid(pay) == IF pay = "PAID" THEN "REFUNDED" ELSE pay

(***************************************************************************)
(* The steps handlers share.                                               *)
(***************************************************************************)
\* fetchOrder followed by a check that lets the request through; a request
\* that is refused ends here and changes nothing.
Fetch(r, op, o, allowed, to) ==
  /\ Idle(r) /\ op \in Ops
  /\ Exists(o)
  /\ allowed
  /\ req' = [req EXCEPT ![r] =
              Local("update", op, o, CopyOf(orders[o]), to, "TRAVELER", FALSE)]
  /\ UNCHANGED <<tables, clock, shown, job, faults>>

\* UPDATE orders SET status, payment_status = pay, <stamp>_at = now()
\* WHERE id: no condition on what the row holds by now.  A new completed_at
\* puts the reveal date off.
Update(r, op, pay, stamp, next) ==
  LET q == req[r] IN
  /\ q.pc = "update" /\ q.op = op
  /\ orders' = [orders EXCEPT ![q.id] = [status |-> q.to, pay |-> pay,
                                         at |-> @.at \union {stamp}]]
  /\ revealDue' = IF stamp = "completed" THEN [revealDue EXCEPT ![q.id] = FALSE]
                  ELSE revealDue
  /\ IF next = "idle" THEN Done(r) ELSE Proceed(r, next)
  /\ UNCHANGED <<trail, reviews, age, revealed, shown, job, faults>>

\* insert into order_status_logs, the last statement that changes state.
InsertLog(r) ==
  LET q == req[r] IN
  /\ q.pc = "log"
  /\ trail' = [trail EXCEPT ![q.id] = @ \union {q.to}]
  /\ Done(r)
  /\ UNCHANGED <<orders, reviews, clock, shown, job, faults>>

(***************************************************************************)
(* The handlers.                                                           *)
(***************************************************************************)
\* handleCreate, the lookup: a booking that exists is returned as it is.
CreateLookup(r) ==
  /\ Idle(r) /\ "create" \in Ops
  /\ \A o \in OrderIds : ~Exists(o)
  /\ req' = [req EXCEPT ![r].pc = "insert"]
  /\ UNCHANGED <<tables, clock, shown, job, faults>>

\* handleCreate, the INSERT: no unique index covers the booking.
CreateInsert(r, o) ==
  /\ req[r].pc = "insert"
  /\ ~Exists(o)
  /\ orders' = [orders EXCEPT ![o] = NewRow]
  /\ req' = [req EXCEPT ![r].pc = "log", ![r].id = o]
  /\ UNCHANGED <<trail, reviews, clock, shown, job, faults>>

MarkPaidRead(r, o) ==
  Fetch(r, "mark_paid", o, MarkPaidAllowed(orders[o]), NextStatus(orders[o].status))

MarkPaidUpdate(r) ==
  Update(r, "mark_paid", "PAID", "paid",
         IF req[r].to # req[r].seen.status THEN "log" ELSE "idle")

AcceptRead(r, o) == Fetch(r, "accept", o, AcceptAllowed(orders[o]), "CONFIRMED")

AcceptUpdate(r) == Update(r, "accept", orders[req[r].id].pay, "confirmed", "log")

RejectRead(r, o) == Fetch(r, "reject", o, RejectAllowed(orders[o]), "CANCELLED_REFUNDED")

RejectUpdate(r) ==
  Update(r, "reject", RefundedIfPaid(req[r].seen.pay), "cancelled", "log")

\* Mutant of CancelRead: a status the enum type does not have.
CancelRead_NoSuchStatus(r, o) ==
  Fetch(r, "cancel", o, CancelAllowed(orders[o]), "CANCELLED")

CancelRead(r, o) ==
  Fetch(r, "cancel", o, CancelAllowed(orders[o]), "CANCELLED_BY_TRAVELER")

CancelUpdate(r) ==
  Update(r, "cancel", RefundedIfPaid(req[r].seen.pay), "cancelled", "log")

StartRead(r, o) == Fetch(r, "start", o, StartAllowed(orders[o]), "IN_SERVICE")

StartUpdate(r) == Update(r, "start", orders[req[r].id].pay, "started", "log")

EndRead(r, o) == Fetch(r, "end", o, EndAllowed(orders[o]), "COMPLETED")

EndUpdate(r) == Update(r, "end", orders[req[r].id].pay, "completed", "log")

\* What the payment service (module Payments) does to the row.  Processing a
\* payment event reads the status, whatever it is, and commits later: the row
\* and its log in one transaction.
PaymentRead(r, o) == Fetch(r, "payment", o, TRUE, NextStatus(orders[o].status))

\* Mutant of PaymentCommit: the transition is not logged.
PaymentCommit_NoLog(r) ==
  LET q == req[r] IN
  /\ q.pc = "update" /\ q.op = "payment"
  /\ orders' = [orders EXCEPT ![q.id] = [status |-> q.to, pay |-> "PAID",
                                         at |-> @.at \union {"paid"}]]
  /\ Done(r)
  /\ UNCHANGED <<trail, reviews, clock, shown, job, faults>>

PaymentCommit(r) ==
  LET q == req[r] IN
  /\ q.pc = "update" /\ q.op = "payment"
  /\ orders' = [orders EXCEPT ![q.id] = [status |-> q.to, pay |-> "PAID",
                                         at |-> @.at \union {"paid"}]]
  /\ trail' = IF q.to # q.seen.status THEN [trail EXCEPT ![q.id] = @ \union {q.to}] ELSE trail
  /\ Done(r)
  /\ UNCHANGED <<reviews, clock, shown, job, faults>>

\* A refund of a payment writes payment_status at any time after it.
RefundUpdate(o, pay) ==
  /\ "refund" \in Ops
  /\ "paid" \in orders[o].at
  /\ orders' = [orders EXCEPT ![o] = [status |-> @.status, pay |-> pay, at |-> @.at]]
  /\ UNCHANGED <<trail, reviews, clock, shown, req, job, faults>>

\* handleReview: the order is read, then the author's earlier review is
\* looked for, then the review is inserted; the unique index on the order
\* and its author rejects a second one (the request then ends with a 500).
ReviewRead(r, o, party) ==
  /\ Idle(r) /\ "review" \in Ops
  /\ Exists(o)
  /\ ReviewAllowed(orders[o])
  /\ req' = [req EXCEPT ![r] =
              Local("check", "review", o, CopyOf(NoRow), "PENDING_PAYMENT", party, FALSE)]
  /\ UNCHANGED <<tables, clock, shown, job, faults>>

ReviewLookup(r) ==
  /\ req[r].pc = "check"
  /\ IF req[r].party \in reviews[req[r].id] THEN Done(r) ELSE Proceed(r, "review")
  /\ UNCHANGED <<tables, clock, shown, job, faults>>

ReviewInsert(r) ==
  /\ req[r].pc = "review"
  /\ reviews' = [reviews EXCEPT ![req[r].id] = @ \union {req[r].party}]
  /\ Done(r)
  /\ UNCHANGED <<orders, trail, clock, shown, job, faults>>

\* Mutant of ReviewVisible: one review of the two is enough.
ReviewVisible_Either(o) ==
  \/ reviews[o] # {}
  \/ "completed" \in orders[o].at /\ revealDue[o]

\* computeReviewVisibility on the row fetchOrder returns.
ReviewVisible(o) ==
  \/ reviews[o] = Party
  \/ "completed" \in orders[o].at /\ revealDue[o]

\* handleDetail: visibility is decided on the first statement, the reviews
\* come from a later one.
DetailRead(r, o) ==
  /\ Idle(r) /\ "detail" \in Ops
  /\ Exists(o)
  /\ req' = [req EXCEPT ![r] =
              Local("reviews", "detail", o, CopyOf(NoRow), "PENDING_PAYMENT", "TRAVELER",
                    ReviewVisible(o))]
  /\ UNCHANGED <<tables, clock, shown, job, faults>>

DetailReviews(r) ==
  LET q == req[r] IN
  /\ q.pc = "reviews"
  /\ shown' = [shown EXCEPT ![q.id] = IF q.visible THEN @ \union reviews[q.id] ELSE @]
  /\ Done(r)
  /\ UNCHANGED <<tables, clock, job, faults>>

(***************************************************************************)
(* The job.  It lists the rows that are due, then closes each row of its   *)
(* list by id, then does the same for the second kind of row.  An error    *)
(* ends the whole run; startJobs starts one every ten minutes and does not *)
(* wait for the one before.                                                *)
(***************************************************************************)
JobState ==
  [pc : {"idle", "unpaid", "unpaid_log", "unconfirmed", "unconfirmed_log"},
   todo : SUBSET OrderIds, at : OrderIds]

NoRun == [pc |-> "idle", todo |-> {}, at |-> SomeId]

\* Mutant of UnpaidDue: the job looks for rows that were paid.
UnpaidDue_Paid(o) ==
  orders[o].status = "PENDING_PAYMENT" /\ orders[o].pay = "PAID" /\ age[o] >= 1

UnpaidDue(o) == orders[o].status = "PENDING_PAYMENT" /\ age[o] >= 1

UnconfirmedDue(o) == orders[o].status = "PENDING_HOST_CONFIRM" /\ age[o] >= 2

JobListUnpaid(j) ==
  /\ job[j].pc = "idle"
  /\ job' = [job EXCEPT ![j] = [pc |-> "unpaid", todo |-> {o \in OrderIds : UnpaidDue(o)},
                                at |-> SomeId]]
  /\ UNCHANGED <<tables, clock, shown, req, faults>>

JobCloseUnpaid(j, o) ==
  /\ job[j].pc = "unpaid" /\ o \in job[j].todo
  /\ orders' = [orders EXCEPT ![o] = [status |-> "CANCELLED_BY_TRAVELER", pay |-> @.pay,
                                      at |-> @.at \union {"cancelled"}]]
  /\ job' = [job EXCEPT ![j] = [pc |-> "unpaid_log", todo |-> @.todo \ {o}, at |-> o]]
  /\ UNCHANGED <<trail, reviews, clock, shown, req, faults>>

JobListUnconfirmed(j) ==
  /\ job[j].pc = "unpaid" /\ job[j].todo = {}
  /\ job' = [job EXCEPT ![j] = [pc |-> "unconfirmed", at |-> SomeId,
                                todo |-> {o \in OrderIds : UnconfirmedDue(o)}]]
  /\ UNCHANGED <<tables, clock, shown, req, faults>>

JobCloseUnconfirmed(j, o) ==
  /\ job[j].pc = "unconfirmed" /\ o \in job[j].todo
  /\ orders' = [orders EXCEPT ![o] = [status |-> "CANCELLED_REFUNDED", pay |-> "REFUNDED",
                                      at |-> @.at \union {"cancelled"}]]
  /\ job' = [job EXCEPT ![j] = [pc |-> "unconfirmed_log", todo |-> @.todo \ {o}, at |-> o]]
  /\ UNCHANGED <<trail, reviews, clock, shown, req, faults>>

\* The status the job has just given to the row it is about to log.
Closed(pc) == IF pc = "unpaid_log" THEN "CANCELLED_BY_TRAVELER" ELSE "CANCELLED_REFUNDED"

JobLog(j) ==
  /\ job[j].pc \in {"unpaid_log", "unconfirmed_log"}
  /\ trail' = [trail EXCEPT ![job[j].at] = @ \union {Closed(job[j].pc)}]
  /\ job' = [job EXCEPT ![j].pc = IF @ = "unpaid_log" THEN "unpaid" ELSE "unconfirmed",
                        ![j].at = SomeId]
  /\ UNCHANGED <<orders, reviews, clock, shown, req, faults>>

JobFinish(j) ==
  /\ job[j].pc = "unconfirmed" /\ job[j].todo = {}
  /\ job' = [job EXCEPT ![j] = NoRun]
  /\ UNCHANGED <<tables, clock, shown, req, faults>>

(***************************************************************************)
(* Failures and time.                                                      *)
(***************************************************************************)
\* A statement fails, or the server restarts: the request answers 500 (or
\* nothing) and what it had not written yet is never written.
RequestFails(r) ==
  /\ ~Idle(r)
  /\ faults < MaxFaults
  /\ Done(r)
  /\ faults' = faults + 1
  /\ UNCHANGED <<tables, clock, shown, job>>

JobFails(j) ==
  /\ job[j].pc # "idle"
  /\ faults < MaxFaults
  /\ job' = [job EXCEPT ![j] = NoRun]
  /\ faults' = faults + 1
  /\ UNCHANGED <<tables, clock, shown, req>>

GetOlder(o) ==
  /\ Exists(o) /\ age[o] < 2
  /\ age' = [age EXCEPT ![o] = @ + 1]
  /\ UNCHANGED <<tables, revealDue, revealed, shown, req, job, faults>>

RevealDatePasses(o) ==
  /\ "completed" \in orders[o].at /\ ~revealDue[o]
  /\ revealDue' = [revealDue EXCEPT ![o] = TRUE]
  /\ revealed' = [revealed EXCEPT ![o] = TRUE]
  /\ UNCHANGED <<tables, age, shown, req, job, faults>>

(***************************************************************************)
(* The specification.                                                      *)
(***************************************************************************)
Init ==
  /\ orders = [o \in OrderIds |-> NoRow]
  /\ trail = [o \in OrderIds |-> {}]
  /\ reviews = [o \in OrderIds |-> {}]
  /\ age = [o \in OrderIds |-> 0]
  /\ revealDue = [o \in OrderIds |-> FALSE]
  /\ revealed = [o \in OrderIds |-> FALSE]
  /\ shown = [o \in OrderIds |-> {}]
  /\ req = [r \in Requests |-> NoRequest(SomeId)]
  /\ job = [j \in JobRuns |-> NoRun]
  /\ faults = 0

\* A client sends a request and its first statement runs.
Arrive(r) ==
  \/ CreateLookup(r)
  \/ \E o \in OrderIds :
       \/ MarkPaidRead(r, o) \/ AcceptRead(r, o) \/ RejectRead(r, o)
       \/ CancelRead(r, o) \/ StartRead(r, o) \/ EndRead(r, o)
       \/ PaymentRead(r, o)
       \/ \E p \in Party : ReviewRead(r, o, p)
       \/ DetailRead(r, o)

\* The statements that follow.
Continue(r) ==
  \/ \E o \in OrderIds : CreateInsert(r, o)
  \/ MarkPaidUpdate(r) \/ AcceptUpdate(r) \/ RejectUpdate(r)
  \/ CancelUpdate(r) \/ StartUpdate(r) \/ EndUpdate(r)
  \/ PaymentCommit(r)
  \/ InsertLog(r)
  \/ ReviewLookup(r) \/ ReviewInsert(r)
  \/ DetailReviews(r)

JobStep(j) ==
  \/ JobListUnpaid(j) \/ JobListUnconfirmed(j) \/ JobLog(j) \/ JobFinish(j)
  \/ \E o \in OrderIds : JobCloseUnpaid(j, o) \/ JobCloseUnconfirmed(j, o)

Next ==
  \/ \E r \in Requests : Arrive(r) \/ Continue(r) \/ RequestFails(r)
  \/ \E j \in JobRuns : JobStep(j) \/ JobFails(j)
  \/ \E o \in OrderIds, pay \in {"REFUNDING", "REFUNDED"} : RefundUpdate(o, pay)
  \/ \E o \in OrderIds : GetOlder(o) \/ RevealDatePasses(o)

Spec == Init /\ [][Next]_ordersVars

\* Node runs every continuation that is ready and setInterval keeps starting
\* the job, so both go on as long as the server lives; time passes.  Nobody
\* is bound to send a request.
Fairness ==
  /\ \A r \in Requests : WF_ordersVars(Continue(r))
  /\ \A j \in JobRuns : WF_ordersVars(JobStep(j))
  /\ \A o \in OrderIds : WF_ordersVars(GetOlder(o))

FairSpec == Spec /\ Fairness

(***************************************************************************)
(* Properties.                                                             *)
(***************************************************************************)
\* Every column, snapshot and counter holds a value of its domain, the enum
\* types order_status and payment_status of the database among them.
TypeOK ==
  /\ orders \in [OrderIds -> Row]
  /\ trail \in [OrderIds -> SUBSET Status]
  /\ reviews \in [OrderIds -> SUBSET Party]
  /\ age \in [OrderIds -> 0..2]
  /\ revealDue \in [OrderIds -> BOOLEAN]
  /\ revealed \in [OrderIds -> BOOLEAN]
  /\ shown \in [OrderIds -> SUBSET Party]
  /\ req \in [Requests -> Request]
  /\ job \in [JobRuns -> JobState]
  /\ faults \in 0..MaxFaults

\* However stale the copies the handlers act on, an order waits for its
\* host, is confirmed, served or completed only if it was paid for at some
\* time, and money is held or given back only for an order that was paid.
NoServiceWithoutPayment ==
  \A o \in OrderIds :
    \/ orders[o].status \in {"PENDING_HOST_CONFIRM", "CONFIRMED", "IN_SERVICE", "COMPLETED"}
    \/ orders[o].pay \in {"PAID", "REFUNDED"}
    => "paid" \in orders[o].at

\* The milestones of a service are passed in order: a completed service was
\* started, a started one confirmed, a confirmed one paid, even when late
\* updates move the status back and forth.
MilestonesInOrder ==
  \A o \in OrderIds :
    /\ "completed" \in orders[o].at => "started" \in orders[o].at
    /\ "started" \in orders[o].at => "confirmed" \in orders[o].at
    /\ "confirmed" \in orders[o].at => "paid" \in orders[o].at

\* A review is only ever stored for a service that was completed, whatever
\* became of its order between the check and the insert.
ReviewsAfterCompletion ==
  \A o \in OrderIds : reviews[o] # {} => "completed" \in orders[o].at

\* handleDetail shows a review only when both parties have written one or a
\* reveal date of the order has passed, though it reads the reviews after it
\* decided and a service that is ended again puts the date off.
BlindUntilRevealed ==
  \A o \in OrderIds : shown[o] # {} => reviews[o] = Party \/ revealed[o]

\* The statuses a request or a run of the job has written and not logged yet.
Unlogged(o) ==
  {req[r].to : r \in {r \in Requests : req[r].pc = "log" /\ req[r].id = o}}
  \union
  {Closed(job[j].pc) : j \in {j \in JobRuns : /\ job[j].pc \in {"unpaid_log", "unconfirmed_log"}
                                              /\ job[j].at = o}}

\* As long as no statement fails, order_status_logs explains the row: the
\* status it has and every milestone it passed is logged, or will be by a
\* handler or a job that is about to.
AuditTrail ==
  faults = 0 =>
    \A o \in {o \in OrderIds : Exists(o)} :
      LET explained == trail[o] \union Unlogged(o) IN
      /\ orders[o].status \in explained
      /\ "confirmed" \in orders[o].at => "CONFIRMED" \in explained
      /\ "started" \in orders[o].at => "IN_SERVICE" \in explained
      /\ "completed" \in orders[o].at => "COMPLETED" \in explained

\* The job closes every order that nobody pays for or that no host answers.
PendingOrdersAreClosed ==
  \A o \in OrderIds :
    /\ orders[o].status = "PENDING_PAYMENT" ~> orders[o].status # "PENDING_PAYMENT"
    /\ orders[o].status = "PENDING_HOST_CONFIRM" ~> orders[o].status # "PENDING_HOST_CONFIRM"

(***************************************************************************)
(* Why the properties above hold.  No row is locked between the read and   *)
(* the write of a handler, so nothing can be said of the status at the     *)
(* time of the write.  But the *_at columns only ever fill up: what a      *)
(* status implied about them when a handler read it is still true when the *)
(* handler writes.                                                         *)
(***************************************************************************)
\* What whoever has seen this status and this payment status of a row knows
\* about its columns "at".
Known(status, pay, at) ==
  /\ status \in {"PENDING_HOST_CONFIRM", "CONFIRMED", "IN_SERVICE", "COMPLETED"} => "paid" \in at
  /\ status \in {"CONFIRMED", "IN_SERVICE", "COMPLETED"} => "confirmed" \in at
  /\ status \in {"IN_SERVICE", "COMPLETED"} => "started" \in at
  /\ status = "COMPLETED" => "completed" \in at
  /\ pay \in {"PAID", "REFUNDED"} => "paid" \in at

\* Each row is consistent.
RowsConsistent ==
  \A o \in OrderIds :
    /\ Known(orders[o].status, orders[o].pay, orders[o].at)
    /\ ~Exists(o) => orders[o].at = {}
    /\ revealDue[o] => revealed[o]

\* What the checks of a handler established about the copy it holds.
Checked(q) ==
  q.pc = "update" =>
    \/ q.op \in {"mark_paid", "payment"} /\ q.to = NextStatus(q.seen.status)
    \/ q.op = "accept" /\ AcceptAllowed(q.seen) /\ q.to = "CONFIRMED"
    \/ q.op \in {"reject", "cancel"} /\ q.to \in Cancelled
    \/ q.op = "start" /\ StartAllowed(q.seen) /\ q.to = "IN_SERVICE"
    \/ q.op = "end" /\ EndAllowed(q.seen) /\ q.to = "COMPLETED"

\* A copy may be out of date, and what it implied about the columns is not.
CopiesStillTell ==
  \A r \in Requests :
    LET q == req[r] IN
    /\ Checked(q)
    /\ q.pc = "update" => Known(q.seen.status, q.seen.pay, orders[q.id].at)
    /\ q.pc \in {"check", "review"} => "completed" \in orders[q.id].at
    /\ q.pc = "reviews" /\ q.visible => reviews[q.id] = Party \/ revealed[q.id]

\* The same for the lists of the job.
ListsStillTell ==
  \A j \in JobRuns :
    job[j].pc \in {"unconfirmed", "unconfirmed_log"} =>
      \A o \in job[j].todo : "paid" \in orders[o].at

OrdersInv ==
  /\ TypeOK
  /\ RowsConsistent
  /\ MilestonesInOrder
  /\ CopiesStillTell
  /\ ListsStillTell
  /\ ReviewsAfterCompletion
  /\ BlindUntilRevealed

\* server/verification/step3_orders_authz.md: an order moves along payment,
\* confirmation, service and completion only.  In particular a cancelled
\* order is not brought back to life.
CancelledStaysCancelled ==
  [][\A o \in OrderIds : orders[o].status \in Cancelled => orders'[o].status \in Cancelled]_orders

(***************************************************************************)
(* The promise the order service keeps.                                    *)
(***************************************************************************)
Promise == INSTANCE ServiceMilestones WITH
  Bookings <- OrderIds,
  reached  <- [o \in OrderIds |-> orders[o].at \ {"cancelled"}],
  reviewed <- reviews

\* The tables, under every interleaving, only do what ServiceMilestones
\* allows: this is what survives of the order of a service when updates are
\* applied late.
KeepsPromise == Promise!Spec
=============================================================================
