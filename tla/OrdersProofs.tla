---------------------------- MODULE OrdersProofs ----------------------------
(***************************************************************************)
(* Theorems about Orders for any number of rows, concurrent requests, runs *)
(* of the job and failures.                                                *)
(***************************************************************************)
EXTENDS Orders, TLAPS

LEMMA SomeIdType == SomeId \in OrderIds
BY OrderIdsAssumption DEF SomeId

LEMMA NoRequestType == \A o \in OrderIds : NoRequest(o) \in Request
BY DEF NoRequest, Local, Request, Op, Copy, CopyOf, NoRow, Party, PaymentStatus, Status

LEMMA NoRunType == NoRun \in JobState
BY SomeIdType DEF NoRun, JobState

LEMMA CopyType == ASSUME TypeOK, NEW o \in OrderIds PROVE CopyOf(orders[o]) \in Copy
BY DEF TypeOK, Row, CopyOf, Copy

\* An idle slot holds nothing an invariant speaks about.
LEMMA NoRequestChecked == \A o \in OrderIds : Checked(NoRequest(o))
BY DEF NoRequest, Local, Checked

LEMMA InitOrdersInv == Init => OrdersInv
<1> SUFFICES ASSUME Init PROVE OrdersInv
  OBVIOUS
<1>1. TypeOK
  BY SomeIdType, NoRequestType, NoRunType, MaxFaultsAssumption
  DEF Init, TypeOK, Row, NoRow, PaymentStatus, Stamp
<1>2. RowsConsistent /\ MilestonesInOrder
  BY DEF Init, RowsConsistent, MilestonesInOrder, Known, NoRow, Exists
<1>3. CopiesStillTell
  BY DEF Init, CopiesStillTell, Checked, NoRequest, Local
<1>4. ListsStillTell
  BY DEF Init, ListsStillTell, NoRun
<1>5. ReviewsAfterCompletion /\ BlindUntilRevealed
  BY DEF Init, ReviewsAfterCompletion, BlindUntilRevealed
<1> QED BY <1>1, <1>2, <1>3, <1>4, <1>5 DEF OrdersInv

(***************************************************************************)
(* A step that touches no table and gives one request a new local state    *)
(* that is right about what it read keeps the invariant.                   *)
(***************************************************************************)
LEMMA LocalStep ==
  ASSUME OrdersInv, NEW r \in Requests, NEW q \in Request,
         req' = [req EXCEPT ![r] = q],
         Checked(q),
         q.pc = "update" => Known(q.seen.status, q.seen.pay, orders[q.id].at),
         q.pc \in {"check", "review"} => "completed" \in orders[q.id].at,
         q.pc = "reviews" /\ q.visible => reviews[q.id] = Party \/ revealed[q.id],
         UNCHANGED <<tables, clock, shown, job>>,
         faults' \in 0..MaxFaults
  PROVE  OrdersInv'
<1>1. TypeOK'
  BY DEF OrdersInv, TypeOK, tables, clock
<1>2. RowsConsistent' /\ MilestonesInOrder'
  BY DEF OrdersInv, RowsConsistent, MilestonesInOrder, Exists, tables, clock
<1>3. CopiesStillTell'
  BY DEF OrdersInv, TypeOK, CopiesStillTell, tables, clock
<1>4. ListsStillTell' /\ ReviewsAfterCompletion' /\ BlindUntilRevealed'
  BY DEF OrdersInv, ListsStillTell, ReviewsAfterCompletion, BlindUntilRevealed, tables, clock
<1> QED BY <1>1, <1>2, <1>3, <1>4 DEF OrdersInv

\* fetchOrder hands out a copy of a consistent row.
LEMMA FetchStep ==
  ASSUME OrdersInv, NEW r \in Requests, NEW op \in Op, NEW o \in OrderIds,
         NEW allowed \in BOOLEAN, NEW to \in Status,
         Fetch(r, op, o, allowed, to),
         Checked(Local("update", op, o, CopyOf(orders[o]), to, "TRAVELER", FALSE))
  PROVE  OrdersInv'
<1> DEFINE q == Local("update", op, o, CopyOf(orders[o]), to, "TRAVELER", FALSE)
<1>1. q \in Request
  BY CopyType DEF OrdersInv, Request, Local, Party
<1>2. /\ q.pc = "update" /\ q.id = o
      /\ q.seen.status = orders[o].status /\ q.seen.pay = orders[o].pay
  BY DEF Local, CopyOf
<1>3. Known(q.seen.status, q.seen.pay, orders[q.id].at)
  BY <1>2 DEF OrdersInv, RowsConsistent
<1>4. faults' \in 0..MaxFaults
  BY DEF OrdersInv, TypeOK, Fetch
<1>5. req' = [req EXCEPT ![r] = q] /\ UNCHANGED <<tables, clock, shown, job>>
  BY DEF Fetch
<1> HIDE DEF q
<1> QED
  BY <1>1, <1>2, <1>3, <1>4, <1>5, LocalStep DEF q

(***************************************************************************)
(* Writing a row.  Columns only fill up, so what requests and lists of the *)
(* job knew about them stays true.                                         *)
(***************************************************************************)
LEMMA KnownGrows ==
  ASSUME NEW status, NEW pay, NEW before, NEW after, before \subseteq after,
         Known(status, pay, before)
  PROVE  Known(status, pay, after)
BY DEF Known

\* Any step that replaces the row of o by one with at least the same columns
\* filled and lets requests and runs go on as they may keeps what others know.
LEMMA RowStep ==
  ASSUME OrdersInv, NEW o \in OrderIds, NEW row \in Row,
         orders' = [orders EXCEPT ![o] = row],
         orders[o].at \subseteq row.at,
         Known(row.status, row.pay, row.at),
         row.status # "NONE",
         "completed" \in row.at => "started" \in row.at,
         "started" \in row.at => "confirmed" \in row.at,
         "confirmed" \in row.at => "paid" \in row.at,
         UNCHANGED <<reviews, age, revealed, shown, faults>>,
         trail' \in [OrderIds -> SUBSET Status],
         revealDue' \in [OrderIds -> BOOLEAN],
         \A p \in OrderIds : revealDue'[p] => revealDue[p],
         req' \in [Requests -> Request],
         \A r \in Requests : \/ req'[r] = req[r]
                             \/ req'[r].pc \in {"idle", "log"},
         job' \in [JobRuns -> JobState],
         \A j \in JobRuns : \/ job'[j].pc \notin {"unconfirmed", "unconfirmed_log"}
                            \/ /\ job[j].pc \in {"unconfirmed", "unconfirmed_log"}
                               /\ job'[j].todo \subseteq job[j].todo
  PROVE  OrdersInv'
<1>1. TypeOK'
  BY DEF OrdersInv, TypeOK
<1>2. \A p \in OrderIds : orders[p].at \subseteq orders'[p].at
  BY DEF OrdersInv, TypeOK
<1>3. RowsConsistent' /\ MilestonesInOrder'
  BY DEF OrdersInv, TypeOK, RowsConsistent, MilestonesInOrder, Exists
<1>4. CopiesStillTell'
  <2> SUFFICES ASSUME NEW r \in Requests
               PROVE  /\ Checked(req'[r])
                      /\ req'[r].pc = "update" =>
                           Known(req'[r].seen.status, req'[r].seen.pay, orders'[req'[r].id].at)
                      /\ req'[r].pc \in {"check", "review"} => "completed" \in orders'[req'[r].id].at
                      /\ req'[r].pc = "reviews" /\ req'[r].visible =>
                           reviews'[req'[r].id] = Party \/ revealed'[req'[r].id]
    BY DEF CopiesStillTell
  <2>1. CASE req'[r] = req[r]
    <3>1. req[r].id \in OrderIds
      BY DEF OrdersInv, TypeOK, Request
    <3>2. orders[req[r].id].at \subseteq orders'[req[r].id].at
      BY <3>1, <1>2
    <3> QED
      BY <2>1, <3>1, <3>2, KnownGrows DEF OrdersInv, CopiesStillTell
  <2>2. CASE req'[r].pc \in {"idle", "log"}
    BY <2>2 DEF Checked
  <2> QED BY <2>1, <2>2
<1>5. ListsStillTell'
  BY <1>2 DEF OrdersInv, TypeOK, JobState, ListsStillTell
<1>6. ReviewsAfterCompletion' /\ BlindUntilRevealed'
  BY <1>2 DEF OrdersInv, ReviewsAfterCompletion, BlindUntilRevealed
<1> QED BY <1>1, <1>3, <1>4, <1>5, <1>6 DEF OrdersInv

\* The UPDATE of a handler, given what its check established.
LEMMA UpdateStep ==
  ASSUME OrdersInv, NEW r \in Requests, NEW op \in Op, NEW pay \in PaymentStatus,
         NEW stamp \in Stamp, NEW next \in {"log", "idle"},
         Update(r, op, pay, stamp, next),
         Known(req[r].to, pay, orders[req[r].id].at \union {stamp}),
         stamp = "confirmed" => "paid" \in orders[req[r].id].at,
         stamp = "started" => "confirmed" \in orders[req[r].id].at,
         stamp = "completed" => "started" \in orders[req[r].id].at
  PROVE  OrdersInv'
<1> DEFINE o == req[r].id
           row == [status |-> req[r].to, pay |-> pay, at |-> orders[o].at \union {stamp}]
<1>1. o \in OrderIds /\ row \in Row /\ row.status # "NONE"
  BY DEF OrdersInv, TypeOK, Request, Row, Status, Cancelled
<1>2. orders' = [orders EXCEPT ![o] = row]
  BY DEF Update
<1>3. req' \in [Requests -> Request]
  BY SomeIdType, NoRequestType DEF Update, Done, Proceed, OrdersInv, TypeOK, Request
<1>4. \A s \in Requests : req'[s] = req[s] \/ req'[s].pc \in {"idle", "log"}
  BY DEF Update, Done, Proceed, NoRequest, Local, OrdersInv, TypeOK, Request
<1>5. job' = job /\ job \in [JobRuns -> JobState]
  BY DEF Update, OrdersInv, TypeOK
<1>6. /\ "completed" \in row.at => "started" \in row.at
      /\ "started" \in row.at => "confirmed" \in row.at
      /\ "confirmed" \in row.at => "paid" \in row.at
  BY <1>1 DEF OrdersInv, MilestonesInOrder
<1>7. /\ UNCHANGED <<reviews, age, revealed, shown, faults>>
      /\ trail' = trail /\ trail \in [OrderIds -> SUBSET Status]
  BY DEF Update, OrdersInv, TypeOK
<1>8. /\ revealDue' \in [OrderIds -> BOOLEAN]
      /\ \A p \in OrderIds : revealDue'[p] => revealDue[p]
  BY DEF Update, OrdersInv, TypeOK
<1> QED
  BY <1>1, <1>2, <1>3, <1>4, <1>5, <1>6, <1>7, <1>8, RowStep

(***************************************************************************)
(* The steps of the requests.                                              *)
(***************************************************************************)
LEMMA ReadSteps ==
  ASSUME OrdersInv, NEW r \in Requests, NEW o \in OrderIds,
         \/ MarkPaidRead(r, o) \/ AcceptRead(r, o) \/ RejectRead(r, o)
         \/ CancelRead(r, o) \/ StartRead(r, o) \/ EndRead(r, o)
         \/ PaymentRead(r, o)
  PROVE  OrdersInv'
<1> orders[o].status \in Status \union {"NONE"}
  BY DEF OrdersInv, TypeOK, Row
<1> USE DEF Checked, Local, CopyOf
<1>1. CASE MarkPaidRead(r, o)
  <2>1. NextStatus(orders[o].status) \in Status
    BY <1>1 DEF MarkPaidRead, Fetch, Exists, NextStatus, Status
  <2> QED
    BY <1>1, <2>1, FetchStep DEF MarkPaidRead, MarkPaidAllowed, Op
<1>2. CASE AcceptRead(r, o)
  <2>1. AcceptAllowed(CopyOf(orders[o]))
    BY <1>2 DEF AcceptRead, Fetch, AcceptAllowed
  <2> QED
    BY <1>2, <2>1, FetchStep DEF AcceptRead, AcceptAllowed, Op, Status
<1>3. CASE RejectRead(r, o)
  BY <1>3, FetchStep DEF RejectRead, RejectAllowed, Op, Status, Cancelled
<1>4. CASE CancelRead(r, o)
  BY <1>4, FetchStep DEF CancelRead, CancelAllowed, Op, Status, Cancelled
<1>5. CASE StartRead(r, o)
  <2>1. StartAllowed(CopyOf(orders[o]))
    BY <1>5 DEF StartRead, Fetch, StartAllowed
  <2> QED
    BY <1>5, <2>1, FetchStep DEF StartRead, StartAllowed, Op, Status
<1>6. CASE EndRead(r, o)
  <2>1. EndAllowed(CopyOf(orders[o]))
    BY <1>6 DEF EndRead, Fetch, EndAllowed
  <2> QED
    BY <1>6, <2>1, FetchStep DEF EndRead, EndAllowed, Op, Status
<1>7. CASE PaymentRead(r, o)
  <2>1. NextStatus(orders[o].status) \in Status
    BY <1>7 DEF PaymentRead, Fetch, Exists, NextStatus, Status
  <2> QED
    BY <1>7, <2>1, FetchStep DEF PaymentRead, Op
<1> QED BY <1>1, <1>2, <1>3, <1>4, <1>5, <1>6, <1>7

LEMMA UpdateSteps ==
  ASSUME OrdersInv, NEW r \in Requests,
         \/ MarkPaidUpdate(r) \/ AcceptUpdate(r) \/ RejectUpdate(r)
         \/ CancelUpdate(r) \/ StartUpdate(r) \/ EndUpdate(r)
  PROVE  OrdersInv'
<1> DEFINE q == req[r]
           row == orders[q.id]
<1>1. q \in Request /\ row \in Row
  BY DEF OrdersInv, TypeOK, Request
<1>2. Checked(q)
  BY DEF OrdersInv, CopiesStillTell
<1>3. Known(row.status, row.pay, row.at)
  BY <1>1 DEF OrdersInv, RowsConsistent, Request
<1>4. q.pc = "update" => Known(q.seen.status, q.seen.pay, row.at)
  BY DEF OrdersInv, CopiesStillTell
<1>5. row.pay \in PaymentStatus /\ q.seen.pay \in PaymentStatus
  BY <1>1 DEF Row, Request, Copy
<1> HIDE DEF q, row
<1>6. CASE MarkPaidUpdate(r)
  <2>1. Known(q.to, "PAID", row.at \union {"paid"})
    BY <1>2, <1>4, <1>6 DEF MarkPaidUpdate, Update, Checked, Known, NextStatus, q
  <2> QED
    BY <1>6, <2>1, UpdateStep DEF MarkPaidUpdate, Op, PaymentStatus, Stamp, q, row
<1>7. CASE AcceptUpdate(r)
  <2>1. Known(q.to, row.pay, row.at \union {"confirmed"}) /\ "paid" \in row.at
    BY <1>2, <1>3, <1>4, <1>7 DEF AcceptUpdate, Update, Checked, Known, AcceptAllowed, Cancelled, q
  <2> QED
    BY <1>5, <1>7, <2>1, UpdateStep DEF AcceptUpdate, Op, Stamp, q, row
<1>8. CASE RejectUpdate(r) \/ CancelUpdate(r)
  <2>1. /\ Known(q.to, RefundedIfPaid(q.seen.pay), row.at \union {"cancelled"})
        /\ RefundedIfPaid(q.seen.pay) \in PaymentStatus
    BY <1>2, <1>4, <1>5, <1>8
    DEF RejectUpdate, CancelUpdate, Update, Checked, Known, RefundedIfPaid, Cancelled, PaymentStatus, q
  <2> QED
    BY <1>8, <2>1, UpdateStep DEF RejectUpdate, CancelUpdate, Op, Stamp, q, row
<1>9. CASE StartUpdate(r)
  <2>1. Known(q.to, row.pay, row.at \union {"started"}) /\ "confirmed" \in row.at
    BY <1>2, <1>3, <1>4, <1>9 DEF StartUpdate, Update, Checked, Known, StartAllowed, Cancelled, q
  <2> QED
    BY <1>5, <1>9, <2>1, UpdateStep DEF StartUpdate, Op, Stamp, q, row
<1>10. CASE EndUpdate(r)
  <2>1. Known(q.to, row.pay, row.at \union {"completed"}) /\ "started" \in row.at
    BY <1>2, <1>3, <1>4, <1>10 DEF EndUpdate, Update, Checked, Known, EndAllowed, Cancelled, q
  <2> QED
    BY <1>5, <1>10, <2>1, UpdateStep DEF EndUpdate, Op, Stamp, q, row
<1> QED BY <1>6, <1>7, <1>8, <1>9, <1>10

\* The payment service: a payment fills paid_at and moves the order on, a
\* refund changes the payment status of an order that was paid.
LEMMA PaymentSteps ==
  ASSUME OrdersInv,
         \/ \E r \in Requests : PaymentCommit(r)
         \/ \E o \in OrderIds, pay \in {"REFUNDING", "REFUNDED"} : RefundUpdate(o, pay)
  PROVE  OrdersInv'
<1>0. /\ orders \in [OrderIds -> Row] /\ req \in [Requests -> Request]
      /\ job \in [JobRuns -> JobState] /\ trail \in [OrderIds -> SUBSET Status]
      /\ revealDue \in [OrderIds -> BOOLEAN]
  BY DEF OrdersInv, TypeOK
<1>1. ASSUME NEW r \in Requests, PaymentCommit(r) PROVE OrdersInv'
  <2> DEFINE q == req[r]
             o == q.id
             row == [status |-> q.to, pay |-> "PAID", at |-> orders[o].at \union {"paid"}]
  <2>1. /\ o \in OrderIds /\ q.to \in Status
        /\ row \in Row /\ row.status # "NONE"
    BY <1>0 DEF Request, Row, Status, Cancelled, PaymentStatus, Stamp
  <2>2. Known(q.to, "PAID", row.at)
    BY <1>1 DEF PaymentCommit, OrdersInv, CopiesStillTell, Checked, Known, NextStatus
  <2>3. orders' = [orders EXCEPT ![o] = row] /\ orders[o].at \subseteq row.at
    BY <1>1 DEF PaymentCommit
  <2>4. /\ "completed" \in row.at => "started" \in row.at
        /\ "started" \in row.at => "confirmed" \in row.at
        /\ "confirmed" \in row.at => "paid" \in row.at
    BY <2>1 DEF OrdersInv, MilestonesInOrder
  <2>5. /\ UNCHANGED <<reviews, age, revealed, shown, faults, revealDue, job>>
        /\ trail' \in [OrderIds -> SUBSET Status]
    BY <1>0, <1>1, <2>1 DEF PaymentCommit, clock
  <2>6. /\ req' \in [Requests -> Request]
        /\ \A s \in Requests : req'[s] = req[s] \/ req'[s].pc \in {"idle", "log"}
    BY <1>0, <1>1, SomeIdType, NoRequestType DEF PaymentCommit, Done, NoRequest, Local
  <2> HIDE DEF row, o, q
  <2> QED BY <1>0, <2>1, <2>2, <2>3, <2>4, <2>5, <2>6, RowStep DEF row
<1>2. ASSUME NEW o \in OrderIds, NEW pay \in {"REFUNDING", "REFUNDED"}, RefundUpdate(o, pay)
      PROVE OrdersInv'
  <2> DEFINE row == [status |-> orders[o].status, pay |-> pay, at |-> orders[o].at]
  <2>1. row \in Row /\ orders' = [orders EXCEPT ![o] = row]
    BY <1>0, <1>2 DEF RefundUpdate, Row, PaymentStatus
  <2>2. row.status # "NONE" /\ Known(row.status, row.pay, row.at)
    BY <1>2 DEF RefundUpdate, OrdersInv, RowsConsistent, Exists, Known
  <2>3. /\ "completed" \in row.at => "started" \in row.at
        /\ "started" \in row.at => "confirmed" \in row.at
        /\ "confirmed" \in row.at => "paid" \in row.at
    BY DEF OrdersInv, MilestonesInOrder
  <2>4. UNCHANGED <<trail, reviews, age, revealed, revealDue, shown, req, job, faults>>
    BY <1>2 DEF RefundUpdate, clock
  <2> HIDE DEF row
  <2> QED BY <1>0, <2>1, <2>2, <2>3, <2>4, RowStep DEF row
<1> QED BY <1>1, <1>2

\* Finishing, or failing, frees the slot and leaves nothing to be right about.
LEMMA DoneStep ==
  ASSUME OrdersInv, NEW r \in Requests, Done(r),
         UNCHANGED <<tables, clock, shown, job>>, faults' \in 0..MaxFaults
  PROVE  OrdersInv'
<1>1. NoRequest(SomeId) \in Request /\ Checked(NoRequest(SomeId))
  BY SomeIdType, NoRequestType, NoRequestChecked
<1>2. NoRequest(SomeId).pc = "idle"
  BY DEF NoRequest, Local
<1> QED BY <1>1, <1>2, LocalStep DEF Done

LEMMA ReviewSteps ==
  ASSUME OrdersInv, NEW r \in Requests,
         \/ \E o \in OrderIds, p \in Party : ReviewRead(r, o, p)
         \/ ReviewLookup(r) \/ ReviewInsert(r)
  PROVE  OrdersInv'
<1>0. faults \in 0..MaxFaults
  BY DEF OrdersInv, TypeOK
<1>1. ASSUME NEW o \in OrderIds, NEW p \in Party, ReviewRead(r, o, p) PROVE OrdersInv'
  <2> DEFINE q == Local("check", "review", o, CopyOf(NoRow), "PENDING_PAYMENT", p, FALSE)
  <2>1. q \in Request /\ Checked(q) /\ q.pc = "check" /\ q.id = o
    BY DEF Local, Request, Op, Status, CopyOf, NoRow, Copy, PaymentStatus, Checked
  <2>2. "completed" \in orders[o].at
    BY <1>1 DEF ReviewRead, ReviewAllowed, OrdersInv, RowsConsistent, Known
  <2>3. req' = [req EXCEPT ![r] = q] /\ UNCHANGED <<tables, clock, shown, job, faults>>
    BY <1>1 DEF ReviewRead
  <2> HIDE DEF q
  <2> QED BY <1>0, <2>1, <2>2, <2>3, LocalStep
<1>2. CASE ReviewLookup(r)
  <2>1. CASE Done(r)
    BY <1>0, <1>2, <2>1, DoneStep DEF ReviewLookup
  <2>2. CASE Proceed(r, "review")
    <3> DEFINE q == [req[r] EXCEPT !.pc = "review"]
    <3>1. q \in Request /\ Checked(q) /\ q.pc = "review" /\ q.id = req[r].id
      BY DEF OrdersInv, TypeOK, Request, Checked
    <3>2. "completed" \in orders[req[r].id].at
      BY <1>2 DEF ReviewLookup, OrdersInv, CopiesStillTell
    <3>3. req' = [req EXCEPT ![r] = q] /\ UNCHANGED <<tables, clock, shown, job, faults>>
      BY <1>2, <2>2 DEF ReviewLookup, Proceed
    <3> HIDE DEF q
    <3> QED BY <1>0, <3>1, <3>2, <3>3, LocalStep
  <2> QED BY <1>2, <2>1, <2>2 DEF ReviewLookup
<1>3. CASE ReviewInsert(r)
  <2>1. /\ req[r].id \in OrderIds /\ req[r].party \in Party
        /\ "completed" \in orders[req[r].id].at
    BY <1>3 DEF ReviewInsert, OrdersInv, TypeOK, Request, CopiesStillTell
  <2>2. TypeOK'
    BY <1>3, <2>1, SomeIdType, NoRequestType DEF ReviewInsert, Done, OrdersInv, TypeOK, clock
  <2>3. RowsConsistent' /\ MilestonesInOrder' /\ ListsStillTell'
    BY <1>3 DEF ReviewInsert, OrdersInv, RowsConsistent, MilestonesInOrder, ListsStillTell, Exists, clock
  <2>4. \A o \in OrderIds : reviews[o] \subseteq reviews'[o] /\ reviews'[o] \subseteq Party
    BY <1>3, <2>1 DEF ReviewInsert, OrdersInv, TypeOK
  <2>5. ReviewsAfterCompletion' /\ BlindUntilRevealed'
    BY <1>3, <2>1, <2>4
    DEF ReviewInsert, OrdersInv, TypeOK, ReviewsAfterCompletion, BlindUntilRevealed, clock
  <2>6. CopiesStillTell'
    BY <1>3, <2>4, SomeIdType, NoRequestChecked
    DEF ReviewInsert, Done, NoRequest, Local, OrdersInv, TypeOK, Request, CopiesStillTell, clock
  <2> QED BY <2>2, <2>3, <2>5, <2>6 DEF OrdersInv
<1> QED BY <1>1, <1>2, <1>3

LEMMA OtherRequestSteps ==
  ASSUME OrdersInv, NEW r \in Requests,
         \/ CreateLookup(r) \/ (\E o \in OrderIds : CreateInsert(r, o))
         \/ InsertLog(r)
         \/ (\E o \in OrderIds : DetailRead(r, o)) \/ DetailReviews(r)
         \/ RequestFails(r)
  PROVE  OrdersInv'
<1>0. faults \in 0..MaxFaults /\ req[r] \in Request
  BY DEF OrdersInv, TypeOK
<1>1. CASE CreateLookup(r)
  <2> DEFINE q == [req[r] EXCEPT !.pc = "insert"]
  <2>1. q \in Request /\ Checked(q) /\ q.pc = "insert"
    BY <1>0 DEF Request, Checked
  <2>2. req' = [req EXCEPT ![r] = q] /\ UNCHANGED <<tables, clock, shown, job, faults>>
    BY <1>1 DEF CreateLookup
  <2> HIDE DEF q
  <2> QED BY <1>0, <2>1, <2>2, LocalStep
<1>2. ASSUME NEW o \in OrderIds, CreateInsert(r, o) PROVE OrdersInv'
  <2>1. /\ NewRow \in Row /\ NewRow.status # "NONE" /\ NewRow.at = {}
        /\ Known(NewRow.status, NewRow.pay, NewRow.at)
    BY DEF NewRow, Row, Status, PaymentStatus, Known
  <2>2. orders[o].at \subseteq NewRow.at
    BY <1>2 DEF CreateInsert, OrdersInv, RowsConsistent
  <2>3. req' \in [Requests -> Request]
    BY <1>2, <1>0 DEF CreateInsert, OrdersInv, TypeOK, Request
  <2>4. \A s \in Requests : req'[s] = req[s] \/ req'[s].pc \in {"idle", "log"}
    BY <1>2, <1>0 DEF CreateInsert, OrdersInv, TypeOK, Request
  <2>5. /\ job' = job /\ job \in [JobRuns -> JobState]
        /\ orders' = [orders EXCEPT ![o] = NewRow]
        /\ UNCHANGED <<reviews, age, revealed, shown, faults>>
        /\ trail' = trail /\ trail \in [OrderIds -> SUBSET Status]
        /\ revealDue' = revealDue /\ revealDue \in [OrderIds -> BOOLEAN]
    BY <1>2 DEF CreateInsert, OrdersInv, TypeOK, clock
  <2> QED BY <2>1, <2>2, <2>3, <2>4, <2>5, RowStep
<1>3. CASE InsertLog(r)
  <2>1. TypeOK'
    BY <1>0, <1>3, SomeIdType, NoRequestType
    DEF InsertLog, Done, OrdersInv, TypeOK, Request, clock
  <2>2. RowsConsistent' /\ MilestonesInOrder' /\ ListsStillTell'
    BY <1>3 DEF InsertLog, OrdersInv, RowsConsistent, MilestonesInOrder, ListsStillTell, Exists, clock
  <2>3. ReviewsAfterCompletion' /\ BlindUntilRevealed'
    BY <1>3 DEF InsertLog, OrdersInv, ReviewsAfterCompletion, BlindUntilRevealed, clock
  <2>4. CopiesStillTell'
    BY <1>3, SomeIdType, NoRequestChecked
    DEF InsertLog, Done, NoRequest, Local, OrdersInv, TypeOK, CopiesStillTell, clock
  <2> QED BY <2>1, <2>2, <2>3, <2>4 DEF OrdersInv
<1>4. ASSUME NEW o \in OrderIds, DetailRead(r, o) PROVE OrdersInv'
  <2> DEFINE q == Local("reviews", "detail", o, CopyOf(NoRow), "PENDING_PAYMENT", "TRAVELER",
                        ReviewVisible(o))
  <2>1. ReviewVisible(o) \in BOOLEAN
    BY DEF ReviewVisible
  <2>2. q \in Request /\ Checked(q)
    BY <2>1 DEF Local, Request, Op, Status, CopyOf, NoRow, Copy, PaymentStatus, Party, Checked
  <2>3. q.pc = "reviews" /\ q.id = o /\ (q.visible => reviews[q.id] = Party \/ revealed[q.id])
    BY DEF Local, ReviewVisible, OrdersInv, RowsConsistent
  <2>4. req' = [req EXCEPT ![r] = q] /\ UNCHANGED <<tables, clock, shown, job, faults>>
    BY <1>4 DEF DetailRead
  <2> HIDE DEF q
  <2> QED BY <1>0, <2>2, <2>3, <2>4, LocalStep
<1>5. CASE DetailReviews(r)
  <2>1. /\ req[r].id \in OrderIds
        /\ req[r].visible => reviews[req[r].id] = Party \/ revealed[req[r].id]
    BY <1>0, <1>5 DEF DetailReviews, OrdersInv, CopiesStillTell, Request
  <2>2. TypeOK'
    BY <1>5, <2>1, SomeIdType, NoRequestType
    DEF DetailReviews, Done, OrdersInv, TypeOK, tables, clock
  <2>3. RowsConsistent' /\ MilestonesInOrder' /\ ListsStillTell' /\ ReviewsAfterCompletion'
    BY <1>5 DEF DetailReviews, OrdersInv, RowsConsistent, MilestonesInOrder, ListsStillTell,
                ReviewsAfterCompletion, Exists, tables, clock
  <2>4. BlindUntilRevealed'
    BY <1>5, <2>1 DEF DetailReviews, OrdersInv, TypeOK, BlindUntilRevealed, tables, clock
  <2>5. CopiesStillTell'
    BY <1>5, SomeIdType, NoRequestChecked
    DEF DetailReviews, Done, NoRequest, Local, OrdersInv, TypeOK, CopiesStillTell, tables, clock
  <2> QED BY <2>2, <2>3, <2>4, <2>5 DEF OrdersInv
<1>6. CASE RequestFails(r)
  <2>1. faults' \in 0..MaxFaults
    BY <1>0, <1>6, MaxFaultsAssumption DEF RequestFails
  <2> QED BY <1>6, <2>1, DoneStep DEF RequestFails
<1> QED BY <1>1, <1>2, <1>3, <1>4, <1>5, <1>6

(***************************************************************************)
(* The steps of the job, and time.                                         *)
(***************************************************************************)
LEMMA JobSteps ==
  ASSUME OrdersInv, NEW j \in JobRuns, JobStep(j) \/ JobFails(j)
  PROVE  OrdersInv'
<1>0. /\ faults \in 0..MaxFaults
      /\ job \in [JobRuns -> JobState] /\ req \in [Requests -> Request]
      /\ orders \in [OrderIds -> Row]
  BY DEF OrdersInv, TypeOK
\* Steps that write no table.
<1>1. ASSUME UNCHANGED <<orders, reviews, clock, shown, req>>,
             trail' \in [OrderIds -> SUBSET Status], faults' \in 0..MaxFaults,
             job' \in [JobRuns -> JobState],
             ListsStillTell'
      PROVE  OrdersInv'
  <2>1. TypeOK'
    BY <1>1 DEF OrdersInv, TypeOK, clock
  <2>2. RowsConsistent' /\ MilestonesInOrder' /\ CopiesStillTell'
    BY <1>1 DEF OrdersInv, RowsConsistent, MilestonesInOrder, CopiesStillTell, Exists, clock
  <2>3. ReviewsAfterCompletion' /\ BlindUntilRevealed'
    BY <1>1 DEF OrdersInv, ReviewsAfterCompletion, BlindUntilRevealed, clock
  <2> QED BY <1>1, <2>1, <2>2, <2>3 DEF OrdersInv
<1>2. CASE JobListUnpaid(j)
  <2>1. job' \in [JobRuns -> JobState] /\ ListsStillTell'
    BY <1>0, <1>2, SomeIdType DEF JobListUnpaid, JobState, ListsStillTell, OrdersInv, tables
  <2> QED BY <1>0, <1>1, <1>2, <2>1 DEF JobListUnpaid, OrdersInv, TypeOK, tables
<1>3. CASE JobListUnconfirmed(j)
  <2>1. \A o \in OrderIds : UnconfirmedDue(o) => "paid" \in orders[o].at
    BY DEF UnconfirmedDue, OrdersInv, RowsConsistent, Known
  <2>2. job' \in [JobRuns -> JobState] /\ ListsStillTell'
    BY <1>0, <1>3, <2>1, SomeIdType
    DEF JobListUnconfirmed, JobState, ListsStillTell, OrdersInv, tables
  <2> QED BY <1>0, <1>1, <1>3, <2>2 DEF JobListUnconfirmed, OrdersInv, TypeOK, tables
<1>4. CASE JobLog(j)
  <2>1. job' \in [JobRuns -> JobState] /\ ListsStillTell'
    BY <1>0, <1>4, SomeIdType DEF JobLog, JobState, ListsStillTell, OrdersInv
  <2>2. trail' \in [OrderIds -> SUBSET Status]
    BY <1>0, <1>4 DEF JobLog, JobState, Closed, Status, Cancelled, OrdersInv, TypeOK
  <2> QED BY <1>0, <1>1, <1>4, <2>1, <2>2 DEF JobLog
<1>5. CASE JobFinish(j) \/ JobFails(j)
  <2>1. job' \in [JobRuns -> JobState]
    BY <1>0, <1>5, NoRunType DEF JobFinish, JobFails
  <2>3. ListsStillTell'
    BY <1>0, <1>5 DEF JobFinish, JobFails, NoRun, ListsStillTell, OrdersInv, tables
  <2>2. faults' \in 0..MaxFaults
    BY <1>0, <1>5, MaxFaultsAssumption DEF JobFinish, JobFails
  <2> QED BY <1>0, <1>1, <1>5, <2>1, <2>2, <2>3 DEF JobFinish, JobFails, OrdersInv, TypeOK, tables
<1>6. ASSUME NEW o \in OrderIds, JobCloseUnpaid(j, o) PROVE OrdersInv'
  <2> DEFINE row == [status |-> "CANCELLED_BY_TRAVELER", pay |-> orders[o].pay,
                     at |-> orders[o].at \union {"cancelled"}]
  <2>1. row \in Row /\ orders' = [orders EXCEPT ![o] = row]
    BY <1>0, <1>6 DEF JobCloseUnpaid, Row, Status, Cancelled, Stamp
  <2>2. Known(row.status, row.pay, row.at)
    BY DEF Known, OrdersInv, RowsConsistent
  <2>3. /\ "completed" \in row.at => "started" \in row.at
        /\ "started" \in row.at => "confirmed" \in row.at
        /\ "confirmed" \in row.at => "paid" \in row.at
    BY DEF OrdersInv, MilestonesInOrder
  <2>4. /\ job' \in [JobRuns -> JobState]
        /\ \A i \in JobRuns : i # j => job'[i] = job[i]
        /\ job'[j].pc = "unpaid_log"
    BY <1>0, <1>6 DEF JobCloseUnpaid, JobState
  <2>5. /\ \A i \in JobRuns : \/ job'[i].pc \notin {"unconfirmed", "unconfirmed_log"}
                              \/ /\ job[i].pc \in {"unconfirmed", "unconfirmed_log"}
                                 /\ job'[i].todo \subseteq job[i].todo
        /\ \A r \in Requests : req'[r] = req[r]
        /\ req' \in [Requests -> Request]
    BY <1>0, <1>6, <2>4 DEF JobCloseUnpaid, JobState
  <2>6. /\ row.status # "NONE" /\ orders[o].at \subseteq row.at
        /\ UNCHANGED <<reviews, age, revealed, shown, faults>>
        /\ trail' = trail /\ trail \in [OrderIds -> SUBSET Status]
        /\ revealDue' = revealDue /\ revealDue \in [OrderIds -> BOOLEAN]
    BY <1>6 DEF JobCloseUnpaid, OrdersInv, TypeOK, clock
  <2> HIDE DEF row
  <2> QED BY <2>1, <2>2, <2>3, <2>4, <2>5, <2>6, RowStep
<1>7. ASSUME NEW o \in OrderIds, JobCloseUnconfirmed(j, o) PROVE OrdersInv'
  <2> DEFINE row == [status |-> "CANCELLED_REFUNDED", pay |-> "REFUNDED",
                     at |-> orders[o].at \union {"cancelled"}]
  <2>1. row \in Row /\ orders' = [orders EXCEPT ![o] = row]
    BY <1>0, <1>7 DEF JobCloseUnconfirmed, Row, Status, Cancelled, PaymentStatus, Stamp
  <2>2. "paid" \in orders[o].at
    BY <1>7 DEF JobCloseUnconfirmed, OrdersInv, ListsStillTell
  <2>3. Known(row.status, row.pay, row.at)
    BY <2>2 DEF Known
  <2>4. /\ "completed" \in row.at => "started" \in row.at
        /\ "started" \in row.at => "confirmed" \in row.at
        /\ "confirmed" \in row.at => "paid" \in row.at
    BY DEF OrdersInv, MilestonesInOrder
  <2>5. /\ job' \in [JobRuns -> JobState]
        /\ \A i \in JobRuns : i # j => job'[i] = job[i]
        /\ job[j].pc = "unconfirmed" /\ job'[j].todo \subseteq job[j].todo
    BY <1>0, <1>7 DEF JobCloseUnconfirmed, JobState
  <2>6. /\ \A i \in JobRuns : \/ job'[i].pc \notin {"unconfirmed", "unconfirmed_log"}
                              \/ /\ job[i].pc \in {"unconfirmed", "unconfirmed_log"}
                                 /\ job'[i].todo \subseteq job[i].todo
        /\ \A r \in Requests : req'[r] = req[r]
        /\ req' \in [Requests -> Request]
    BY <1>0, <1>7, <2>5 DEF JobCloseUnconfirmed, JobState
  <2>7. /\ row.status # "NONE" /\ orders[o].at \subseteq row.at
        /\ UNCHANGED <<reviews, age, revealed, shown, faults>>
        /\ trail' = trail /\ trail \in [OrderIds -> SUBSET Status]
        /\ revealDue' = revealDue /\ revealDue \in [OrderIds -> BOOLEAN]
    BY <1>7 DEF JobCloseUnconfirmed, OrdersInv, TypeOK, clock
  <2> HIDE DEF row
  <2> QED BY <2>1, <2>3, <2>4, <2>5, <2>6, <2>7, RowStep
<1>8. \/ JobListUnpaid(j) \/ JobListUnconfirmed(j) \/ JobLog(j) \/ JobFinish(j) \/ JobFails(j)
      \/ \E o \in OrderIds : JobCloseUnpaid(j, o)
      \/ \E o \in OrderIds : JobCloseUnconfirmed(j, o)
  BY DEF JobStep
<1> QED BY <1>2, <1>3, <1>4, <1>5, <1>6, <1>7, <1>8

LEMMA TimeSteps ==
  ASSUME OrdersInv, NEW o \in OrderIds, GetOlder(o) \/ RevealDatePasses(o)
  PROVE  OrdersInv'
<1>0. TypeOK
  BY DEF OrdersInv
<1>1. TypeOK'
  <2>1. CASE GetOlder(o)
    <3>1. age'[o] \in 0..2 /\ age' = [age EXCEPT ![o] = age'[o]]
      BY <1>0, <2>1 DEF TypeOK, GetOlder
    <3>2. age' \in [OrderIds -> 0..2]
      BY <1>0, <3>1 DEF TypeOK
    <3> QED BY <1>0, <2>1, <3>2 DEF TypeOK, GetOlder, tables
  <2>2. CASE RevealDatePasses(o)
    BY <1>0, <2>2 DEF TypeOK, RevealDatePasses, tables
  <2> QED BY <2>1, <2>2
<1>2. RowsConsistent' /\ MilestonesInOrder' /\ ListsStillTell' /\ ReviewsAfterCompletion'
  BY DEF OrdersInv, TypeOK, RowsConsistent, MilestonesInOrder, ListsStillTell, ReviewsAfterCompletion,
         Exists, GetOlder, RevealDatePasses, tables
<1>3. \A p \in OrderIds : revealed[p] => revealed'[p]
  BY DEF OrdersInv, TypeOK, GetOlder, RevealDatePasses
<1>4. CopiesStillTell' /\ BlindUntilRevealed'
  BY <1>3 DEF OrdersInv, TypeOK, Request, CopiesStillTell, BlindUntilRevealed,
              GetOlder, RevealDatePasses, tables
<1> QED BY <1>1, <1>2, <1>4 DEF OrdersInv

LEMMA NextOrdersInv == OrdersInv /\ [Next]_ordersVars => OrdersInv'
<1> SUFFICES ASSUME OrdersInv, [Next]_ordersVars PROVE OrdersInv'
  OBVIOUS
<1>1. ASSUME NEW r \in Requests, Arrive(r) PROVE OrdersInv'
  BY <1>1, ReadSteps, ReviewSteps, OtherRequestSteps DEF Arrive
<1>2. ASSUME NEW r \in Requests, Continue(r) PROVE OrdersInv'
  BY <1>2, UpdateSteps, PaymentSteps, ReviewSteps, OtherRequestSteps DEF Continue
<1>3. ASSUME NEW r \in Requests, RequestFails(r) PROVE OrdersInv'
  BY <1>3, OtherRequestSteps
<1>4. ASSUME NEW j \in JobRuns, JobStep(j) \/ JobFails(j) PROVE OrdersInv'
  BY <1>4, JobSteps
<1>5. ASSUME NEW o \in OrderIds, GetOlder(o) \/ RevealDatePasses(o) PROVE OrdersInv'
  BY <1>5, TimeSteps
<1>6. CASE UNCHANGED ordersVars
  BY <1>6 DEF ordersVars, OrdersInv, TypeOK, RowsConsistent, MilestonesInOrder, CopiesStillTell,
              ListsStillTell, ReviewsAfterCompletion, BlindUntilRevealed, Exists
<1>7. ASSUME NEW o \in OrderIds, NEW pay \in {"REFUNDING", "REFUNDED"}, RefundUpdate(o, pay)
      PROVE OrdersInv'
  BY <1>7, PaymentSteps
<1> QED BY <1>1, <1>2, <1>3, <1>4, <1>5, <1>6, <1>7 DEF Next

(***************************************************************************)
(* The theorems.                                                           *)
(***************************************************************************)
\* The inductive invariant holds in every reachable state.
THEOREM OrdersInvariant == Spec => []OrdersInv
BY InitOrdersInv, NextOrdersInv, PTL DEF Spec

\* Every column, snapshot and counter stays in its domain.
THEOREM TypeCorrect == Spec => []TypeOK
<1>1. OrdersInv => TypeOK
  BY DEF OrdersInv
<1> QED BY <1>1, OrdersInvariant, PTL

\* No order is confirmed, served or completed, and no money held or given
\* back, unless the order was paid for, however requests and the job race.
THEOREM PaymentFirst == Spec => []NoServiceWithoutPayment
<1>1. OrdersInv => NoServiceWithoutPayment
  BY DEF OrdersInv, RowsConsistent, Known, NoServiceWithoutPayment
<1> QED BY <1>1, OrdersInvariant, PTL

\* The milestones of a service are passed in order.
THEOREM OrderedMilestones == Spec => []MilestonesInOrder
<1>1. OrdersInv => MilestonesInOrder
  BY DEF OrdersInv
<1> QED BY <1>1, OrdersInvariant, PTL

\* Reviews belong to completed services.
THEOREM HonestReviews == Spec => []ReviewsAfterCompletion
<1>1. OrdersInv => ReviewsAfterCompletion
  BY DEF OrdersInv
<1> QED BY <1>1, OrdersInvariant, PTL

\* Reviews stay hidden until both are in or the reveal date has passed,
\* although visibility is decided before the reviews are read.
THEOREM HiddenReviews == Spec => []BlindUntilRevealed
<1>1. OrdersInv => BlindUntilRevealed
  BY DEF OrdersInv
<1> QED BY <1>1, OrdersInvariant, PTL

(***************************************************************************)
(* The tables implement ServiceMilestones.                                 *)
(***************************************************************************)
\* Replacing a row by one that has one more column filled, in order, passes
\* that milestone; a cancellation passes none.
LEMMA RowStepKeepsPromise ==
  ASSUME OrdersInv, NEW o \in OrderIds, NEW row, NEW stamp \in Stamp,
         orders' = [orders EXCEPT ![o] = row],
         row.at = orders[o].at \union {stamp},
         "completed" \in row.at => "started" \in row.at,
         "started" \in row.at => "confirmed" \in row.at,
         "confirmed" \in row.at => "paid" \in row.at,
         UNCHANGED <<reviews, revealed, shown>>
  PROVE  [Promise!Next]_(Promise!vars)
<1> DEFINE reached == [p \in OrderIds |-> orders[p].at \ {"cancelled"}]
           next == [p \in OrderIds |-> orders'[p].at \ {"cancelled"}]
<1>1. \A p \in OrderIds : orders'[p].at = IF p = o THEN orders[o].at \union {stamp} ELSE orders[p].at
  BY DEF OrdersInv, TypeOK
<1>2. CASE stamp = "cancelled"
  <2>1. next = reached
    BY <1>1, <1>2
  <2> QED BY <2>1 DEF Promise!vars
<1>3. CASE stamp # "cancelled"
  <2>1. next = [reached EXCEPT ![o] = @ \union {stamp}]
    <3>1. \A p \in OrderIds : next[p] = IF p = o THEN reached[o] \union {stamp} ELSE reached[p]
      <4>1. (orders[o].at \union {stamp}) \ {"cancelled"} = (orders[o].at \ {"cancelled"}) \union {stamp}
        BY <1>3
      <4> QED BY <1>1, <4>1
    <3> HIDE DEF next
    <3>2. next = [p \in OrderIds |-> next[p]]
      BY DEF next
    <3> QED BY <3>1, <3>2
  <2>2. stamp \in Promise!Milestone /\ Promise!MayPass(stamp, reached[o])
    BY <1>3 DEF Stamp, Promise!Milestone, Promise!MayPass
  <2>3. Promise!Pass(o, stamp)
    BY <2>1, <2>2 DEF Promise!Pass
  <2> QED BY <2>2, <2>3 DEF Promise!Next
<1> QED BY <1>2, <1>3

\* A step that leaves the columns, the reviews and what was shown alone.
LEMMA SilentStepKeepsPromise ==
  ASSUME UNCHANGED <<orders, reviews, revealed, shown>>
  PROVE  [Promise!Next]_(Promise!vars)
BY DEF Promise!vars

LEMMA RequestKeepsPromise ==
  ASSUME OrdersInv, OrdersInv', NEW r \in Requests, Arrive(r) \/ Continue(r) \/ RequestFails(r)
  PROVE  [Promise!Next]_(Promise!vars)
<1> DEFINE q == req[r]
<1>0. q \in Request /\ q.id \in OrderIds /\ q.party \in Party
  BY DEF OrdersInv, TypeOK, Request
<1>1. CASE Arrive(r) \/ InsertLog(r) \/ ReviewLookup(r) \/ RequestFails(r)
  BY <1>1, SilentStepKeepsPromise
  DEF Arrive, CreateLookup, PaymentRead, MarkPaidRead, AcceptRead, RejectRead, CancelRead, StartRead, EndRead,
      Fetch, ReviewRead, DetailRead, InsertLog, ReviewLookup, RequestFails, tables, clock
<1>2. ASSUME NEW o \in OrderIds, CreateInsert(r, o) PROVE [Promise!Next]_(Promise!vars)
  <2>1. orders[o].at = {} /\ orders' = [orders EXCEPT ![o] = NewRow]
    BY <1>2 DEF CreateInsert, OrdersInv, RowsConsistent
  <2>2. \A p \in OrderIds : orders'[p].at = orders[p].at
    BY <2>1 DEF OrdersInv, TypeOK, NewRow
  <2> QED BY <1>2, <2>2 DEF Promise!vars, CreateInsert, clock
<1>3. ASSUME NEW op, NEW pay, NEW stamp \in Stamp, NEW next, Update(r, op, pay, stamp, next)
      PROVE [Promise!Next]_(Promise!vars)
  <2> DEFINE row == [status |-> q.to, pay |-> pay, at |-> orders[q.id].at \union {stamp}]
  <2>1. orders' = [orders EXCEPT ![q.id] = row] /\ UNCHANGED <<reviews, revealed, shown>>
    BY <1>3 DEF Update
  <2>2. orders'[q.id] = row
    BY <1>0, <2>1 DEF OrdersInv, TypeOK
  <2>3. /\ "completed" \in row.at => "started" \in row.at
        /\ "started" \in row.at => "confirmed" \in row.at
        /\ "confirmed" \in row.at => "paid" \in row.at
    BY <1>0, <2>2 DEF OrdersInv, MilestonesInOrder
  <2> QED BY <1>0, <2>1, <2>3, RowStepKeepsPromise
<1>4. CASE \/ MarkPaidUpdate(r) \/ AcceptUpdate(r) \/ RejectUpdate(r)
           \/ CancelUpdate(r) \/ StartUpdate(r) \/ EndUpdate(r)
  BY <1>3, <1>4 DEF MarkPaidUpdate, AcceptUpdate, RejectUpdate, CancelUpdate, StartUpdate,
                    EndUpdate, Stamp
<1>7. CASE PaymentCommit(r)
  <2> DEFINE row == [status |-> q.to, pay |-> "PAID", at |-> orders[q.id].at \union {"paid"}]
  <2>1. orders' = [orders EXCEPT ![q.id] = row] /\ UNCHANGED <<reviews, revealed, shown>>
    BY <1>7 DEF PaymentCommit, clock
  <2>2. orders'[q.id] = row
    BY <1>0, <2>1 DEF OrdersInv, TypeOK
  <2>3. /\ "completed" \in row.at => "started" \in row.at
        /\ "started" \in row.at => "confirmed" \in row.at
        /\ "confirmed" \in row.at => "paid" \in row.at
    BY <1>0, <2>2 DEF OrdersInv, MilestonesInOrder
  <2> QED BY <1>0, <2>1, <2>3, RowStepKeepsPromise DEF Stamp
<1>5. CASE ReviewInsert(r)
  <2>1. "completed" \in orders[q.id].at
    BY <1>5 DEF ReviewInsert, OrdersInv, CopiesStillTell
  <2>2. /\ reviews' = [reviews EXCEPT ![q.id] = @ \union {q.party}]
        /\ UNCHANGED <<orders, revealed, shown>>
    BY <1>5 DEF ReviewInsert, clock
  <2>3. CASE q.party \in reviews[q.id]
    <3>1. reviews' = reviews
      BY <1>0, <2>2, <2>3 DEF OrdersInv, TypeOK
    <3> QED BY <2>2, <3>1, SilentStepKeepsPromise
  <2>4. CASE q.party \notin reviews[q.id]
    <3>1. Promise!Review(q.id, q.party)
      BY <1>0, <2>1, <2>2, <2>4 DEF Promise!Review
    <3> QED BY <1>0, <3>1 DEF Promise!Next, Promise!Party, Party
  <2> QED BY <2>3, <2>4
<1>6. CASE DetailReviews(r)
  <2>1. UNCHANGED <<orders, reviews, revealed>>
    BY <1>6 DEF DetailReviews, tables, clock
  <2>2. CASE q.visible
    <3>1. reviews[q.id] = Party \/ revealed[q.id]
      BY <1>6, <2>2 DEF DetailReviews, OrdersInv, CopiesStillTell
    <3>2. Promise!Show(q.id)
      BY <1>0, <1>6, <2>1, <2>2, <3>1 DEF DetailReviews, Promise!Show, Promise!Party, Party
    <3> QED BY <1>0, <3>2 DEF Promise!Next
  <2>3. CASE ~q.visible
    <3>1. shown' = shown
      BY <1>0, <1>6, <2>3 DEF DetailReviews, OrdersInv, TypeOK
    <3> QED BY <2>1, <3>1, SilentStepKeepsPromise
  <2> QED BY <2>2, <2>3
<1> QED BY <1>1, <1>2, <1>4, <1>5, <1>6, <1>7 DEF Continue

LEMMA JobKeepsPromise ==
  ASSUME OrdersInv, OrdersInv', NEW j \in JobRuns, JobStep(j) \/ JobFails(j)
  PROVE  [Promise!Next]_(Promise!vars)
<1>1. CASE \/ JobListUnpaid(j) \/ JobListUnconfirmed(j) \/ JobLog(j)
           \/ JobFinish(j) \/ JobFails(j)
  BY <1>1, SilentStepKeepsPromise
  DEF JobListUnpaid, JobListUnconfirmed, JobLog, JobFinish, JobFails, tables, clock
<1>2. ASSUME NEW o \in OrderIds, JobCloseUnpaid(j, o) \/ JobCloseUnconfirmed(j, o)
      PROVE [Promise!Next]_(Promise!vars)
  <2> DEFINE row == orders'[o]
  <2>1. /\ orders' = [orders EXCEPT ![o] = row]
        /\ row.at = orders[o].at \union {"cancelled"}
        /\ UNCHANGED <<reviews, revealed, shown>>
    BY <1>2 DEF JobCloseUnpaid, JobCloseUnconfirmed, OrdersInv, TypeOK, clock
  <2>2. /\ "completed" \in row.at => "started" \in row.at
        /\ "started" \in row.at => "confirmed" \in row.at
        /\ "confirmed" \in row.at => "paid" \in row.at
    BY DEF OrdersInv, MilestonesInOrder
  <2>3. "cancelled" \in Stamp
    BY DEF Stamp
  <2> HIDE DEF row
  <2> QED BY <2>1, <2>2, <2>3, RowStepKeepsPromise
<1> QED BY <1>1, <1>2 DEF JobStep

LEMMA NextKeepsPromise ==
  OrdersInv /\ OrdersInv' /\ [Next]_ordersVars => [Promise!Next]_(Promise!vars)
<1> SUFFICES ASSUME OrdersInv, OrdersInv', [Next]_ordersVars PROVE [Promise!Next]_(Promise!vars)
  OBVIOUS
<1>1. ASSUME NEW o \in OrderIds, GetOlder(o) PROVE [Promise!Next]_(Promise!vars)
  BY <1>1, SilentStepKeepsPromise DEF GetOlder, tables
<1>2. ASSUME NEW o \in OrderIds, RevealDatePasses(o) PROVE [Promise!Next]_(Promise!vars)
  <2>1. Promise!RevealDatePasses(o)
    BY <1>2 DEF RevealDatePasses, Promise!RevealDatePasses, tables
  <2> QED BY <2>1 DEF Promise!Next
<1>3. CASE UNCHANGED ordersVars
  BY <1>3, SilentStepKeepsPromise DEF ordersVars
<1>4. ASSUME NEW o \in OrderIds, NEW pay, RefundUpdate(o, pay) PROVE [Promise!Next]_(Promise!vars)
  <2>1. \A p \in OrderIds : orders'[p].at = orders[p].at
    BY <1>4 DEF RefundUpdate, OrdersInv, TypeOK
  <2> QED BY <1>4, <2>1 DEF RefundUpdate, Promise!vars, clock
<1> QED BY <1>1, <1>2, <1>3, <1>4, RequestKeepsPromise, JobKeepsPromise DEF Next

\* The order service implements ServiceMilestones: whatever order the
\* statements of concurrent requests and of the job reach the database in,
\* the columns *_at, the reviews and what clients are shown only change the
\* way the abstract specification allows.
THEOREM PromiseKept == Spec => KeepsPromise
<1>1. Init => Promise!Init
  BY DEF Init, NoRow, Promise!Init
<1> QED BY <1>1, OrdersInvariant, NextKeepsPromise, PTL DEF Spec, KeepsPromise, Promise!Spec

(***************************************************************************)
(* The log explains the rows while no statement fails.  What is logged or  *)
(* about to be only grows, so what explained a status when a handler read  *)
(* it explains it when the handler writes it back.                         *)
(***************************************************************************)
Explained(o) == trail[o] \union Unlogged(o)

Settled(o) ==
  /\ Exists(o) => orders[o].status \in Explained(o)
  /\ "confirmed" \in orders[o].at => "CONFIRMED" \in Explained(o)
  /\ "started" \in orders[o].at => "IN_SERVICE" \in Explained(o)
  /\ "completed" \in orders[o].at => "COMPLETED" \in Explained(o)

\* A request that does not change the status writes one that is explained.
HasReason(q) ==
  /\ q.pc = "update" => q.to # q.seen.status \/ q.to \in Explained(q.id)
  /\ q.pc \in {"idle", "insert"} => q.to = "PENDING_PAYMENT"

AuditInv ==
  faults = 0 => (\A o \in OrderIds : Settled(o)) /\ (\A r \in Requests : HasReason(req[r]))

LEMMA ExplainedBy ==
  ASSUME NEW o, NEW x
  PROVE  x \in Explained(o) <=>
           \/ x \in trail[o]
           \/ \E r \in Requests : req[r].pc = "log" /\ req[r].id = o /\ req[r].to = x
           \/ \E j \in JobRuns : /\ job[j].pc \in {"unpaid_log", "unconfirmed_log"}
                                 /\ job[j].at = o /\ Closed(job[j].pc) = x
BY DEF Explained, Unlogged

LEMMA ExplainedByNext ==
  ASSUME NEW o, NEW x
  PROVE  x \in Explained(o)' <=>
           \/ x \in trail'[o]
           \/ \E r \in Requests : req'[r].pc = "log" /\ req'[r].id = o /\ req'[r].to = x
           \/ \E j \in JobRuns : /\ job'[j].pc \in {"unpaid_log", "unconfirmed_log"}
                                 /\ job'[j].at = o /\ Closed(job'[j].pc) = x
BY DEF Explained, Unlogged, Closed

\* A request that leaves the log, and a run of the job, have logged.
LEMMA RequestExplains ==
  ASSUME NEW r \in Requests, UNCHANGED job,
         \A x \in Requests \ {r} : req'[x] = req[x],
         \A o \in OrderIds : trail[o] \subseteq trail'[o],
         req[r].pc = "log" => req[r].to \in trail'[req[r].id],
         NEW o \in OrderIds
  PROVE  Explained(o) \subseteq Explained(o)'
BY ExplainedBy, ExplainedByNext

LEMMA JobExplains ==
  ASSUME NEW j \in JobRuns, UNCHANGED req,
         \A x \in JobRuns \ {j} : job'[x] = job[x],
         \A o \in OrderIds : trail[o] \subseteq trail'[o],
         job[j].pc \in {"unpaid_log", "unconfirmed_log"} => Closed(job[j].pc) \in trail'[job[j].at],
         NEW o \in OrderIds
  PROVE  Explained(o) \subseteq Explained(o)'
BY ExplainedBy, ExplainedByNext

\* What a step has to show.
LEMMA AuditKept ==
  ASSUME AuditInv, faults = 0,
         \A o \in OrderIds : Explained(o) \subseteq Explained(o)',
         \A o \in OrderIds :
           (orders'[o].status = orders[o].status /\ orders'[o].at = orders[o].at) \/ Settled(o)',
         req \in [Requests -> Request],
         \A r \in Requests : req'[r] = req[r] \/ HasReason(req[r])'
  PROVE  AuditInv'
<1>1. \A o \in OrderIds : Settled(o)'
  BY DEF AuditInv, Settled, Exists
<1>2. ASSUME NEW r \in Requests
      PROVE  HasReason(req[r])'
  <2>1. HasReason(req[r]) /\ req[r].id \in OrderIds
    BY DEF AuditInv, Request
  <2>2. CASE req'[r] = req[r]
    <3>1. PICK q : q = req[r]
      OBVIOUS
    <3>2. q.to \in Explained(q.id) => q.to \in Explained(q.id)'
      BY <2>1, <3>1
    <3>3. HasReason(q)'
      BY <2>1, <3>1, <3>2 DEF HasReason
    <3> QED
      BY <2>2, <3>1, <3>3
  <2> QED
    BY <2>2
<1> QED
  BY <1>1, <1>2 DEF AuditInv

\* A row that gets a status which is explained, and its stamp, is settled.
LEMMA RowSettles ==
  ASSUME OrdersInv, AuditInv, faults = 0, NEW o \in OrderIds, NEW row, NEW stamp,
         \A p \in OrderIds : Explained(p) \subseteq Explained(p)',
         orders' = [orders EXCEPT ![o] = row], row.at = orders[o].at \union {stamp},
         row.status \in Explained(o)',
         stamp = "confirmed" => row.status = "CONFIRMED",
         stamp = "started" => row.status = "IN_SERVICE",
         stamp = "completed" => row.status = "COMPLETED"
  PROVE  \A p \in OrderIds :
           (orders'[p].status = orders[p].status /\ orders'[p].at = orders[p].at) \/ Settled(p)'
<1>1. \A p \in OrderIds : orders'[p] = IF p = o THEN row ELSE orders[p]
  BY DEF OrdersInv, TypeOK
<1>2. Settled(o)
  BY DEF AuditInv
<1>3. Settled(o)'
  BY <1>1, <1>2 DEF Settled
<1> QED
  BY <1>1, <1>3

\* A request that reads, or ends, or writes no order.
LEMMA QuietAudit ==
  ASSUME OrdersInv, AuditInv, faults = 0, NEW r \in Requests, NEW q,
         req' = [req EXCEPT ![r] = q], HasReason(q),
         UNCHANGED <<orders, trail, job>>, req[r].pc # "log"
  PROVE  AuditInv'
<1>0. req \in [Requests -> Request]
  BY DEF OrdersInv, TypeOK
<1>1. \A x \in Requests : req'[x] = IF x = r THEN q ELSE req[x]
  BY <1>0
<1>2. \A o \in OrderIds : Explained(o) \subseteq Explained(o)'
  BY <1>1, RequestExplains
<1>3. HasReason(q)'
  <2>1. q.to \in Explained(q.id) => q.to \in Explained(q.id)'
    BY <1>1, ExplainedBy, ExplainedByNext
  <2> QED
    BY <2>1 DEF HasReason
<1>4. \A x \in Requests : req'[x] = req[x] \/ HasReason(req[x])'
  <2>1. ASSUME NEW x \in Requests, req'[x] = q PROVE HasReason(req[x])'
    <3>1. PICK y : y = q
      OBVIOUS
    <3> QED
      BY <1>3, <2>1, <3>1
  <2> QED
    BY <1>1, <2>1
<1> QED
  BY <1>0, <1>2, <1>4, AuditKept

\* NoRequest gives no reason.
LEMMA NoRequestReason == \A o : HasReason(NoRequest(o))
BY DEF NoRequest, Local, HasReason

LEMMA ReadAudit ==
  ASSUME OrdersInv, AuditInv, faults = 0, NEW r \in Requests, Arrive(r)
  PROVE  AuditInv'
<1>0. req \in [Requests -> Request] /\ \A o \in OrderIds : Settled(o)
  BY DEF OrdersInv, TypeOK, AuditInv
<1>1. ASSUME NEW op, NEW o \in OrderIds, NEW allowed, NEW to, Fetch(r, op, o, allowed, to)
      PROVE  AuditInv'
  <2>1. PICK q : q = Local("update", op, o, CopyOf(orders[o]), to, "TRAVELER", FALSE)
    OBVIOUS
  <2>2. q.pc = "update" /\ q.to = to /\ q.seen.status = orders[o].status /\ q.id = o
    BY <2>1 DEF Local, CopyOf
  <2>3. orders[o].status \in Explained(o)
    BY <1>0, <1>1 DEF Fetch, Settled
  <2>4. HasReason(q)
    BY <2>2, <2>3 DEF HasReason
  <2> QED
    BY <1>1, <2>1, <2>4, QuietAudit DEF Fetch, tables, Idle
<1>2. ASSUME NEW o \in OrderIds, NEW p \in Party, ReviewRead(r, o, p)
      PROVE  AuditInv'
  <2>1. PICK q : q = Local("check", "review", o, CopyOf(NoRow), "PENDING_PAYMENT", p, FALSE)
    OBVIOUS
  <2>2. HasReason(q)
    BY <2>1 DEF Local, HasReason
  <2> QED
    BY <1>2, <2>1, <2>2, QuietAudit DEF ReviewRead, tables, Idle
<1>3. ASSUME NEW o \in OrderIds, DetailRead(r, o)
      PROVE  AuditInv'
  <2>1. PICK q : q = Local("reviews", "detail", o, CopyOf(NoRow), "PENDING_PAYMENT", "TRAVELER", ReviewVisible(o))
    OBVIOUS
  <2>2. HasReason(q)
    BY <2>1 DEF Local, HasReason
  <2> QED
    BY <1>3, <2>1, <2>2, QuietAudit DEF DetailRead, tables, Idle
<1>4. CASE CreateLookup(r)
  <2>1. PICK q : q = [req[r] EXCEPT !.pc = "insert"]
    OBVIOUS
  <2>2. req[r] \in Request /\ HasReason(req[r]) /\ req[r].pc = "idle"
    BY <1>0, <1>4 DEF AuditInv, CreateLookup, Idle
  <2>3. q.pc = "insert" /\ q.to = req[r].to
    BY <2>1, <2>2 DEF Request
  <2>4. HasReason(q)
    BY <2>2, <2>3 DEF HasReason
  <2>5. req' = [req EXCEPT ![r] = q]
    BY <1>4, <2>1 DEF CreateLookup
  <2> QED
    BY <1>4, <2>2, <2>4, <2>5, QuietAudit DEF CreateLookup, tables
<1> QED
  BY <1>1, <1>2, <1>3, <1>4
     DEF Arrive, MarkPaidRead, AcceptRead, RejectRead, CancelRead, StartRead, EndRead, PaymentRead

LEMMA UpdateAudit ==
  ASSUME OrdersInv, AuditInv, faults = 0, NEW r \in Requests, NEW op, NEW pay, NEW stamp,
         NEW next \in {"idle", "log"}, Update(r, op, pay, stamp, next),
         next = "idle" => req[r].to = req[r].seen.status,
         stamp = "confirmed" => req[r].to = "CONFIRMED",
         stamp = "started" => req[r].to = "IN_SERVICE",
         stamp = "completed" => req[r].to = "COMPLETED"
  PROVE  AuditInv'
<1>0. req \in [Requests -> Request] /\ orders \in [OrderIds -> Row]
  BY DEF OrdersInv, TypeOK
<1>1. PICK q : q = req[r]
  OBVIOUS
<1>2. q \in Request /\ q.id \in OrderIds /\ q.pc = "update" /\ HasReason(q)
  BY <1>0, <1>1 DEF Update, AuditInv, Request
<1>3. PICK u : u = IF next = "idle" THEN NoRequest(SomeId) ELSE [q EXCEPT !.pc = "log"]
  OBVIOUS
<1>4. req' = [req EXCEPT ![r] = u]
  BY <1>1, <1>3 DEF Update, Done, Proceed
<1>5. \A x \in Requests : req'[x] = IF x = r THEN u ELSE req[x]
  BY <1>0, <1>4
<1>6. UNCHANGED <<trail, job>>
  BY DEF Update
<1>7. \A o \in OrderIds : Explained(o) \subseteq Explained(o)'
  BY <1>1, <1>2, <1>5, <1>6, RequestExplains
<1>8. q.to \in Explained(q.id)'
  <2>1. CASE next = "idle"
    BY <1>1, <1>2, <1>7, <2>1 DEF HasReason
  <2>2. CASE next = "log"
    <3>1. u.pc = "log" /\ u.id = q.id /\ u.to = q.to
      BY <1>2, <1>3, <2>2 DEF Request
    <3> QED
      BY <1>5, <3>1, ExplainedByNext
  <2> QED
    BY <2>1, <2>2
<1>9. PICK row : row = [status |-> q.to, pay |-> pay, at |-> orders[q.id].at \union {stamp}]
  OBVIOUS
<1>10. /\ orders' = [orders EXCEPT ![q.id] = row] /\ row.status = q.to
       /\ row.at = orders[q.id].at \union {stamp}
  BY <1>1, <1>9 DEF Update
<1>11. \A p \in OrderIds :
         (orders'[p].status = orders[p].status /\ orders'[p].at = orders[p].at) \/ Settled(p)'
  BY <1>1, <1>2, <1>7, <1>8, <1>10, RowSettles
<1>12. HasReason(u)'
  BY <1>2, <1>3, NoRequestReason DEF HasReason, Request, NoRequest, Local
<1>13. \A x \in Requests : req'[x] = req[x] \/ HasReason(req[x])'
  <2>1. ASSUME NEW x \in Requests, req'[x] = u PROVE HasReason(req[x])'
    BY <1>12, <2>1
  <2> QED
    BY <1>5, <2>1
<1> QED
  BY <1>0, <1>7, <1>11, <1>13, AuditKept

LEMMA ContinueAudit ==
  ASSUME OrdersInv, AuditInv, faults = 0, NEW r \in Requests, Continue(r)
  PROVE  AuditInv'
<1>0. req \in [Requests -> Request] /\ orders \in [OrderIds -> Row] /\ trail \in [OrderIds -> SUBSET Status]
  BY DEF OrdersInv, TypeOK
<1>1. PICK q : q = req[r]
  OBVIOUS
<1>2. q \in Request /\ q.id \in OrderIds /\ HasReason(q) /\ Checked(q)
  BY <1>0, <1>1 DEF AuditInv, Request, OrdersInv, CopiesStillTell
<1>3. CASE MarkPaidUpdate(r)
  BY <1>3, UpdateAudit DEF MarkPaidUpdate
<1>4. CASE AcceptUpdate(r) \/ RejectUpdate(r) \/ CancelUpdate(r) \/ StartUpdate(r) \/ EndUpdate(r)
  <2>1. CASE AcceptUpdate(r)
    <3>1. q.op = "accept" /\ q.pc = "update"
      BY <1>1, <2>1 DEF AcceptUpdate, Update
    <3>2. q.to = "CONFIRMED"
      BY <1>2, <3>1 DEF Checked
    <3> QED
      BY <1>1, <2>1, <3>2, UpdateAudit DEF AcceptUpdate
  <2>2. CASE RejectUpdate(r) \/ CancelUpdate(r)
    BY <2>2, UpdateAudit DEF RejectUpdate, CancelUpdate
  <2>3. CASE StartUpdate(r)
    <3>1. q.op = "start" /\ q.pc = "update"
      BY <1>1, <2>3 DEF StartUpdate, Update
    <3>2. q.to = "IN_SERVICE"
      BY <1>2, <3>1 DEF Checked
    <3> QED
      BY <1>1, <2>3, <3>2, UpdateAudit DEF StartUpdate
  <2>4. CASE EndUpdate(r)
    <3>1. q.op = "end" /\ q.pc = "update"
      BY <1>1, <2>4 DEF EndUpdate, Update
    <3>2. q.to = "COMPLETED"
      BY <1>2, <3>1 DEF Checked
    <3> QED
      BY <1>1, <2>4, <3>2, UpdateAudit DEF EndUpdate
  <2> QED
    BY <1>4, <2>1, <2>2, <2>3, <2>4
<1>5. CASE PaymentCommit(r)
  <2>1. PICK u : u = NoRequest(SomeId)
    OBVIOUS
  <2>2. req' = [req EXCEPT ![r] = u] /\ UNCHANGED job /\ q.pc = "update"
    BY <1>1, <1>5, <2>1 DEF PaymentCommit, Done
  <2>3. \A x \in Requests : req'[x] = IF x = r THEN u ELSE req[x]
    BY <1>0, <2>2
  <2>4. \A o \in OrderIds : trail[o] \subseteq trail'[o]
    BY <1>0, <1>1, <1>2, <1>5 DEF PaymentCommit
  <2>5. \A o \in OrderIds : Explained(o) \subseteq Explained(o)'
    BY <1>1, <2>2, <2>3, <2>4, RequestExplains
  <2>6. q.to \in Explained(q.id)'
    <3>1. CASE q.to = q.seen.status
      BY <1>2, <2>2, <2>5, <3>1 DEF HasReason
    <3>2. CASE q.to # q.seen.status
      <4>1. q.to \in trail'[q.id]
        BY <1>0, <1>1, <1>2, <1>5, <3>2 DEF PaymentCommit
      <4> QED
        BY <4>1, ExplainedByNext
    <3> QED
      BY <3>1, <3>2
  <2>7. PICK row : row = [status |-> q.to, pay |-> "PAID", at |-> orders[q.id].at \union {"paid"}]
    OBVIOUS
  <2>8. /\ orders' = [orders EXCEPT ![q.id] = row] /\ row.status = q.to
        /\ row.at = orders[q.id].at \union {"paid"}
    BY <1>1, <1>5, <2>7 DEF PaymentCommit
  <2>9. \A p \in OrderIds :
          (orders'[p].status = orders[p].status /\ orders'[p].at = orders[p].at) \/ Settled(p)'
    BY <1>2, <2>5, <2>6, <2>8, RowSettles
  <2>10. HasReason(u)'
    BY <2>1 DEF NoRequest, Local, HasReason
  <2>11. \A x \in Requests : req'[x] = req[x] \/ HasReason(req[x])'
    <3>1. ASSUME NEW x \in Requests, req'[x] = u PROVE HasReason(req[x])'
      BY <2>10, <3>1
    <3> QED
      BY <2>3, <3>1
  <2> QED
    BY <1>0, <2>5, <2>9, <2>11, AuditKept
<1>6. CASE InsertLog(r)
  <2>1. PICK u : u = NoRequest(SomeId)
    OBVIOUS
  <2>2. req' = [req EXCEPT ![r] = u] /\ UNCHANGED <<job, orders>> /\ q.pc = "log"
    BY <1>1, <1>6, <2>1 DEF InsertLog, Done
  <2>3. \A x \in Requests : req'[x] = IF x = r THEN u ELSE req[x]
    BY <1>0, <2>2
  <2>4. (\A o \in OrderIds : trail[o] \subseteq trail'[o]) /\ q.to \in trail'[q.id]
    BY <1>0, <1>1, <1>2, <1>6 DEF InsertLog
  <2>5. \A o \in OrderIds : Explained(o) \subseteq Explained(o)'
    BY <1>1, <2>2, <2>3, <2>4, RequestExplains
  <2>6. HasReason(u)'
    BY <2>1 DEF NoRequest, Local, HasReason
  <2>7. \A x \in Requests : req'[x] = req[x] \/ HasReason(req[x])'
    <3>1. ASSUME NEW x \in Requests, req'[x] = u PROVE HasReason(req[x])'
      BY <2>6, <3>1
    <3> QED
      BY <2>3, <3>1
  <2> QED
    BY <1>0, <2>2, <2>5, <2>7, AuditKept
<1>7. ASSUME NEW o \in OrderIds, CreateInsert(r, o)
      PROVE  AuditInv'
  <2>1. PICK u : u = [[req[r] EXCEPT !.pc = "log"] EXCEPT !.id = o]
    OBVIOUS
  <2>2. req' = [req EXCEPT ![r] = u] /\ UNCHANGED <<job, trail>> /\ q.pc = "insert"
    BY <1>0, <1>1, <1>7, <2>1 DEF CreateInsert
  <2>3. u.pc = "log" /\ u.id = o /\ u.to = "PENDING_PAYMENT"
    BY <1>1, <1>2, <2>1, <2>2 DEF Request, HasReason
  <2>4. \A x \in Requests : req'[x] = IF x = r THEN u ELSE req[x]
    BY <1>0, <2>2
  <2>5. \A p \in OrderIds : Explained(p) \subseteq Explained(p)'
    BY <1>1, <2>2, <2>4, RequestExplains
  <2>6. "PENDING_PAYMENT" \in Explained(o)'
    BY <2>3, <2>4, ExplainedByNext
  <2>7. \A p \in OrderIds : p = o \/ orders'[p] = orders[p]
    BY <1>0, <1>7 DEF CreateInsert
  <2>8. orders'[o] = NewRow
    BY <1>0, <1>7 DEF CreateInsert
  <2>9. Settled(o)'
    BY <2>6, <2>8 DEF Settled, NewRow
  <2>10. HasReason(u)'
    BY <2>3 DEF HasReason
  <2>11. \A x \in Requests : req'[x] = req[x] \/ HasReason(req[x])'
    <3>1. ASSUME NEW x \in Requests, req'[x] = u PROVE HasReason(req[x])'
      BY <2>10, <3>1
    <3> QED
      BY <2>4, <3>1
  <2> QED
    BY <1>0, <2>5, <2>7, <2>9, <2>11, AuditKept
<1>8. CASE ReviewLookup(r) \/ ReviewInsert(r) \/ DetailReviews(r)
  <2>1. UNCHANGED <<orders, trail, job>> /\ q.pc \in {"check", "review", "reviews"}
    BY <1>1, <1>8 DEF ReviewLookup, ReviewInsert, DetailReviews, tables
  <2>2. CASE Done(r)
    BY <1>1, <2>1, <2>2, NoRequestReason, QuietAudit DEF Done
  <2>3. CASE Proceed(r, "review")
    <3>1. PICK u : u = [q EXCEPT !.pc = "review"]
      OBVIOUS
    <3>2. HasReason(u)
      BY <1>2, <3>1 DEF HasReason, Request
    <3>3. req' = [req EXCEPT ![r] = u]
      BY <1>1, <2>3, <3>1 DEF Proceed
    <3> QED
      BY <1>1, <2>1, <3>2, <3>3, QuietAudit
  <2> QED
    BY <1>8, <2>2, <2>3 DEF ReviewLookup, ReviewInsert, DetailReviews
<1> QED
  BY <1>3, <1>4, <1>5, <1>6, <1>7, <1>8 DEF Continue

LEMMA JobAudit ==
  ASSUME OrdersInv, AuditInv, faults = 0, NEW j \in JobRuns, JobStep(j)
  PROVE  AuditInv'
<1>0. /\ req \in [Requests -> Request] /\ orders \in [OrderIds -> Row]
      /\ trail \in [OrderIds -> SUBSET Status] /\ job \in [JobRuns -> JobState]
  BY DEF OrdersInv, TypeOK
<1>1. ASSUME NEW o \in OrderIds, JobCloseUnpaid(j, o) \/ JobCloseUnconfirmed(j, o)
      PROVE  AuditInv'
  <2>1. UNCHANGED <<req, trail>> /\ job[j].pc \in {"unpaid", "unconfirmed"}
    BY <1>1 DEF JobCloseUnpaid, JobCloseUnconfirmed
  <2>2. PICK pc \in {"unpaid_log", "unconfirmed_log"} :
          /\ job' = [job EXCEPT ![j] = [pc |-> pc, todo |-> job[j].todo \ {o}, at |-> o]]
          /\ orders'[o].status = Closed(pc) /\ orders'[o].at = orders[o].at \union {"cancelled"}
    BY <1>0, <1>1 DEF JobCloseUnpaid, JobCloseUnconfirmed, Closed
  <2>3. \A x \in JobRuns \ {j} : job'[x] = job[x]
    BY <1>0, <2>2
  <2>4. job'[j].pc = pc /\ job'[j].at = o
    BY <1>0, <2>2
  <2>5. \A p \in OrderIds : Explained(p) \subseteq Explained(p)'
    BY <2>1, <2>3, JobExplains
  <2>6. Closed(pc) \in Explained(o)'
    BY <2>4, ExplainedByNext
  <2>7. PICK row : row = orders'[o]
    OBVIOUS
  <2>8. orders' = [orders EXCEPT ![o] = row]
    BY <1>0, <1>1, <2>7 DEF JobCloseUnpaid, JobCloseUnconfirmed
  <2>9. \A p \in OrderIds :
          (orders'[p].status = orders[p].status /\ orders'[p].at = orders[p].at) \/ Settled(p)'
    BY <2>2, <2>5, <2>6, <2>7, <2>8, RowSettles
  <2> QED
    BY <1>0, <2>1, <2>5, <2>9, AuditKept
<1>2. CASE JobListUnpaid(j) \/ JobListUnconfirmed(j) \/ JobFinish(j) \/ JobLog(j)
  <2>1. UNCHANGED <<req, orders>> /\ \A x \in JobRuns \ {j} : job'[x] = job[x]
    BY <1>0, <1>2 DEF JobListUnpaid, JobListUnconfirmed, JobFinish, JobLog, tables
  <2>2. /\ \A o \in OrderIds : trail[o] \subseteq trail'[o]
        /\ job[j].pc \in {"unpaid_log", "unconfirmed_log"} => Closed(job[j].pc) \in trail'[job[j].at]
    <3>1. CASE JobLog(j)
      <4>1. job[j].at \in OrderIds
        BY <1>0 DEF JobState
      <4>2. trail' = [trail EXCEPT ![job[j].at] = @ \union {Closed(job[j].pc)}]
        BY <3>1 DEF JobLog
      <4> QED
        BY <1>0, <4>1, <4>2
    <3>2. CASE JobListUnpaid(j) \/ JobListUnconfirmed(j) \/ JobFinish(j)
      BY <3>2 DEF JobListUnpaid, JobListUnconfirmed, JobFinish, tables
    <3> QED
      BY <1>2, <3>1, <3>2
  <2>3. \A o \in OrderIds : Explained(o) \subseteq Explained(o)'
    BY <2>1, <2>2, JobExplains
  <2> QED
    BY <1>0, <2>1, <2>3, AuditKept
<1> QED
  BY <1>1, <1>2 DEF JobStep

LEMMA AuditNext == OrdersInv /\ AuditInv /\ [Next]_ordersVars => AuditInv'
<1> SUFFICES ASSUME OrdersInv, AuditInv, [Next]_ordersVars, faults' = 0 PROVE AuditInv'
  BY DEF AuditInv
<1>0. faults \in Nat /\ req \in [Requests -> Request] /\ orders \in [OrderIds -> Row]
  BY MaxFaultsAssumption DEF OrdersInv, TypeOK
<1>1. ASSUME NEW r \in Requests, Arrive(r) \/ Continue(r)
      PROVE  AuditInv'
  <2>1. UNCHANGED faults
    BY <1>1 DEF Arrive, Continue, CreateLookup, PaymentRead, MarkPaidRead, AcceptRead, RejectRead, CancelRead,
                StartRead, EndRead, Fetch, ReviewRead, DetailRead, CreateInsert, MarkPaidUpdate, AcceptUpdate,
                RejectUpdate, CancelUpdate, StartUpdate, EndUpdate, Update, PaymentCommit, InsertLog,
                ReviewLookup, ReviewInsert, DetailReviews
  <2> QED
    BY <1>1, <2>1, ReadAudit, ContinueAudit
<1>2. ASSUME NEW j \in JobRuns, JobStep(j)
      PROVE  AuditInv'
  <2>1. UNCHANGED faults
    BY <1>2 DEF JobStep, JobListUnpaid, JobListUnconfirmed, JobLog, JobFinish, JobCloseUnpaid, JobCloseUnconfirmed
  <2> QED
    BY <1>2, <2>1, JobAudit
<1>3. ASSUME NEW o \in OrderIds, NEW pay, RefundUpdate(o, pay)
      PROVE  AuditInv'
  <2>1. UNCHANGED <<trail, req, job, faults>>
    BY <1>3 DEF RefundUpdate
  <2>2. \A p \in OrderIds : Explained(p) \subseteq Explained(p)'
    BY <2>1, ExplainedBy, ExplainedByNext
  <2>3. \A p \in OrderIds : orders'[p].status = orders[p].status /\ orders'[p].at = orders[p].at
    BY <1>0, <1>3 DEF RefundUpdate
  <2> QED
    BY <1>0, <2>1, <2>2, <2>3, AuditKept
<1>4. CASE \/ UNCHANGED ordersVars
           \/ \E o \in OrderIds : GetOlder(o) \/ RevealDatePasses(o)
  <2>1. UNCHANGED <<orders, trail, req, job, faults>>
    BY <1>4 DEF ordersVars, GetOlder, RevealDatePasses, tables
  <2>2. \A p \in OrderIds : Explained(p) \subseteq Explained(p)'
    BY <2>1, ExplainedBy, ExplainedByNext
  <2> QED
    BY <1>0, <2>1, <2>2, AuditKept
<1>5. ASSUME (\E r \in Requests : RequestFails(r)) \/ (\E j \in JobRuns : JobFails(j))
      PROVE  FALSE
  BY <1>0, <1>5 DEF RequestFails, JobFails
<1> QED
  BY <1>1, <1>2, <1>3, <1>4, <1>5 DEF Next

\* As long as no statement fails, order_status_logs explains every order: its
\* status and each milestone is logged, or about to be, although handlers
\* write a status they read long before and log it only when they changed it.
THEOREM LoggedOrders == Spec => []AuditTrail
<1>1. Init => AuditInv
  BY DEF Init, AuditInv, Settled, HasReason, NoRow, NoRequest, Local, Exists
<1>2. AuditInv => AuditTrail
  BY DEF AuditInv, AuditTrail, Settled, Explained
<1> QED
  BY <1>1, <1>2, AuditNext, OrdersInvariant, PTL DEF Spec

=============================================================================
