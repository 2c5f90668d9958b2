# Terravoy backend: formal models

TLA+ models of the Terravoy backend, the TLC runs that check them on small
instances and the theorems TLAPS proves about them. Paths are relative to the
root of the repository.

## 1. The system

Terravoy books travelers with local hosts. A Fastify server (`server/src`)
serves the application and the admin console from one PostgreSQL database
(`db/migrations`); three Go programs carry instant messages: `im/im-api`
(HTTP, writes messages to the same database), `im-gateway` (WebSocket, fans
events out through Redis) and `im/im-worker` (push jobs from a Redis stream,
retention). Background jobs of the server run on `setInterval`
(`server/src/jobs/index.js`, `server/src/workers/match_worker.js`).

Almost every handler sends its statements to the database one by one, each in
a transaction of its own (`await pool.query`): between two of them any other
request, job or webhook may run. The models take this literally: **a statement
is one action**, what a handler read earlier is a local copy that may be out of
date, and a transaction at READ COMMITTED is as many actions as it has
statements that others can get between (a read takes no lock; from the first
write of a row on, the row is locked until the commit).

| Component | State | Operations | What is hard about it | Modelled in |
|---|---|---|---|---|
| Orders (`routes/orders.js`, `jobs/index.js`) | `orders`, `order_status_logs`, `reviews` | create, mark_paid, accept, reject, cancel, start, end, review, detail; the closing job | stale copies, updates by id, overlapping runs of the job, a log row that may be lost, blind reviews | `ServiceMilestones`, `Orders` |
| Payments (`routes/payments.js`, `services/payments/*`, `jobs/payments.js`) | `payment_intents`, `payments`, `refunds`, `webhook_events`, the columns `payment_status` and `refund_status` of an order | create intent, confirm, refund, retry, webhook; replay, reconcile and cleanup jobs | duplicated, lost and reordered webhooks, a synchronous event racing the webhook of the same payment, crashes between storing an event and processing it | `PaymentLedger`, `Payments` |
| Matchmaking (`routes/match.js`, `workers/match_worker.js`, SQL functions) | `match_requests`, `match_sessions`, the thread of a session | start, poll, heartbeat, cancel, attach; the worker | `try_match` reads its own request without a lock, locked rows are skipped, transactions deadlock, a service call between two statements | `MatchBoard`, `Matchmaking` |
| IM api (`im/im-api`) | `chat_threads`, `chat_messages`, push jobs | send a message, enqueue pushes; ensure thread, list, read, register token | client retries, gapless sequence numbers, aborted transactions | `ThreadLog`, `Messages`, `Delivery` (partly) |
| IM push worker (`im/im-worker`) | the stream, its pending entries, the dead letters | consume, retry, dead-letter, retention | an end between delivery and acknowledgement, or between acknowledgement and repetition | `Delivery`, `Messages` |
| IM gateway (`im-gateway`) | hub of connections, presence keys | connect, refresh, disconnect; subscribe, fan-out | two connections of one user, presence that one of them clears, late timers | `Delivery` (partly) |
| Host certification | `host_certifications`, badges of the experiences, a cache of 60 s | draft, submit, review; the gate | decisions on stale reads, a cache that stores what was read before it was cleared | `Hosting` |
| Experiences | `experiences` | create, update, duplicate, submit, pause, resume, archive, delete, moderate; reviews by pages | a status read before it is changed by id | `Hosting`, `Feeds` |
| Plaza | posts, likes, comments and their counters | like, unlike, comment, delete, hide, moderate; lists by pages | counters against rows, cursors against times cut to milliseconds | `Plaza`, `Feeds` |
| SMS sign-in and sessions | codes, refresh tokens | send, verify, refresh, logout | read and mark apart, sign-out beside a refresh | `Accounts` |
| Media assets, rate limiter | sliding windows, assets | request, complete, review | two windows in a row, the edge of a window | `Uploads` (partly) |
| Profiles, admin, reports, configuration | single rows | single-row edits | little; see section 7 | |

`PROJECT.json` lists every component with its status, and under `hazards` the
places where this code can go wrong in a way a test would hardly reach.

Components interact through rows and calls. Payments write two columns of an
order (part of both models: `Orders` takes any such write at any time, `Payments`
has the real ones beside the writes of the order service); the match server
calls the IM service to make a thread (`EnsureThread`, external); the message
service looks at the presence the gateway keeps before it makes a push job that
the worker takes (`Delivery` has all three); certifications, experiences and the
cache in front of them are one model (`Hosting`).

## 2. What makes each component correct

- **Orders.** Every handler reads the order, checks the copy, updates the row by
  `id` and inserts a row of `order_status_logs`; nothing is locked. Correct means:
  the milestones in the `*_at` columns form a possible history, no service without
  a payment, reviews only after completion and hidden until both exist or their
  date has come, a log that explains the row, and abandoned orders closed.
- **Payments.** The outcome of a payment reaches the order on three ways (the
  confirmation itself, webhooks, reconciliation), each of which may come twice,
  late or never; an event is stored, then processed in a transaction, then marked.
  Correct means: no money in the order's columns without a payment behind it,
  processed events are in the books, once, failed events are replayed, refunds
  are what the provider said, and whatever a table says has its reason in what was
  stored before (`PaymentLedger`).
- **Matchmaking.** Correct means: a request is matched exactly when it is in a
  session, a profile has one waiting request, a session gets the thread of its
  two members, and two requests that fit do not both wait for ever. What others
  see of its transactions is what a board of requests does in one step each
  (`MatchBoard`).
- **IM api.** Sequence numbers come from `chat_threads.last_seq` under its row
  lock. Correct means: the messages of a thread are a log, numbered without a
  gap in the order in which they appear, each once, and an answer names the
  number its message has.
- **IM gateway and push worker.** Correct means: presence says in the end whether
  the user is connected, and a push job comes to an end.
- **Host certification and experiences.** Correct means: nothing is decided about
  documents that were never validated, only a user who was approved offers
  anything, the cache catches up with the row, and nothing gets public but by a
  submission behind the gate or by an admin.
- **Plaza.** Correct means: `like_count` is the number of likes, `comment_count`
  does not run ahead of the comments; readers of pages miss nothing, read nothing
  twice and come to an end.
- **SMS sign-in.** Correct means: overlapping uses of a code or a token are no
  more than the requests that overlap, and a sign-out of everything is final.
- **Upload limits.** Correct means: no window, wherever it is laid, holds more
  grants than the limit, and who waits as long as told is let through.

## 3. Plan

| | Modules | Composition | Main properties and theorems | State |
|---|---|---|---|---|
| 1 | `ServiceMilestones`, `Orders`, `OrdersProofs` | `Orders` refines `ServiceMilestones` | invariant of the order service, refinement: proved | done |
| 2 | `PaymentLedger`, `Payments`, `PaymentsProofs` | `Payments` refines `PaymentLedger`; writes of the order service are part of it | evidence, books, refunds and the refinement: proved, the replay model-checked | done; left: a second order |
| 3 | `MatchBoard`, `Matchmaking`, `MatchmakingProofs` | `Matchmaking` refines `MatchBoard`; worker, requests and SQL functions over the same tables; the IM service external | all safety properties and the refinement proved, progress model-checked | done |
| 4 | `ThreadLog`, `Messages`, `MessagesProofs` | `Messages` refines `ThreadLog` | the refinement: proved | done |
| 5 | `Delivery` (proofs in `MessagesProofs`) | api, worker, stream and presence | one worker per job, over is over: proved; settling of presence and pushes: model-checked | done; left: fan-out |
| 6 | `Hosting`, `HostingProofs` | certifications, cache and experiences | all safety properties proved, the cache model-checked | done |
| 7 | `Plaza`, `Feeds`, `PlazaProofs` | | counters and pages: all safety properties proved, the end of the pages model-checked | done |
| 8 | `Accounts`, `Uploads`, `AccountsProofs` | | sessions, sliding windows: all safety properties proved | done |
| 9 | `MCPlatform`, `MCProgress`, `PlatformProofs` | the components of 2 to 8 side by side | what holds of each holds in the platform: proved | done |

The order is by what a mistake costs: services and money first, then the parts
with the most concurrency, then the single-row protocols. All modules are written
to be proved about: constants with assumptions, one action per statement,
invariants as conjunctions of named parts, no recursive operators.

## 4. The modules and the code

### Orders, ServiceMilestones

`orders`, `trail` and `reviews` are the tables `orders`, `order_status_logs` (as the
set of statuses it says an order moved to) and `reviews` (which party wrote one).
The columns `paid_at`, `confirmed_at`, `started_at`, `completed_at`, `cancelled_at`
are the set `at` of those that are not null. `age` and `revealDue` are what the
clock says of `created_at` and `completed_at`; `revealed` and `shown` are history
variables. `req[r]` and `job[j]` are the local variables of a handler or of a run
of `autoCloseUnconfirmed` between two statements, with the copy of the row.

| Code | Actions |
|---|---|
| `handleCreate` | `CreateLookup` (the search for an open order), `CreateInsert` |
| `handleMarkPaid`, `handleAccept`, `handleReject`, `handleCancel`, `handleStart`, `handleEnd` | `…Read` (the SELECT and every check), `…Update` (the UPDATE by id), `InsertLog` |
| `handleReview` | `ReviewRead`, `ReviewLookup`, `ReviewInsert` (with the unique index) |
| `handleDetail` | `DetailRead` (decides visibility), `DetailReviews` (reads the reviews) |
| `autoCloseUnconfirmed` | `JobListUnpaid`, `JobCloseUnpaid`, `JobListUnconfirmed`, `JobCloseUnconfirmed`, `JobLog`, `JobFinish` |
| event processor, `handleRefund` | `PaymentRead`, `PaymentCommit`, `RefundUpdate`: what payments write into an order, in any order and at any time |
| any `await pool.query` that rejects | `RequestFails`, `JobFails` |

`ServiceMilestones` is what is left of the order of a service when updates are
applied late: bookings pass milestones one after the other and keep them, each
party reviews once and after the end, and reviews are shown by the rule of
`computeReviewVisibility`. The refinement mapping is
`reached = at \ {"cancelled"}`, `reviewed = reviews`.

### PaymentLedger, Payments

One order with all its rows: `intents`, `payments`, `refunds` are the tables, `events`
is `webhook_events`. `mock`, `due`, `sent`, `drawn` are the memory of the mock provider:
its intents, the timers it set, the webhooks it sent (which may come again) and
the ids it drew. A slot is a handler, a webhook or a run of a job.

| Code | Actions |
|---|---|
| the order service's writes of `payment_status` | `OrderRead`, `OrderWrite` (mark_paid, cancel, the closing job) |
| `handleCreateIntent` | `CreateRead`, `CreateInsert` (with the unique index of active intents) |
| `handleConfirm` | `ConfirmRead` (reads, provider, sync event), the processing of that event, `Settle` (the last, blind UPDATE of the intent) |
| `handleWebhook`, `_storeEvent` | `HookFires` or `Redeliver`, `Store` (ON CONFLICT, and the duplicate answered) |
| `processEvent` and its four handlers | `Select` (BEGIN and the SELECTs), `CommitPaid`, `CommitDeclined`, `CommitRefunded`, `CommitRefundFailed` (from the first UPDATE to COMMIT) |
| marking the event, the catch block | `Mark`, `Fail` |
| `handleRefund`, `handleRefundRetry` | `RefundRequest`, `RetryRequest`, `RefundUpdate`, `RefundOrder` |
| the jobs | `ReplayList`, `ReconcileList` and the processing of each event; `CleanupList`, `CleanupStep` |
| a statement that fails; the end of the process | `StatementFails`, `Restart` |

A transaction is two actions because PostgreSQL's READ COMMITTED takes no lock
before the first UPDATE: what its SELECT found may be out of date by then; from
the first UPDATE on the row locks make it one step. A job's promise is not
awaited and its errors are not caught outside its loop, so a failing statement
there ends the process (`Crash`), with the provider's memory and timers. With one
order, the search for an intent by provider alone (`eventProcessor.js:190`) finds
an intent of this order only.

Left out: `payment_attempts` (no handler reads it), amounts and currencies (fixed
when the order is made), the order in which a job goes through its list (any
order), the age conditions of the jobs (any row may be old enough), authorization
(a refused request changes nothing).

`PaymentLedger` is what the service promises about the money of an order when it is
forgotten who writes a row, in how many statements and from which copy. The
provider tells (`Tell`); an event is heard from a webhook that was sent, from a row of
the books, or from a confirmation, which never speaks of refunds (`Hear`, `Credible`);
a payment that was heard of is entered, once per transaction, and in that very step
its intent succeeds and the order is paid (`Enter`); a confirmation may show an intent
as succeeded when a payment of it was heard of (`Accept`), and anybody may write
something else over it (`Obscure`), but then no other row follows; refunds are asked
for only when something was booked (`AskBack`), the order shows REFUNDING only when
there is one (`Refunding`), and a refund is answered by an event, under an id of
its own (`Return`), and may be opened again (`Reopen`). What the order service writes
needs evidence unless it says UNPAID (`MarkPaid`, `Withdraw`). The mapping: `told` is
`sent`, `heard` the rows of `webhook_events`, `booked` is `payments`, `won` the intents with
the status succeeded, `answered` the refund ids of the succeeded refunds, `pay` the column
`payment_status`; everything a slot holds, the status of events, timers and the
provider's memory are forgotten.

### MatchBoard, Matchmaking

`status` and `fresh` are the columns `status` and `expires_at >= now()` of
`match_requests`, `sessions` the table `match_sessions` as a function from pairs of
requests to the thread. `call[t]` is the local state of a request or of a run of the
worker; while it is in a transaction it holds what that has written and not
committed, and `Holds(t)` the rows it has locked.

| Code | Actions |
|---|---|
| `start_match` | `StartMatch` (cancels the waiting requests of the profile, inserts the new one), then `try_match` |
| `try_match` | `WorkerTry` or `StartMatch` (expire, read the own request without a lock), `Choose` or `ChooseNobody` (`FOR UPDATE SKIP LOCKED`), `Pair`, `PairFails` (the unique indexes) or `Leave` |
| locks in a circle | `DeadlockVictim` |
| `runOnce` of the worker | `WorkerTry` for each request that still waits, `WorkerExpire` otherwise |
| `match-heartbeat`, `match-poll` | `Heartbeat`, `Poll`; `EnsureThread`, `EnsureFails`, `AttachThread` |
| `cancel_match`, `match-attach-conversation` | `Cancel`, `AttachConversation` |
| 60 s without a sign of life | `GetStale` |

Scores decide which partner is taken first and are left out: any that fits may
be. The IM service that makes the thread is external.

`MatchBoard` is what is promised when locks, copies and transactions under way are
forgotten: a request is put up once, alone of its profile (`Post`), comes down for
good (`TakeDown`), or is matched with one that is up and fits (`Match`), as the first
of at most one match and the second of at most one; then the match gets a thread
(`Attach`). It says what `try_match` does not promise, too: the first request of a match
may have come down, or have been the second of another match, before. The mapping:
`posted` is the rows that were committed, `waiting` those with the status waiting,
`matches` the table `match_sessions`.

### ThreadLog, Messages

`ThreadLog` is the promise of `docs/IM_MESSAGE_SEMANTICS.md`: messages get the
numbers 1, 2, 3, ... as they appear, none is there twice, and answers are
numbers of messages (or the zero of a repetition that lost its race). `Messages` is
`handleCreateMessage` with its transaction: `Known` and `Unknown` (the lookup),
`Allocate` (the UPDATE that locks the thread), `Insert` or `InsertAgain` (the unique
index), `Answer`, `RequestFails`, and the retention job of the worker. The mapping is
the identity on `last`, `posted`, `gone` and `answers`.

### Delivery

Presence: `Authenticate`, `TimerFires`, `Refresh`, `Close`, `ClearPresence`,
`PresenceExpires`, `GatewayEnds` are the accesses of `handleWS` and its goroutines to
the key of the user. Push jobs: `CheckPresence`, `AddJob`, `AddFails` (im-api), `Take`,
`Done`, `TokensFail`, `GiveUp`, `Acknowledge`, `TooEarly`, `AddAgain`, `WorkerEnds` (im-worker).
A job that no worker will look at again is `stranded`, one in no stream `lost`. That an
entry is with one worker at most (`OneWorkerPerJob`) and that a job that is over stays
as it is (`JobsEndOnce`) is proved for any number of workers; the run has one worker
and asks for progress only.

### Hosting

`cert` is the row of `host_certifications`, `cache` the entry of
`requireApprovedHost`, `exp` the experiences with their badge, `task[t]` the local
state of a request. `DraftRead`/`DraftWrite`, `SubmitRead`, `ReviewRead` and the common
`CertWrite`, `BadgeWrite`, `ClearCache` are the statements of certification; `GateHit`,
`GateQuery`, `GateRemember`, `CacheExpires` the gate; `CreateExperience`,
`UpdateExperience`, `ReadOpened` (behind the gate), `ReadUngated`, `ModerateRead`,
`StatusWrite`, `DeleteWrite`, `DuplicateWrite` the experiences. `released` is a history
of the row: it was submitted through the gate, or set by an admin.

### Plaza, Feeds

`Plaza` has one post with its counters: `LikeInsert`/`LikeCount`,
`UnlikeDelete`/`UnlikeCount`, `CommentRead`/`CommentCommit`, `DeleteRead`/`DeleteCommit`
are the statements of the transactions, `PatchRead`/`PatchWrite` the author's change
of its status, `ModeratePost` and `ModerateComment` the admins'. `Feeds` is the
reading of a list: `WriteRow` (the transaction begins, with its time), `ShowRow` (it
commits), `HideRow`, `ReadPage` with the cursor cut to milliseconds (`InMilliseconds`).

### Accounts, Uploads

`Accounts` is `authSms.js` for one phone: `SendRead`/`SendInsert`,
`VerifyRead`/`Consume`/`OpenSession`, `RefreshRead`/`Revoke`/`OpenSession`, three kinds of
logout, and the clock. `Uploads` is `rateLimiter.js` as `enforceRateLimit` uses it:
`Grant` (both windows have room and both record) and `Refuse`, with the lists of
times as sequences whose beginning is cut off when a request comes (`Active`, from the
index `Idx` on, at which the loop of `consume` stops). `granted` is a history: the times
of all grants, in their order.

### MCPlatform, MCProgress

The components from `Hosting` on, and for liveness all but the orders, are checked
**one beside the other**: each behavior runs one of them, the others rest in their
initial states. They share no row and no memory, so an interleaving would show
nothing that the parts do not, and cost the product of their states. What is
shared is inside one module (see the end of section 1).

## 5. What is checked

Every run interleaves all statements of its handlers. Runs that pass:

| Run | What it asks | Bounds |
|---|---|---|
| `orders_races` | the safety properties of orders and the refinement of `ServiceMilestones` | one order, two requests of any kind, one run of the job |
| `orders_closing` | every pending order is closed (liveness), and the log explains the row, when payments come from events and refunds | one order, one request at a time, of any kind but ends, reviews and reads, two overlapping runs of the job, one failing statement |
| `payments` | types, evidence, books and refunds, and the refinement of `PaymentLedger`, in four scenarios: booking, repair by reconciliation, closing, refunding | per scenario (`Bounds` in `MCPaymentScenarios`): two slots, up to two intents, three ids, one failure, one restart |
| `match` | types, matched = in a session, one waiting request, threads, and the refinement of `MatchBoard` | three travelers, one of them with two trips of which the second only takes the place of the first, two client requests, two overlapping runs of the worker |
| `platform` | safety of hosting, plaza, pages, sign-in, upload limits, and the refinement of `ThreadLog` | two requests at once everywhere; two experiences, comments, messages, codes; three rows, sessions, numbers |
| `progress` | what must happen in the end: replay, matching, the cache, the pages, presence, pushes | two slots, three requests that fit in two ways, two connections, one push with two attempts |

Runs that show a disagreement (each with its finding in `PROJECT.json`):

| Run | What the code does |
|---|---|
| `orders_reopened` | a payment that read the order before it was cancelled writes its status afterwards: the cancelled order waits for its host again |
| `payments_twice` | a confirmation with the mock provider books two payments: its own event has no transaction id, the webhook's has one, and the unique index does not apply to null |
| `payments_skipped` | an event stored by a process that ended before it was processed stays `received`; every later delivery is answered as a duplicate and the replay job selects `failed` ones only |
| `payments_timeout` | reconciliation takes an order that timed out and was refunded for one that lacks its payment, and sets it to PAID |
| `payments_unrepaired` | the reconciliation event of a payment has one id for ever: a payment repairs its order once |
| `match_double` | a request gets into two sessions: as the first of one, by a `try_match` that read it without a lock, and as the second of another; the indexes guard each column by itself |

Bounds. Two requests at once are enough for most hazards: each is about one
statement of one handler between two statements of another, on one row; a third
handler repeats what the second did, and the theorems cover any number. More
are taken where more meet: in `match` two transactions lock one another's request
while others skip locked rows or start. One order
suffices for orders because no statement reads two rows except the search of
`handleCreate`. A bound is a CONSTANT that appears in a guard (`MaxFaults`,
`MaxIntents`, `MaxIds`, `MaxSeq`, `MaxTime`, `LastTick`, ...), restricts what is asked
for (`Ops`, `HostOps`, `MatchOps`), or is a conjunct of an MC module's next-state
relation: `WithinScenario` (the requests and counts of a scenario), `CertQuiet` and
`Offered` (a published or second experience is explored while the certification
rests), `FewRows` (liveness of pages: rows come in order and are not hidden),
`OneRequest` (liveness of the replay: one request beside the job). Each is said to
be a bound where it is declared. `Symmetry` permutes requests, workers, slots or
experiences, which the modules tell apart nowhere, and is used in safety runs only.
A run without deadlock checking may really stop: its ids are used up, nothing is
due and nobody asks for anything more.

Fairness, all of it of the system and none of a client (nobody has to pay, to
accept, to ask again, to log in):

- a statement that was sent to the database is executed, or fails: weak fairness
  of `Continue` (`Orders`, `Payments`), `HostContinue`, `ClientStep`, `Transaction`;
- `setInterval` starts the jobs again and again, and time passes: weak fairness of
  `JobStep` and `GetOlder` in `Orders`, where a run of the job has a place of its own;
  strong fairness of `HookFires`, `ReplayList` and `ReconcileList` in `Payments`, where
  jobs and timers share the slots with requests, and of `WorkerTry` in
  `Matchmaking`: each run of the worker comes to every request on its list, and
  the request may be locked at any one time, but not each time;
- the stream hands out what it has: strong fairness of `Take`; timers of a
  connection go off, keys and cache entries expire: weak fairness of `TimerFires`,
  `Refresh`, `PresenceExpires`, `CacheExpires`, `Ripens`;
- a reader who has begun asks for the next page (`FeedFairness`): the one client
  assumed to go on, because the property is about where that leads.

## 6. What is proved

For every value of the constants, from the assumptions the modules name:

| Module | Theorems | Inductive invariant, and why it is needed |
|---|---|---|
| `OrdersProofs` | `OrdersInvariant`, `TypeCorrect`, `PaymentFirst`, `OrderedMilestones`, `HonestReviews`, `HiddenReviews`, `LoggedOrders`, `PromiseKept` (refinement of `ServiceMilestones`) | `OrdersInv`: a handler writes a status it derived from a copy, when the row may have any other. The `*_at` columns only fill up, so what a status implied about them when it was read (`Known`) is still true: `CopiesStillTell`, `ListsStillTell`, and `Checked` for what each handler established. `AuditInv`, for the log: who has written a status is still to log it or has logged it, so as long as nothing fails what is explained only grows |
| `PaymentsProofs`, evidence | `PaidWithEvidence` | `EvidenceInv`: whatever shows a payment, a copy, a refund under way or a commit about to happen included, has evidence (`Backed`), which is never taken away; `Shapes` gives the form of the values |
| `PaymentsProofs`, books | `PaymentsType`, `MarkedIsBooked`, `TransactionsOnce`, `RefundsAreAnnounced`, `RefundsAreAnswered`, `BooksAreAppendOnly` (of every step) | `Orderly`: every transaction in a row, an event or the memory of the provider goes back to a webhook that was sent, and to one intent (`Ledger`); what a slot read before its commit fits the tables it commits to, because tables only grow and a commit checks the index again (`TasksFit`) |
| `PaymentsProofs`, promise | `LedgerKept` (refinement of `PaymentLedger`) | `Grounded`, on top of `Orderly`: every stored event is credible, what a confirmation is about to write last was said by the event it stored, and who is about to set REFUNDING has its row in `refunds`. The mapping of steps then needs only what a slot knows when it commits (`CommitsOn`); `TxnsOwned` gives that the provider never tells one transaction of two intents, and that refund ids are not zero that no answered row has the id of another |
| `MatchmakingProofs` | `MatchTypes`, `MatchedExactlyInSessions`, `OneRequestWaits`, `RolesAreTakenOnce`, `ThreadsArePairs`, `MatchesAreFinal` (of every step), `BoardKept` (refinement of `MatchBoard`) | `MatchInv`: the discipline of the row locks. The request a `start_match` inserted is seen by nobody and it cancels all others of its profile (`Starters`, `OneStarter`); a transaction about to write its own request by id waits for whoever holds it. That a match is final follows from it: sessions are only added, and who is in one is matched. For the refinement, also `PairsFit`: a partner once chosen goes on fitting. A commit is then one step of the board, because the partner's row was locked (`HeldWaits`) and the new request's rivals are among those it cancels |
| `MessagesProofs` | `MessagesAreALog` (refinement of `ThreadLog`) | `MsgInv`: rows are numbered up to `last`, one transaction has the row of the thread and the next number, an answer under way was posted |
| `MessagesProofs`, push jobs | `DeliveryTypes`, `WorkersShareNoJob`, `OverIsOver` | `JobsInv`: whatever is worked on or between two entries is with exactly one worker, and nothing else is, so that a worker that ends or puts a job down touches no other and none that is over |
| `HostingProofs` | `HostTypes`, `DecisionsFollowValidation`, `HostsWereApproved`, `PublicWasReleased` | `HostInv`: what the local state of a request can be given what has happened once (`FitsIn`); both the history and the released rows only grow, so a request that does not move goes on fitting |
| `PlazaProofs`, counters | `PlazaTypes`, `LikeCountIsExact`, `CommentCountIsBounded` | `PlazaInv`: who is about to count a like has the row for itself (`LikesFit`), who read a comment hidden read one an admin had touched (`CommentsFit`), and the counters (`Counted`) |
| `PlazaProofs`, pages | `FeedTypes`, `ReadersMissOnlyTies`, `ReadersRepeatOnlyTies`, `ReadersMissNothing` | `FeedInv`: of the rows of the first page's time, those not read yet are ahead of the cursor (`Ahead`) and those read behind it (`Behind`). The cut of the cursor's time moves it, but within the millisecond of the page's end (`SameCut`): what it passes over is the exception of the properties, and the only one, as `ReadersMissNothing` says. `Pages` is the lemma about `order by ... limit`: a page is a beginning of what is left and has a last row |
| `AccountsProofs`, sign-in | `AccountsTypes`, `SignedOutForGood`, `ReusesAreBounded` | `AccountsInv`: no request holds on to a code whose sessions were signed out, and such a code stays consumed (`Ended`). `ReuseInv`: the sessions made of a code or a token and the requests under way with it are together no more than `Logins` (`Bounded`): a request joins them only while nothing was made of it yet (`Untouched`) |
| `AccountsProofs`, upload limits | `UploadTypes`, `GrantsAreLimited`, `WaitingIsEnough`, `SecondWindowNeverRefuses` | `UploadInv`: the log of grants is in the order of time (`Logged`); the list of a window is a tail of it, from which only entries were cut that had left the window (`Kept`); two entries `UserMax` places apart are a window apart (`Spread`); the list of an address is, counted from the end, place by place no younger than the log of its user (`NoYounger`); and who was told to wait has an oldest entry that leaves by then (`Advised`) |
| `PlatformProofs` | `PlatformIsItsParts`, `PlatformTypes` | none: every behavior of `MCPlatform` is, seen from each component, one of that component, whose invariants hold |

The proofs of `Feeds` and `Uploads` need a first row or a first index where the code
loops or sorts: it comes from the well-foundedness of the numbers (`WFMin`), not
from induction.

Every safety property the runs that pass check is proved; those of the runs that show
a disagreement do not hold. `PlatformTypes` needs no invariant of its own: a step of
`MCPlatform` is a step of one component and leaves the others alone, so what is proved
of a component carries over (`PlatformIsItsParts`).

Only model-checked: all liveness properties (`PendingOrdersAreClosed`,
`FailedEventsAreReplayed`, `CompatibleAreMatched`, `CacheCatchesUp`, `ReadingEnds`,
`PresenceSettles`, `PushesSettle`), fairness and `ENABLED` being out of the prover's
reach.

## 7. What is not modelled

- **Profiles, users, preferences**: single-row upserts of independent columns.
- **Admin console**: role checks and single-row edits; its reviews of
  certifications, experiences, posts and comments are in those models.
  `adminOrders.js` writes `dispute_status` and `cs_note` only, which no handler of an
  order reads.
- **Authorization rules**: predicates without state; a refusal ends a request
  before it changes anything, so it is a request that was not made.
- **Reports, safety, geo**: single inserts, proxies and word lists.
- **Configuration, migrations, tooling**: run once, by an operator.
- **Of the IM api**: making threads and members (an insert that a unique key
  guards), lists, unread counts and read marks (single statements).
- **Of the gateway**: subscriptions and the fan-out, which keep no state beyond a
  connection and on which nothing decides.
- **Of media**: the completion of an upload (a HEAD request and one insert).
- **Texts, scores, amounts**: a text that is refused ends the request; a score
  orders candidates of whom any may come first; an amount is fixed when the order
  is made.

## 8. Running the checks

    tlc -workers 2 -config orders_races.cfg MCOrders
    tlapm OrdersProofs.tla

The MC modules hold the definitions of model values, the symmetry sets and the
bounds of the runs; the file `PROJECT.json` says which configuration belongs to
which module, what each run is expected to show, and which change of the code each
property would notice (`mutants`; the mutated definitions stand before the real
ones, with a comment).
