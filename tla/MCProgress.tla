----------------------------- MODULE MCProgress -----------------------------
(***************************************************************************)
(* Small instances for TLC of what must happen in the end.  In every       *)
(* behavior one component runs, and the others stay in their initial       *)
(* states, in which their fairness asks for nothing.                       *)
(***************************************************************************)
EXTENDS Delivery, Sequences, TLC

CONSTANTS
  Slots, Ops, WebhookOnly, RefundAnswers, MaxIntents, MaxIds, MaxPayments, MaxErrors, MaxRestarts,
  ann, bob, cyd, a1, b1, c1, Clients, Workers, NoThread, ClientThread, MatchOps,
  Tasks, ExperienceIds, AutoApprove, HostOps,
  RowIds, PageSize, Millisecond, MaxTime

VARIABLES
  order, intents, payments, refunds, events, mock, due, sent, drawn, slot, errors, restarts,
  manual, withdrawn, skipped,
  status, fresh, sessions, call,
  cert, cache, exp, task, history,
  feed, now, rows, reader

Paying == INSTANCE Payments

MatchIds == {a1, b1, c1}

Owner == a1 :> ann @@ b1 :> bob @@ c1 :> cyd

Compatible == {{a1, b1}, {b1, c1}}

Matching == INSTANCE Matchmaking

Hosting == INSTANCE Hosting

Reading == INSTANCE Feeds

paymentVars ==
  <<order, intents, payments, refunds, events, mock, due, sent, drawn, slot, errors, restarts,
    manual, withdrawn, skipped>>

matchVars == <<status, fresh, sessions, call>>

hostVars == <<cert, cache, exp, task, history>>

feedVars == <<feed, now, rows, reader>>

\* A bound on reading: rows are written in the order of their ids, shown within
\* a tick of the clock, and not hidden.
FewRows ==
  \A q, r \in RowIds :
    /\ rows[r].is # "gone"
    /\ rows[r].is = "written" => rows[r].created = now
    /\ q < r /\ rows[r].is # "to come" => rows[q].is # "to come"

\* A bound on payments: one request or webhook at a time, beside the job, and
\* a statement fails when there is a refund.
OneRequest ==
  /\ errors = 0 \/ refunds # <<>>
  /\ \A s, u \in Slots : {slot[s].op, slot[u].op} \subseteq Ops \ {"replay"} => s = u

ProgressInit ==
  /\ Paying!Init /\ Matching!MatchInit /\ Hosting!HostInit /\ Reading!FeedInit
  /\ DeliveryInit

ProgressNext ==
  \/ /\ Matching!MatchInit /\ Hosting!HostInit /\ Reading!FeedInit /\ DeliveryInit
     /\ Paying!Next /\ OneRequest'
     /\ UNCHANGED <<matchVars, hostVars, feedVars, deliveryVars>>
  \/ /\ Paying!Init /\ Hosting!HostInit /\ Reading!FeedInit /\ DeliveryInit
     /\ Matching!MatchNext
     /\ UNCHANGED <<paymentVars, hostVars, feedVars, deliveryVars>>
  \/ /\ Paying!Init /\ Matching!MatchInit /\ Reading!FeedInit /\ DeliveryInit
     /\ Hosting!HostNext
     /\ UNCHANGED <<paymentVars, matchVars, feedVars, deliveryVars>>
  \/ /\ Paying!Init /\ Matching!MatchInit /\ Hosting!HostInit /\ DeliveryInit
     /\ Reading!FeedNext /\ FewRows'
     /\ UNCHANGED <<paymentVars, matchVars, hostVars, deliveryVars>>
  \/ /\ Paying!Init /\ Matching!MatchInit /\ Hosting!HostInit /\ Reading!FeedInit
     /\ DeliveryNext
     /\ UNCHANGED <<paymentVars, matchVars, hostVars, feedVars>>

ProgressSpec ==
  /\ ProgressInit
  /\ [][ProgressNext]_<<paymentVars, matchVars, hostVars, feedVars, deliveryVars>>
  /\ Paying!Fairness /\ Matching!MatchFairness /\ Hosting!HostFairness /\ Reading!FeedFairness
  /\ DeliveryFairness

\* Failed payment events (module Payments) are processed or run out of retries.
FailedEventsAreReplayed == Paying!FailedEventsAreReplayed

\* Requests that fit (module Matchmaking) do not both wait for ever.
CompatibleAreMatched == Matching!CompatibleAreMatched

\* The cache of requireApprovedHost (module Hosting) catches up.
CacheCatchesUp == Hosting!CacheCatchesUp

\* Pages come to an end (module Feeds).
ReadingEnds == Reading!ReadingEnds
=============================================================================
