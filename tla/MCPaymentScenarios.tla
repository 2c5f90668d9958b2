------------------------- MODULE MCPaymentScenarios -------------------------
(***************************************************************************)
(* Four small instances of Payments side by side for TLC: each scenario    *)
(* has requests and bounds of its own within those of the configuration,   *)
(* and a behavior stays in the scenario it begins in.                      *)
(***************************************************************************)
EXTENDS MCPayments

VARIABLE scenario

\* What is asked for in each scenario: one confirmation, its webhooks, their
\* repetitions and their replay; the jobs that reconcile and clean up beside
\* late writes of the order service; late writes of it beside a timed out
\* order; refunds, their retries, their webhooks and the replay of those.
Paying == {"create", "confirm", "hook"}

Requests == [
  booking   |-> Paying \union {"redeliver", "replay"},
  repair    |-> Paying \union {"reconcile", "cleanup", "cancel", "mark_paid"},
  closing   |-> Paying \union {"reconcile", "cancel", "mark_paid", "close"},
  refunding |-> Paying \union {"refund", "retry", "replay"}]

\* Two intents for booking, a restart for repair, three ids and both answers of
\* the provider for refunding, and a failing statement for the others.
Bounds == [
  booking   |-> [intents |-> 2, ids |-> 2, errors |-> 1, restarts |-> 0],
  repair    |-> [intents |-> 1, ids |-> 1, errors |-> 1, restarts |-> 1],
  closing   |-> [intents |-> 1, ids |-> 1, errors |-> 1, restarts |-> 1],
  refunding |-> [intents |-> 1, ids |-> 3, errors |-> 0, restarts |-> 0]]

WithinScenario ==
  LET bound == Bounds[scenario] IN
  /\ \A s \in Slots : slot[s].op \in Requests[scenario] \union {"none"}
  /\ Len(intents) <= bound.intents /\ drawn <= bound.ids
  /\ errors <= bound.errors /\ restarts <= bound.restarts

ScenarioInit == Init /\ scenario \in DOMAIN Bounds

\* create_intent is not even asked for an intent too many, and a webhook that
\* begins without a timer is a repetition.
BeginsWithin ==
  \A s \in Slots : slot[s].pc = "idle" =>
    /\ slot'[s].pc = "insert" => Len(intents) < Bounds[scenario].intents
    /\ slot'[s].op = "hook" /\ due' = due => "redeliver" \in Requests[scenario]

ScenarioNext == Next /\ BeginsWithin /\ UNCHANGED scenario /\ WithinScenario'

ScenarioSpec == ScenarioInit /\ [][ScenarioNext]_<<vars, scenario>>
=============================================================================
