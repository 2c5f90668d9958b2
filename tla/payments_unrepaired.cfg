\* An order is repaired once and not again.
SPECIFICATION FairSpec
CONSTANTS
  Slots = {s1, s2}
  Ops = {"create", "confirm", "hook", "reconcile", "cancel"}
  WebhookOnly = TRUE
  RefundAnswers = {"refunded"}
  MaxIntents = 1
  MaxIds = 1
  MaxPayments = 3
  MaxErrors = 1
  MaxRestarts = 0
PROPERTIES
  OrdersAreRepaired
CHECK_DEADLOCK FALSE
