\* A timed out order is paid again.
SPECIFICATION Spec
CONSTANTS
  Slots = {s1, s2}
  Ops = {"create", "confirm", "close", "reconcile"}
  WebhookOnly = TRUE
  RefundAnswers = {"refunded"}
  MaxIntents = 1
  MaxIds = 1
  MaxPayments = 2
  MaxErrors = 0
  MaxRestarts = 0
PROPERTIES
  TimedOutOrdersAreRefunded
CHECK_DEADLOCK FALSE
