\* One confirmation books its intent twice.
SPECIFICATION Spec
CONSTANTS
  Slots = {s1, s2}
  Ops = {"create", "confirm", "hook"}
  WebhookOnly = TRUE
  RefundAnswers = {"refunded"}
  MaxIntents = 1
  MaxIds = 1
  MaxPayments = 2
  MaxErrors = 0
  MaxRestarts = 0
SYMMETRY Symmetry
INVARIANTS
  OneBookingPerIntent
CHECK_DEADLOCK FALSE
