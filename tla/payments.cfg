\* Bookings, repairs and refunds of one order, each with the bounds of its scenario.
SPECIFICATION ScenarioSpec
CONSTANTS
  Slots = {s1, s2}
  Ops = {"create", "confirm", "hook", "redeliver", "replay", "reconcile", "cleanup", "cancel", "mark_paid", "close", "refund", "retry"}
  WebhookOnly = TRUE
  RefundAnswers = {"refunded", "refund_failed"}
  MaxIntents = 2
  MaxIds = 3
  MaxPayments = 2
  MaxErrors = 1
  MaxRestarts = 1
SYMMETRY Symmetry
INVARIANTS
  TypeOK
  MoneyHasEvidence
  RefundedByWebhook
  SucceededRefundIsAnswered
  ProcessedMeansBooked
  

  
CHECK_DEADLOCK FALSE
