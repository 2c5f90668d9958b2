\* A restart leaves an event received and it is skipped for ever.
SPECIFICATION FairSpec
CONSTANTS
  Slots = {s1, s2}
  Ops = {"create", "confirm", "hook", "redeliver", "replay"}
  WebhookOnly = TRUE
  RefundAnswers = {"refunded"}
  MaxIntents = 1
  MaxIds = 1
  MaxPayments = 2
  MaxErrors = 0
  MaxRestarts = 1
PROPERTIES
  SkippedEventsWereProcessed
CHECK_DEADLOCK FALSE
