\* What must happen in the end.
SPECIFICATION ProgressSpec
CONSTANTS
  Slots = {s1, s2}
  Ops = {"create", "confirm", "hook", "replay", "refund"}
  WebhookOnly = TRUE
  RefundAnswers = {"refunded"}
  MaxIntents = 1
  MaxIds = 2
  MaxPayments = 2
  MaxErrors = 1
  MaxRestarts = 0
  ann = ann
  bob = bob
  cyd = cyd
  a1 = a1
  b1 = b1
  c1 = c1
  Clients = {cl, cm}
  Workers = {w1}
  NoThread = NoThread
  ClientThread = ClientThread
  MatchOps = {"start"}
  Tasks = {t1, t2}
  ExperienceIds = {}
  AutoApprove = FALSE
  HostOps = {"draft", "submit", "gate"}
  RowIds = {1, 2, 3}
  PageSize = 2
  Millisecond = 2
  MaxTime = 5
  Conns = {n1, n2}
  Pushes = {p1}
  Consumers = {v1}
  PushMaxRetries = 2
PROPERTIES
  FailedEventsAreReplayed
  CompatibleAreMatched
  CacheCatchesUp
  ReadingEnds
  PresenceSettles
  PushesSettle
CHECK_DEADLOCK FALSE
