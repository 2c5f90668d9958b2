\* One request gets into two sessions.
SPECIFICATION MatchSpec
CONSTANTS
  ann = ann
  bob = bob
  cyd = cyd
  a1 = a1
  a2 = a2
  b1 = b1
  c1 = c1
  MatchIds <- MCMatchIds
  Owner <- MCOwner
  Compatible <- MCCompatible
  Clients = {cl, cm}
  Workers = {w1}
  NoThread = NoThread
  ClientThread = ClientThread
  MatchOps = {"start", "poll", "cancel", "attach"}
INVARIANTS
  OneSessionPerRequest
CHECK_DEADLOCK FALSE
