\* Starts, polls, cancellations and the worker race for a few requests.
SPECIFICATION MatchSpec
CONSTANTS
  ann = ann
  bob = bob
  cyd = cyd
  a1 = a1
  a2 = a2
  b1 = b1
  c1 = c1
  MatchIds <- MCMatchIds
  Owner <- MCOwner
  Compatible <- MCCompatible
  Clients = {cl, cm}
  Workers = {w1, w2}
  NoThread = NoThread
  ClientThread = ClientThread
  MatchOps = {"start", "poll", "cancel", "attach"}
SYMMETRY Symmetry
INVARIANTS
  MatchTypeOK
  MatchedIsSettled
  OneWaitingPerProfile
  
PROPERTIES
  KeepsBoard
CHECK_DEADLOCK FALSE
