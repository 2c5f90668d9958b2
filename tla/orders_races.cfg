\* Two requests and the job race for one order; no statement fails.
SPECIFICATION Spec
CONSTANTS
  OrderIds = {o1}
  Requests = {r1, r2}
  JobRuns = {j1}
  Ops = {"create", "mark_paid", "accept", "reject", "cancel", "start", "end", "review", "detail"}
  MaxFaults = 0
SYMMETRY Symmetry
INVARIANTS
  TypeOK
  NoServiceWithoutPayment
  MilestonesInOrder
  ReviewsAfterCompletion
  BlindUntilRevealed
PROPERTIES
  KeepsPromise
