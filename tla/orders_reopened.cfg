\* A stale update brings a cancelled order back to life.
SPECIFICATION Spec
CONSTANTS
  OrderIds = {o1}
  Requests = {r1, r2}
  JobRuns = {j1}
  Ops = {"create", "mark_paid", "accept", "reject", "cancel", "start", "end"}
  MaxFaults = 0
SYMMETRY Symmetry
PROPERTIES
  CancelledStaysCancelled
