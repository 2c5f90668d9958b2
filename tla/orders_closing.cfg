\* Every pending order is closed, though a statement may fail and two runs of
\* the job may overlap; payment events and refunds race with a request.
SPECIFICATION FairSpec
CONSTANTS
  OrderIds = {o1}
  Requests = {r1}
  JobRuns = {j1, j2}
  Ops = {"create", "mark_paid", "accept", "reject", "cancel", "start", "payment", "refund"}
  MaxFaults = 1
INVARIANTS
  AuditTrail
PROPERTIES
  PendingOrdersAreClosed
