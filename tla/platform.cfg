\* Hosting, the plaza, page-wise reading, sign-in, upload limits and messages.
SPECIFICATION PlatformSpec
CONSTANTS
  Tasks = {t1, t2}
  ExperienceIds = {x1, x2}
  AutoApprove = FALSE
  HostOps = {"draft", "submit", "review", "gate", "create", "update", "duplicate", "publish", "pause", "resume", "archive", "delete", "moderate", "restart"}
  Users = {u1, u2}
  Comments = {c1, c2}
  Calls = {k1, k2}
  RowIds = {1, 2, 3}
  PageSize = 1
  Millisecond = 2
  MaxTime = 3
  Codes = {1, 2}
  Sessions = {1, 2, 3}
  Logins = {g1, g2}
  Uploaders = {v1}
  Addresses = {a1, a2}
  UserMax = 2
  AddressMax = 2
  Window = 3
  LastTick = 7
  Messages = {m1, m2}
  Requests = {q1, q2}
  MaxSeq = 3
SYMMETRY Symmetry
INVARIANTS
  PlatformTypeOK
  ValidatedBeforeDecision
  ApprovedBeforeHosting
  PublicOnlyBySubmission
  LikesAreCounted
  CommentsNotOvercounted
  NothingIsLost
  NothingComesAgain
  
  SignOutIsFinal
  WindowHolds
  RetryIsEnough
  SecondWindowIsIdle

  
CHECK_DEADLOCK FALSE
