SPECIFICATION Spec
CONSTANTS
  None = None
  AttemptIds <- SixIds
  MaxAttempts = 2
  Credentials <- OneCredential
  Exchanges = {e1}
  Replicas = {n1}
  Openers = {}
  Presenters = {r1}
  AuthRequests = {g1}
  DirectPosts = {d1}
  Pollers = {p1}
  Presentations <- BadgeOrNot
  StoreYields = FALSE
  MaxFaults = 0
  MaxQueue = 4
CHECK_DEADLOCK FALSE
INVARIANTS ReplayGuardHolds
