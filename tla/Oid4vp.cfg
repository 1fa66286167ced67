SPECIFICATION Spec
CONSTANTS
  None = None
  AttemptIds <- SixIds
  MaxAttempts = 2
  Credentials <- OneCredential
  Exchanges = {e1}
  Replicas = {n1}
  Openers = {}
  Presenters = {}
  AuthRequests = {g1, g2}
  DirectPosts = {d1, d2}
  Pollers = {p1}
  Presentations <- BadgeOrNot
  StoreYields = FALSE
  MaxFaults = 0
  MaxQueue = 4
SYMMETRY SameGets
CHECK_DEADLOCK FALSE
INVARIANTS SpentMeansVerified RecordsCoherent
PROPERTIES ReplaysAreRefused AuthorizationRequestStands
