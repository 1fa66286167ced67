SPECIFICATION Spec
CONSTANTS
  None = None
  AttemptIds <- SixIds
  MaxAttempts = 2
  Credentials <- OneCredential
  Exchanges = {e1}
  Replicas = {n1}
  Openers = {}
  Presenters = {r1}
  AuthRequests = {}
  DirectPosts = {}
  Pollers = {p1}
  Presentations <- BadgeOrNot
  StoreYields = TRUE
  MaxFaults = 0
  MaxQueue = 4
CHECK_DEADLOCK FALSE
PROPERTIES AttemptNeverRegresses
