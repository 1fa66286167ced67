SPECIFICATION PollingSpec
CONSTANTS
  None = None
  AttemptIds <- SixIds
  MaxAttempts = 2
  Credentials <- TwoCredentials
  Exchanges = {e1}
  Replicas = {n1}
  Openers = {o1}
  Presenters = {r1}
  AuthRequests = {}
  DirectPosts = {}
  Pollers = {p1}
  Presentations <- ManyBadges
  StoreYields = FALSE
  MaxFaults = 1
  MaxQueue = 4
CHECK_DEADLOCK FALSE
INVARIANTS TypeOK CompleteIsRechecked NoLostWakeup GaveUpMeansInvalid DuplicateWorkBounded
PROPERTIES KeepsVerifyPromise AttemptNeverRegresses PollingSettles QueueDrains
