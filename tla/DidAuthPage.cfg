SPECIFICATION FairSpec
CONSTANTS
  Openers = {o1}
  Presenters = {p1, p2}
  Holders = {alice}
  None = None
  StoreYields = FALSE
  MaxFaults = 1
  Polls = {q1, q2}
  MaxLoads = 2
  TenantAuthEnabled = FALSE
  SecretConfigured = FALSE
INVARIANTS TypeOK OutcomeShowsSigner
PROPERTIES CompletionStands PollingStopsForAReason OutcomeReachesPage PollingEnds
CHECK_DEADLOCK FALSE
