SPECIFICATION Spec
CONSTANTS
  None = None
  OfferGets = {o1}
  TokenPosts = {t1}
  NoncePosts = {n1}
  CredentialPosts = {c1}
  EmptyPosts = {}
  VcapiPosts = {v1}
  StatusService = FALSE
  StoreYields = FALSE
  MaxInFlight = 2
  MaxFaults = 0
CHECK_DEADLOCK FALSE
INVARIANTS CredentialIssuedOnce
