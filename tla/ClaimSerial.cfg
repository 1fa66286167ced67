SPECIFICATION Spec
CONSTANTS
  None = None
  OfferGets = {o1, o2}
  TokenPosts = {t1, t2}
  NoncePosts = {n1}
  CredentialPosts = {c1, c2}
  EmptyPosts = {p1}
  VcapiPosts = {v1}
  StatusService = TRUE
  StoreYields = FALSE
  MaxInFlight = 1
  MaxFaults = 1
SYMMETRY SameKind
CHECK_DEADLOCK FALSE
INVARIANTS TypeOK CodeStaysRedeemed CredentialIssuedOnce CompleteShowsCredential IssuedOnlyOnRedemption
PROPERTIES KeepsPromise
