SPECIFICATION Spec
CONSTANTS
  None = None
  Checks = {"core.proof", "trust.registry.issuer", "openbadges.schema"}
  RegistryChecks = {"trust.registry.issuer"}
  BaseContexts = {"v1", "v2"}
  OtherContexts = {"openbadges"}
  LegacySuite = "ed25519-signature-2020"
  Words = {"default"}
  DefaultWord = "default"
  Cryptosuites = {"eddsa-rdfc-2022"}
  Now = 10
  ExchangeTtl = 5
CHECK_DEADLOCK FALSE
INVARIANTS AcceptedExpiresInFuture
