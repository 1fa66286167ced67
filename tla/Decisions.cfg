SPECIFICATION Spec
CONSTANTS
  None = None
  Checks = {"core.proof", "trust.registry.issuer", "openbadges.schema"}
  RegistryChecks = {"trust.registry.issuer"}
  BaseContexts = {"v1", "v2"}
  OtherContexts = {"openbadges", "clr"}
  LegacySuite = "ed25519-signature-2020"
  Words = {"default", "acme"}
  DefaultWord = "default"
  Cryptosuites = {"eddsa-rdfc-2022", "ed25519-signature-2020", "unknown"}
  Now = 10
  ExchangeTtl = 5
CHECK_DEADLOCK FALSE
INVARIANTS OutcomeIsVerified CompleteShowsNoFatal EarlierFailureStays AnswerTellsWhatWasSaved AnswerFitsItsExchange SignerIsHolder QueriesMeanWhatWasAsked TenantOwnsExchange SignedByItsTenant CreatorReadsItBack WalletFindsItsWay FoundIssuersAreTrusted ClaimsReportedAreHeld
