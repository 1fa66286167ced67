------------------------------ MODULE Decisions ------------------------------
(***************************************************************************)
(* The decisions the service takes on data, each checked over every case of *)
(* a small instance: a state is one case, taken through its steps.          *)
(*   "verdict"   the Open Badges passes over a presentation's results       *)
(*   "creation"  a request that creates one exchange or a batch             *)
(*   "answer"    a wallet's answer to what exchange x asked, given to y     *)
(*   "query"     a credential held against the contexts asked for           *)
(*   "tenant"    who may create, read and sign                              *)
(*   "caller"    the ways a tenant may identify itself                      *)
(*   "offer"     a claim exchange as OpenID4VCI presents it to a wallet     *)
(*   "trust"     the issuers of two credentials against who is trusted      *)
(*   "claims"    two credentials against the claims asked for               *)
(***************************************************************************)
EXTENDS Verdict, ExchangeCreation, Discovery, Authentication, Registries, Matching

\* No tenant and no token is called "undefined".
ASSUME CallersAssumption == None \notin Words \cup {"s1", "s2"}

(* The issuer instances that are read from the entries of TenantCase and     *)
(* OfferCase; none of them is undefined.                                     *)
Instance == [id : {"did:first", "did:second"}, cryptosuite : Cryptosuites, signingTenant : Name]

ASSUME InstancesAssumption == "eddsa-rdfc-2022" \in Cryptosuites /\ None \notin Instance

VARIABLE asked

Has(about) == asked.about = about

-----------------------------------------------------------------------------
(* The cases *)

Passed == [failed |-> FALSE, fatal |-> TRUE]
Minor  == [failed |-> TRUE, fatal |-> FALSE]
Fatal  == [failed |-> TRUE, fatal |-> TRUE]

(* The core and registry checks of either pass; the Open Badges check, and   *)
(* a failure that is not fatal, only in the second.                          *)
FirstFindings  == {f \in Findings : /\ DOMAIN f \cap (Checks \ RegistryChecks) = {"core.proof"}
                                    /\ \A id \in DOMAIN f : f[id] \in {Passed, Fatal}}
SecondFindings == {f \in Findings : /\ "openbadges.schema" \in DOMAIN f
                                    /\ \A id \in DOMAIN f : f[id] \in {Passed, Minor, Fatal}}

VerdictCase ==
  \E trusts, passed \in BOOLEAN, f, g \in FirstFindings :
    LET results == CorePresentation(passed, <<CoreCredential(f), CoreCredential(g)>>) IN
    asked = [about |-> "verdict", trusts |-> trusts, first |-> results,
             merged |-> results, next |-> 1]

CreationCase ==
  \E batch, batchId \in BOOLEAN, workflow \in {"claim", "didAuth"},
     expires \in {0, Now - 1, Now + 1}, r, s \in Row, rows \in 1..2 :
    /\ ~batch => rows = 1
    /\ rows = 1 => s = r
    /\ asked = [about |-> "creation", creation |-> Asked(
         [batch |-> batch, batchId |-> batchId, workflow |-> workflow,
          expires |-> expires, rows |-> IF rows = 1 THEN <<r>> ELSE <<r, s>>])]

ExchangeOf(id, workflow, claims) ==
  [id |-> id, workflow |-> workflow, host |-> "https://host",
   challenge |-> <<"challenge", id>>, state |-> <<"state", id>>,
   vprContext |-> {}, vprClaims |-> claims]

(* How a wallet answers: it signs alone, or another party's proof stands     *)
(* before or after, and it names no holder, itself or the other party.       *)
Manners ==
  [suite : Cryptosuites, context : {"top", "proof", "none"},
   place : {"alone", "before", "after"}, asserted : {{}, {"wallet"}, {"other"}}]

(* The claims ask for nothing, for a path, or for a path that is empty.      *)
AnswerCase ==
  \E workflow, other \in {"claim", "didAuth", "verify"}, claims \in {{}, {<<"name">>}, {<<>>}},
     same \in BOOLEAN, manner \in Manners :
    LET x == ExchangeOf("x", workflow, claims) IN
    /\ same => other = workflow
    /\ asked = [about |-> "answer", x |-> x, manner |-> manner,
                y |-> IF same THEN x ELSE ExchangeOf("y", other, {})]

QueryCase ==
  \E vprContext, held \in SUBSET Contexts :
    /\ held \cap BaseContexts # {}
    /\ asked = [about |-> "query", vprContext |-> vprContext, held |-> held]

Entry == [id : {"did:first", "did:second", None}, cryptosuite : Cryptosuites \cup {None},
          signingTenant : {None, [word |-> DefaultWord, upper |-> TRUE]}]

TenantCase ==
  \E tokens \in SUBSET Words, first, second \in Entry,
     body \in Name \cup {None}, defaultWord \in Words :
    /\ first.id # "did:second" /\ second.id # "did:first"
    /\ \E auth \in IF tokens = {} THEN {None} ELSE {LowerName(w) : w \in tokens} :
         asked = [about |-> "tenant", body |-> body, auth |-> auth,
                  default |-> LowerName(defaultWord),
                  env |-> [tokens |-> tokens,
                           issuers |-> [w \in Words |-> IF w = DefaultWord
                                          THEN <<first, second>> ELSE <<first>>]]]

CallerCase ==
  \E known \in SUBSET Words, accessSecret \in BOOLEAN : \E tokens \in [known -> {"s1", "s2"}] :
    asked = [about |-> "caller",
             config |-> [tokens |-> tokens, accessSecret |-> accessSecret]]

Templates == {<<BaseType>>, <<BaseType, "OpenBadgeCredential">>, <<"Diploma", BaseType>>,
              <<BaseType, "OpenBadgeCredential", "Diploma">>}

OfferCase ==
  \E template \in Templates, name \in Name, tokens \in SUBSET Words, first, second \in Entry :
    /\ first.id # "did:second" /\ second.id # "did:first"
    /\ asked = [about |-> "offer",
                x |-> [id |-> "x", workflow |-> "claim", host |-> "https://host",
                       template |-> template, tenantName |-> name],
                env |-> [tokens |-> tokens,
                         issuers |-> [w \in Words |-> IF w = DefaultWord
                                        THEN <<first, second>> ELSE <<second>>]]]

(* Names of each kind: known from the code under its own name or another,    *)
(* given by the environment, unknown.                                        *)
RegistryNames == {"DCC Sandbox Registry", "DCC Registry", "OIDF_S", "VC_RECOGNITION_S", "Unknown"}
Issuers == {"did:one", "did:two"}

RegistryEnv(anchor, url, acceptedIssuers) ==
  [oidf |-> [n \in {"OIDF_S"} |-> anchor],
   recognition |-> [n \in {"VC_RECOGNITION_S"} |->
                      [url |-> url, acceptedIssuers |-> acceptedIssuers]]]

RegistryEnvs == {RegistryEnv(None, None, {}), RegistryEnv("https://anchor", "https://list", {}),
                 RegistryEnv("https://anchor", "https://list", {"did:list"})}

TrustCase ==
  \E trustedIssuers \in SUBSET Issuers, trustedRegistries \in SUBSET RegistryNames,
     env \in RegistryEnvs, verbose \in BOOLEAN, second \in Issuers,
     place \in RegistryNames \cup {"https://anchor", "https://list"} :
    asked = [about |-> "trust", trustedIssuers |-> trustedIssuers,
             trustedRegistries |-> trustedRegistries, verbose |-> verbose,
             issuers |-> <<"did:one", second>>, listing |-> {<<place, "did:one">>}, env |-> env]

A == <<"a">>
B == <<"b">>
AB == <<"a", "b">>

Held == UNION {[paths -> {"v", "w"}] :
                 paths \in {{}, {<<A>>}, {<<A>>, <<A, B>>}, {<<AB>>}, {<<A>>, <<AB>>},
                            {<<A>>, <<A, B>>, <<AB>>}}}

Required == [path : {<<>>, <<A>>, <<A, B>>, <<AB>>}, values : {{}, {"v"}, {"v", "w"}}]

ClaimsCase ==
  \E first, second \in Held, one, two \in Required :
    asked = [about |-> "claims", credentials |-> <<first, second>>, claims |-> <<one, two>>]

Init == \/ VerdictCase \/ CreationCase \/ AnswerCase \/ QueryCase \/ TenantCase
        \/ CallerCase \/ OfferCase \/ TrustCase \/ ClaimsCase

-----------------------------------------------------------------------------
(* The steps *)

Creation(step) == asked' = [asked EXCEPT !.creation = step]

(* The worker merges the pass over the next badge.                           *)
Recheck ==
  /\ Has("verdict") /\ asked.next \in DOMAIN asked.merged.credentialResults
  /\ \E findings \in SecondFindings :
       asked' = [asked EXCEPT !.next = @ + 1,
         !.merged = MergeOpenBadgesResultsAt(@, asked.next, CoreVerified(findings), findings)]

ParseBody == /\ Has("creation") /\ asked.creation.answer = "unparsed"
             /\ Creation(ParseRequest(asked.creation))
BuildRow  == /\ Has("creation") /\ ToBuild(asked.creation)
             /\ Creation(BuildExchange(asked.creation))
SaveRow   == /\ Has("creation") /\ ReadyToSave(asked.creation)
             /\ Creation(SaveNext(asked.creation))
SaveFails == /\ Has("creation") /\ ReadyToSave(asked.creation)
             /\ Creation(FailSave(asked.creation))

Next == Recheck \/ ParseBody \/ BuildRow \/ SaveRow \/ SaveFails

Spec == Init /\ [][Next]_asked

-----------------------------------------------------------------------------
(* Properties: verdicts *)

(* The worker decides by the flag alone, the synchronous pass also looks     *)
(* through the checks: on what the worker has merged the two agree           *)
(* (determineExchangeOutcome, processVerifyTask).                            *)
OutcomeIsVerified ==
  Has("verdict") =>
    FinalState(asked.merged) =
      DetermineExchangeOutcome(asked.merged.verified,
                               asked.merged.credentialResults, asked.trusts)

(* A complete exchange shows no fatal failure of any check of any pass, kept *)
(* or replaced (mergeResults, mergeOpenBadgesResultsAt).                     *)
CompleteShowsNoFatal ==
  Has("verdict") /\ FinalState(asked.merged) = "complete" =>
    \A i \in DOMAIN asked.merged.credentialResults :
      CoreVerified(asked.merged.credentialResults[i].results)

(* A later pass does not hide what an earlier one found wrong, unless it is a *)
(* registry's answer, which the later pass asked for again (mergeResults).   *)
EarlierFailureStays ==
  Has("verdict") =>
    \A i \in DOMAIN asked.first.credentialResults :
      LET before == asked.first.credentialResults[i].results
          now    == asked.merged.credentialResults[i].results
      IN \A id \in DOMAIN before \ RegistryChecks :
           FatalFailure(before[id]) => id \in DOMAIN now /\ FatalFailure(now[id])

(* Properties: creation *)

(* The answer tells what was saved: a request that is refused leaves no      *)
(* exchange behind, however many of its rows were fine, and one that is      *)
(* answered with exchanges has saved every one (createExchangeBatch builds   *)
(* all before it saves any, and awaits every save).  All of them can then be *)
(* read, unless the request gave an `expires` that is past: such an exchange *)
(* is answered too, and nobody can read it (saveExchange's time to live).    *)
AnswerTellsWhatWasSaved ==
  Has("creation") =>
    LET creation == asked.creation IN
    /\ creation.answer = "refused" => creation.saved = {}
    /\ creation.answer = "created" =>
         /\ creation.saved = DOMAIN Rows(creation)
         /\ \/ creation.readable = DOMAIN Rows(creation)
            \/ ~creation.request.batch /\ creation.request.expires \in 1..(Now - 1)

(* schema.ts: "Must be ISO 8601 format datetime in the future."              *)
AcceptedExpiresInFuture ==
  Has("creation") /\ asked.creation.answer = "created" =>
    ExpiresOf(asked.creation.request) > Now

(* Properties: requests and answers *)

(* The message of a wallet that signs what it was asked to sign, for the     *)
(* exchange that asked.                                                      *)
AnswerTo(offer) ==
  LET manner == asked.manner
      legacy == manner.suite = LegacySuite
      signed == Proof("authentication", "wallet", manner.suite, offer.challenge,
                      offer.domain, legacy /\ manner.context = "proof")
      foreign == Proof("assertionMethod", "other", manner.suite, <<>>, <<>>, FALSE)
  IN [presentation |->
       [proofs |-> CASE manner.place = "alone"  -> <<signed>>
                     [] manner.place = "before" -> <<foreign, signed>>
                     [] manner.place = "after"  -> <<signed, foreign>>,
        list |-> manner.place # "alone", asserted |-> manner.asserted,
        suiteContext |-> legacy /\ manner.context = "top"]]

(* ...of which the service has to make sense: with the legacy suite, the     *)
(* suite context is at the top or in the only proof; and who claims a        *)
(* credential asserts no other holder.                                       *)
Intelligible ==
  /\ asked.manner.suite = LegacySuite =>
       \/ asked.manner.context = "top"
       \/ asked.manner.context = "proof" /\ asked.manner.place = "alone"
  /\ asked.x.workflow = "claim" => asked.manner.asserted \subseteq {"wallet"}

(* What any offer of an exchange asks for is what its handler checks, and no *)
(* other exchange takes that answer (getProtocols, the VPRs, the             *)
(* authorization request against verifyDIDAuth, participateInVerifyExchange  *)
(* and handleOid4vpResponse).                                                *)
AnswerFitsItsExchange ==
  Has("answer") /\ Intelligible =>
    \A offer \in GetProtocols(asked.x) :
      Takes(asked.y, offer, AnswerTo(offer)) <=> asked.x = asked.y

(* Whoever the credential will be issued to, or the DIDAuth result names,    *)
(* signed the challenge, wherever its proof stands and whomever the          *)
(* presentation asserts; and none is issued to a wallet that asserts another *)
(* holder (deriveHolderFromProof, participateInClaimExchange).               *)
SignerIsHolder ==
  Has("answer") /\ asked.x.workflow # "verify" =>
    \A offer \in GetProtocols(asked.x) :
      Takes(asked.x, offer, AnswerTo(offer)) =>
        /\ HolderOf(asked.x, AnswerTo(offer)) = "wallet"
        /\ asked.x.workflow = "claim" => asked.manner.asserted \subseteq {"wallet"}

(* A credential, of either version of the data model, answers one of the     *)
(* queries exactly if it has every context that was asked for (getVerifyVPR).*)
QueriesMeanWhatWasAsked ==
  Has("query") =>
    ((\E q \in CredentialQueries(asked.vprContext) : q \subseteq asked.held)
       <=> asked.vprContext \subseteq asked.held)

(* Properties: tenants *)

CreatedFor == ResolveExchangeTenant(asked.body, asked.auth, asked.default)

(* With authentication on, an exchange belongs to the tenant that created it *)
(* and to no other: that tenant reads it, and its entry in the configuration *)
(* is the one that signs (resolveExchangeTenant, the GET's tenant check).    *)
TenantOwnsExchange ==
  Has("tenant") /\ asked.auth # None /\ CreatedFor # None =>
    /\ Lower(CreatedFor).word = asked.auth.word
    /\ \A w \in asked.env.tokens :
         MayRead(CreatedFor, LowerName(w)) <=> LowerName(w) = asked.auth

(* A credential is signed by an instance of its exchange's tenant: one the   *)
(* wallet can use if there is one, never an older suite than another choice  *)
(* had (selectIssuerInstance).  Without instances the tenant itself signs.   *)
WalletProofs == SUBSET [type : {"DataIntegrityProof", "Ed25519Signature2020"},
                        cryptosuite : Cryptosuites \cup {None}]

Fits(instance, suites) == suites = {} \/ instance.cryptosuite \in suites

SignedByItsTenant ==
  Has("tenant") /\ CreatedFor # None =>
    LET tenants == Tenants(asked.env)
        word    == Lower(CreatedFor).word
        mine    == IF word \in DOMAIN tenants
                   THEN {tenants[word][i] : i \in DOMAIN tenants[word]} ELSE {}
    IN \A proofs \in WalletProofs :
         LET signed == SignedFor(tenants, CreatedFor, proofs)
             suites == ExtractWalletCryptosuites(proofs)
         IN IF mine = {}
            THEN signed = [issuer |-> None, signingTenant |-> CreatedFor]
            ELSE \E instance \in mine :
                   /\ instance.id = signed.issuer
                   /\ instance.signingTenant = signed.signingTenant
                   /\ \A better \in mine :
                        Fits(better, suites) =>
                          /\ Fits(instance, suites)
                          /\ CryptosuiteRank(instance.cryptosuite)
                               <= CryptosuiteRank(better.cryptosuite)

(* The ways tenant w may identify itself: its name, in any case, with its    *)
(* token; the token alone if no other tenant has the same; an access token   *)
(* bought with the two.                                                      *)
IdentifiesItself(config, w) ==
  LET names == {name \in Name : Lower(name).word = w}
      token == config.tokens[w]
  IN {Basic(name, token) : name \in names}
     \cup {Bearer(TenantToken(t)) : t \in {t \in {token} :
              \A v \in DOMAIN config.tokens \ {w} : config.tokens[v] # t}}
     \cup {Bearer(t) : t \in UNION {HandleOAuthTokenPost(config, name, token) : name \in names}}

(* Whichever way a tenant identified itself when it created an exchange, it  *)
(* reads that exchange whichever way it does so now, and no other tenant     *)
(* does (the two middlewares, the token endpoint, resolveExchangeTenant and  *)
(* the GET's tenant check).                                                  *)
CreatorReadsItBack ==
  Has("caller") =>
    \A v, w \in DOMAIN asked.config.tokens :
      \A c \in IdentifiesItself(asked.config, v), d \in IdentifiesItself(asked.config, w) :
        LET creator == AuthenticateTenantMiddleware(asked.config, c)
            reader  == AuthenticateExchangeOrTenantMiddleware(asked.config, None, d, "x")
            owner   == ResolveExchangeTenant(None, creator.tenant, LowerName(DefaultWord))
        IN /\ creator.who = "tenant" /\ reader.who = "tenant"
           /\ MayRead(owner, reader.tenant) <=> v = w

(* Properties: OpenID4VCI discovery *)

(* A suite the metadata advertise is the one a wallet gets its credential in *)
(* if it proves itself with it and the tenant has instances.                 *)
AdvertisedSuitesAreUsed(tenants, tenantName) ==
  \A suite \in CryptosuitesForTenant(tenants, tenantName) :
    LET word   == Lower(tenantName).word
        signed == SignedFor(tenants, tenantName,
                    {[type |-> "DataIntegrityProof", cryptosuite |-> suite]})
    IN signed.issuer # None =>
         \E i \in DOMAIN tenants[word] :
           /\ tenants[word][i].id = signed.issuer
           /\ tenants[word][i].cryptosuite = suite

(* A wallet that takes the offer, looks up the metadata the way RFC 8615     *)
(* says and follows what they give finds its own exchange behind every URL,  *)
(* a configuration the credential endpoint accepts, and suites it signs with *)
(* (credential-offer.ts, issuer-metadata.ts, as-metadata.ts, the routes,     *)
(* selectIssuerInstance).                                                    *)
WalletFindsItsWay ==
  Has("offer") =>
    LET x        == asked.x
        offer    == BuildCredentialOffer(x)
        issuer   == offer.credential_issuer
        metadata == BuildIssuerMetadata(x, Tenants(asked.env))
        server   == BuildOid4vciAsMetadata(x)
    IN /\ Reaches(CredentialOfferUri(x), "openid/credential-offer", x)
       /\ Reaches(WellKnown(issuer, "openid-credential-issuer"), "openid-credential-issuer", x)
       /\ metadata.credential_issuer = issuer
       /\ \A as \in metadata.authorization_servers :
            /\ Reaches(WellKnown(as, "oauth-authorization-server"),
                       "oauth-authorization-server", x)
            /\ server.issuer = as
       /\ Reaches(server.token_endpoint, "openid/token", x)
       /\ Reaches(metadata.nonce_endpoint, "openid/nonce", x)
       /\ Reaches(metadata.credential_endpoint, "openid/credential", x)
       /\ \A id \in offer.credential_configuration_ids :
            /\ id \in DOMAIN metadata.credential_configurations_supported
            /\ AcceptsConfiguration(x, id)
       /\ AdvertisedSuitesAreUsed(Tenants(asked.env), x.tenantName)

(* Properties: what a result says of issuers and claims *)

DefaultNames == {"DCC Sandbox Registry", "DCC Issuer Registry"}
Known == BuildKnownRegistries(asked.env)
SyncRegistries == RegistriesOf(asked.trustedRegistries, DefaultNames, Known)
LaterRegistries == DefaultResolveRegistries(asked.trustedRegistries, DefaultNames, Known)

ShownCredentials ==
  [i \in DOMAIN asked.issuers |->
     [issuer |-> asked.issuers[i],
      checks |-> RegistryChecksOf(asked.issuers[i], SyncRegistries,
                                  asked.listing, asked.verbose)]]

IssuersReported ==
  IssuerValidation(ShownCredentials, asked.trustedIssuers, asked.trustedRegistries)

(* A result that calls the issuers found shows no credential whose issuer is *)
(* neither among the trusted ones nor in a registry the exchange trusts; nor *)
(* do the registry answers of the Open Badges pass, which replace the others *)
(* in the result and leave the report as it was, say otherwise               *)
(* (validateTrustedIssuers, mapRegistryNamesToRegistries and                 *)
(* defaultResolveRegistries).                                                *)
FoundIssuersAreTrusted ==
  Has("trust") /\ IssuersReported # None =>
    (IssuersReported.issuerFound =>
       \A i \in DOMAIN asked.issuers, pass \in {SyncRegistries, LaterRegistries} :
         \/ asked.issuers[i] \in asked.trustedIssuers
         \/ \E r \in pass : <<r.url, asked.issuers[i]>> \in asked.listing)

(* As long as no two claims share a key, a result says that the claims match *)
(* exactly if one credential holds them all, each with a value asked for;    *)
(* and the values it extracted are held by such a credential.                *)
HoldsClaims(credential) ==
  \A i \in DOMAIN asked.claims :
    LET claim == asked.claims[i] IN
    Asks(claim) => /\ claim.path \in DOMAIN credential
                   /\ claim.values = {} \/ credential[claim.path] \in claim.values

ClaimsReportedAreHeld ==
  Has("claims") /\ (\A i, j \in DOMAIN asked.claims :
       PathKey(asked.claims[i].path) = PathKey(asked.claims[j].path)
         => asked.claims[i].path = asked.claims[j].path) =>
    LET report == ClaimsValidation(asked.credentials, asked.claims)
        holding == {i \in DOMAIN asked.credentials : HoldsClaims(asked.credentials[i])}
    IN /\ report.matched <=> holding # {}
       /\ \A i \in DOMAIN asked.claims :
            PathKey(asked.claims[i].path) \in DOMAIN report.extractedClaims =>
              \E k \in holding :
                /\ asked.claims[i].path \in DOMAIN asked.credentials[k]
                /\ report.extractedClaims[PathKey(asked.claims[i].path)]
                     = asked.credentials[k][asked.claims[i].path]
=============================================================================
