------------------------------ MODULE Discovery ------------------------------
(***************************************************************************)
(* How a wallet finds its way through OpenID4VCI from the link it scanned:  *)
(* the credential offer, the issuer's and the authorization server's        *)
(* metadata, and the endpoints and names they give.  Each document is built *)
(* in a file of its own, the routes are listed in another, and the          *)
(* credential endpoint holds the request against the template once more.    *)
(***************************************************************************)
EXTENDS WalletRequests, Tenancy

BaseType == "VerifiableCredential"

(* A template is the sequence of its types: creation refused any without the *)
(* base type.  The first of the others names the configuration.              *)
DeriveCredentialConfigurationId(template) ==
  LET nonBase == SelectSeq(template, LAMBDA t : t # BaseType) IN
  IF nonBase = <<>> THEN BaseType ELSE nonBase[1]

CredentialIssuerUrl(x) == <<x.host, "workflows", x.workflow, "exchanges", x.id>>

CredentialOfferUri(x) == Append(CredentialIssuerUrl(x), "openid/credential-offer")

BuildCredentialOffer(x) ==
  [credential_issuer |-> CredentialIssuerUrl(x),
   credential_configuration_ids |-> {DeriveCredentialConfigurationId(x.template)}]

(* The suites of the tenant's issuer instances, or the default.              *)
CryptosuitesForTenant(tenants, tenantName) ==
  LET word == Lower(tenantName).word
      suites == IF word \notin DOMAIN tenants THEN {}
                ELSE {tenants[word][i].cryptosuite : i \in DOMAIN tenants[word]}
  IN IF suites = {} THEN {"eddsa-rdfc-2022"} ELSE suites

BuildSupportedConfiguration(x, tenants) ==
  [types |-> x.template, suites |-> CryptosuitesForTenant(tenants, x.tenantName)]

\* A slip: the configuration is filed under the first type.
MetadataByFirstType(x, tenants) ==
  [credential_issuer |-> CredentialIssuerUrl(x),
   authorization_servers |-> {CredentialIssuerUrl(x)},
   credential_endpoint |-> Append(CredentialIssuerUrl(x), "openid/credential"),
   nonce_endpoint |-> Append(CredentialIssuerUrl(x), "openid/nonce"),
   credential_configurations_supported |->
     [id \in {BuildSupportedConfiguration(x, tenants).types[1]} |->
        BuildSupportedConfiguration(x, tenants)]]

BuildIssuerMetadata(x, tenants) ==
  [credential_issuer |-> CredentialIssuerUrl(x),
   authorization_servers |-> {CredentialIssuerUrl(x)},
   credential_endpoint |-> Append(CredentialIssuerUrl(x), "openid/credential"),
   nonce_endpoint |-> Append(CredentialIssuerUrl(x), "openid/nonce"),
   credential_configurations_supported |->
     [id \in {DeriveCredentialConfigurationId(x.template)} |->
        BuildSupportedConfiguration(x, tenants)]]

BuildOid4vciAsMetadata(x) ==
  [issuer |-> CredentialIssuerUrl(x),
   token_endpoint |-> Append(CredentialIssuerUrl(x), "openid/token")]

-----------------------------------------------------------------------------
(* Routing *)

Route(handler, workflow, id) == [handler |-> handler, workflow |-> workflow, id |-> id]

Nowhere == Route("none", "none", "none")

(* The route of a URL: its path below the exchange, or a well-known document *)
(* with the path of the exchange behind its name.                            *)
RouteOf(url) ==
  LET n == Len(url) IN
  IF n = 6 /\ url[2] = "workflows" /\ url[4] = "exchanges"
  THEN Route(url[6], url[3], url[5])
  ELSE IF n = 7 /\ url[2] = ".well-known" /\ url[4] = "workflows" /\ url[6] = "exchanges"
  THEN Route(url[3], url[5], url[7])
  ELSE Nowhere

(* RFC 8615: the document of an issuer stands between its host and its path. *)
WellKnown(issuer, name) == <<issuer[1], ".well-known", name>> \o Tail(issuer)

(* What a GET of a URL reaches; only a claim exchange has the documents.     *)
Reaches(url, handler, x) == x.workflow = "claim" /\ RouteOf(url) = Route(handler, "claim", x.id)

(* The credential request names the configuration it wants.                  *)
AcceptsConfiguration(x, id) == id = DeriveCredentialConfigurationId(x.template)
=============================================================================
