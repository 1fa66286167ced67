---------------------------- MODULE WalletRequests ----------------------------
(***************************************************************************)
(* What a wallet is asked for and what is checked of its answer: the VPRs  *)
(* of the VC-API, the authorization request of OpenID4VP, the protocols an  *)
(* exchange offers, the fixes applied to an answer, and the acceptance and  *)
(* holder rules.  The asking and the accepting are written far apart in the *)
(* code, and nothing but their agreement makes a wallet's answer pass.      *)
(*                                                                         *)
(* A URL is the tuple of its segments.  Signatures are external: a proof    *)
(* names its signer and commits to a challenge and to domains.              *)
(***************************************************************************)
EXTENDS Naturals, Sequences

CONSTANTS
  BaseContexts,     \* the VCDM v1 and v2 context URLs
  OtherContexts,    \* context URLs of credential types
  LegacySuite       \* ed25519-signature-2020

Contexts == BaseContexts \cup OtherContexts

-----------------------------------------------------------------------------
(* Addresses *)

ServiceEndpoint(x) == <<x.host, "workflows", x.workflow, "exchanges", x.id>>
ResponseUri(x)     == Append(ServiceEndpoint(x), "openid4vp/response")
RequestUri(x)      == Append(ServiceEndpoint(x), "openid4vp/request")
ClientId(x)        == <<"redirect_uri:">> \o ResponseUri(x)

-----------------------------------------------------------------------------
(* Requests *)

\* A slip: only the v1 alternative is asked for.
CredentialQueriesV1(vprContext) ==
  IF vprContext \in {{}} \/ vprContext \cap BaseContexts # {} THEN {vprContext}
  ELSE {vprContext \cup {CHOOSE base \in BaseContexts : TRUE}}

(* The contexts of each QueryByExample.  A wallet takes a credential that    *)
(* has all of those of one of them.                                          *)
CredentialQueries(vprContext) ==
  IF vprContext = {} \/ vprContext \cap BaseContexts # {} THEN {vprContext}
  ELSE {vprContext \cup {base} : base \in BaseContexts}

GetVerifyVPR(x) ==
  [credentials |-> CredentialQueries(x.vprContext), challenge |-> x.challenge,
   domain |-> ServiceEndpoint(x), endpoint |-> ServiceEndpoint(x)]

GetDIDAuthVPR(x) ==
  [credentials |-> {}, challenge |-> x.challenge,
   domain |-> <<x.host>>, endpoint |-> ServiceEndpoint(x)]

(* dcqlQuerySchema refuses a claim without a path, the exchange's own        *)
(* schema does not.                                                          *)
DcqlQueryBuilds(x) == \A claim \in x.vprClaims : claim # <<>>

\* A slip: the request names the response URI, the check wants the client id.
AuthorizationRequestUnprefixed(x) ==
  [client_id |-> ResponseUri(x), response_uri |-> ResponseUri(x),
   nonce |-> x.challenge, state |-> x.state, claims |-> x.vprClaims]

(* The authorization request, for an exchange whose state is minted.         *)
BuildAuthorizationRequest(x) ==
  [client_id |-> ClientId(x), response_uri |-> ResponseUri(x),
   nonce |-> x.challenge, state |-> x.state, claims |-> x.vprClaims]

(* What a wallet must sign and where it sends it, by each protocol offered.  *)
(* The claim exchange's OID4VCI is ClaimExchange's.                          *)
Offer(protocol, challenge, domain, to, state) ==
  [protocol |-> protocol, challenge |-> challenge, domain |-> domain,
   to |-> to, state |-> state]

OfVpr(vpr) == Offer("vcapi", vpr.challenge, vpr.domain, vpr.endpoint, <<>>)

OfAuthorizationRequest(request) ==
  Offer("OID4VP", request.nonce, request.client_id, request.response_uri, request.state)

(* The lcw link of a claim or DIDAuth exchange carries the challenge itself, *)
(* and no domain.                                                            *)
GetProtocols(x) ==
  IF x.workflow = "verify"
  THEN {OfVpr(GetVerifyVPR(x))} \cup
       {OfAuthorizationRequest(BuildAuthorizationRequest(y)) :
          y \in {z \in {x} : DcqlQueryBuilds(z)}}
  ELSE {OfVpr(GetDIDAuthVPR(x)),
        Offer("lcw", x.challenge, <<>>, ServiceEndpoint(x), <<>>)}

-----------------------------------------------------------------------------
(* Answers *)

(* A wallet's answer to an offer: the message it posts, bare or wrapped, and *)
(* in it a presentation with the holder it asserts, if any.  With a single   *)
(* proof the suite context may stand in the proof alone; a presentation with *)
(* other proofs carries a list of them.                                      *)
Proof(purpose, signer, suite, challenge, domain, suiteContext) ==
  [purpose |-> purpose, signer |-> signer, suite |-> suite,
   challenge |-> challenge, domains |-> {domain}, suiteContext |-> suiteContext]

Inner(message) == message.presentation

(* The Ed25519Signature2020 fix looks at a single proof, not at a list.      *)
Ed25519Signature2020Context(p) ==
  IF /\ ~p.list /\ Len(p.proofs) = 1
     /\ p.proofs[1].suite = LegacySuite /\ p.proofs[1].suiteContext
  THEN [p EXCEPT !.suiteContext = TRUE] ELSE p

(* verifyPresentation: some authentication proof over the challenge holds;   *)
(* the legacy suite needs its context at the top level.                      *)
VerifyPresentation(p, challenge) ==
  \E i \in DOMAIN p.proofs :
    /\ p.proofs[i].purpose = "authentication"
    /\ p.proofs[i].challenge = challenge
    /\ p.proofs[i].suite = LegacySuite => p.suiteContext

\* A slip: the first proof is taken for the DIDAuth proof.
DeriveHolderFirst(p, challenge) == p.proofs[1].signer

(* The signer of the first authentication proof, else of the first over the  *)
(* challenge, else of the first.                                             *)
DeriveHolderFromProof(p, challenge) ==
  LET authentication == {i \in DOMAIN p.proofs : p.proofs[i].purpose = "authentication"}
      challenged     == {i \in DOMAIN p.proofs : p.proofs[i].challenge = challenge}
      candidates     == IF authentication # {} THEN authentication
                        ELSE IF challenged # {} THEN challenged ELSE {1}
  IN p.proofs[CHOOSE i \in candidates : \A j \in candidates : i <= j].signer

(* POST to the exchange, of either VC-API workflow.                          *)
VerifyMessage(x, message) ==
  VerifyPresentation(Ed25519Signature2020Context(Inner(message)), x.challenge)

HolderOf(x, message) ==
  DeriveHolderFromProof(Ed25519Signature2020Context(Inner(message)), x.challenge)

(* A claim exchange refuses a presentation that asserts a holder other than  *)
(* the signer; a DIDAuth exchange pays no heed to it.                        *)
HolderAgrees(x, message) ==
  x.workflow = "claim" => Inner(message).asserted \subseteq {HolderOf(x, message)}

BindsAudience(p, clientId) == \E i \in DOMAIN p.proofs : clientId \in p.proofs[i].domains

(* POST of a direct_post response.                                           *)
HandleOid4vpAnswer(x, message, state) ==
  /\ state = x.state
  /\ BindsAudience(Inner(message), ClientId(x))
  /\ VerifyMessage(x, message)

(* Whether exchange x takes an answer sent to one of its addresses.          *)
Takes(x, offer, message) ==
  IF offer.protocol = "OID4VP"
  THEN x.workflow = "verify" /\ HandleOid4vpAnswer(x, message, offer.state)
  ELSE VerifyMessage(x, message) /\ HolderAgrees(x, message)
=============================================================================
