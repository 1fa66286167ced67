--------------------------- MODULE ClaimExchange ---------------------------
(***************************************************************************)
(* One claim exchange and the requests that act on it: the OpenID4VCI      *)
(* credential offer, token, nonce and credential endpoints, and the VC-API *)
(* POST with an empty body or with a DIDAuth presentation.  All of them    *)
(* read the record, build a new one from what they read and save it whole  *)
(* with saveExchange.  Between the read and the save they may await the    *)
(* request's body, the DIDAuth verifier, the status service and the        *)
(* signing service.                                                        *)
(*                                                                         *)
(* Requests of different exchanges share nothing, so there is one          *)
(* exchange.  A random code, token, nonce or credential bears the name of  *)
(* the request that made it.  As in VerifyExchange a step is what one      *)
(* request does between two awaits; with StoreYields a store access yields *)
(* too, and as nothing but the store is shared the requests may then as    *)
(* well be served by several replicas.                                     *)
(***************************************************************************)
EXTENDS Naturals, FiniteSets

CONSTANTS
  OfferGets,        \* GET  .../openid/credential-offer
  TokenPosts,       \* POST .../openid/token
  NoncePosts,       \* POST .../openid/nonce
  CredentialPosts,  \* POST .../openid/credential
  EmptyPosts,       \* POST of the exchange with an empty body
  VcapiPosts,       \* POST of the exchange with a DIDAuth presentation
  None,             \* "undefined"; as something presented, a wrong value
  StatusService,    \* config.statusService is set
  StoreYields,      \* Redis
  MaxInFlight,      \* how many requests the clients make at a time
  MaxFaults         \* bound: crashes and failed store accesses

Issuing  == CredentialPosts \cup VcapiPosts
Requests == OfferGets \cup TokenPosts \cup NoncePosts \cup EmptyPosts \cup Issuing
Secrets  == OfferGets \cup TokenPosts \cup NoncePosts

ASSUME ClaimNoneAssumption == None \notin Requests
\* Requests of different endpoints are different requests.
ASSUME ClaimKindsAssumption ==
  /\ CredentialPosts \cap VcapiPosts = {} /\ Issuing \cap (Secrets \cup EmptyPosts) = {}
  /\ OfferGets \cap TokenPosts = {} /\ (OfferGets \cup TokenPosts) \cap NoncePosts = {}
  /\ EmptyPosts \cap Secrets = {}
ASSUME ClaimFlagsAssumption == StatusService \in BOOLEAN /\ StoreYields \in BOOLEAN
ASSUME ClaimBoundsAssumption == MaxInFlight \in Nat /\ MaxFaults \in Nat

VARIABLES
  store,    \* the Keyv record
  lapsed,   \* the codes, tokens and nonces past their own expiry
  handler,  \* the requests
  turn,     \* the request that holds the event loop
  handed,   \* the codes, tokens, nonces and credentials some response carried
  spent,    \* <<s, r>>: request r presented s and it was accepted
  signed,   \* the credentials the signing service has signed
  faults

vars == <<store, lapsed, handler, turn, handed, spent, signed, faults>>

ClaimState == {"none", "pending", "active", "complete", "expired"}

Claim == [state : ClaimState,
          code  : OfferGets \cup {None},  codeUsed  : BOOLEAN,
          token : TokenPosts \cup {None},
          nonce : NoncePosts \cup {None}, nonceUsed : BOOLEAN,
          credential : Issuing \cup {None}]

Blank(state) == [state |-> state, code |-> None, codeUsed |-> FALSE, token |-> None,
                 nonce |-> None, nonceUsed |-> FALSE, credential |-> None]

NewClaim == Blank("pending")

ClaimPc == {"idle", "body", "proof", "allocate", "sign", "save", "done"}

ClaimHandler == [pc : ClaimPc, snap : Claim, next : Claim]

Resting(pc) == [pc |-> pc, snap |-> Blank("none"), next |-> Blank("none")]

Init ==
  /\ store = Blank("none")
  /\ lapsed = {}
  /\ handler = [r \in Requests |-> Resting("idle")]
  /\ turn = None
  /\ handed = {} /\ spent = {} /\ signed = {}
  /\ faults = 0

-----------------------------------------------------------------------------
(* variables.oid4vci *)

LiveCode(x) == x.code # None /\ ~x.codeUsed /\ x.code \notin lapsed

\* A slip: the offer is stamped on a new record, not on the one read.
EnsureCodeAfresh(x, o) == [NewClaim EXCEPT !.code = o]

EnsurePreAuthorizedCode(x, o) == [x EXCEPT !.code = o, !.codeUsed = FALSE]

Redeemable(x, presented) == LiveCode(x) /\ x.code = presented

\* Slips: the code is not marked used; the token is the code itself.
RedeemUnmarked(x) == x
SetCodeAsToken(x, t) == [x EXCEPT !.token = x.code]

RedeemPreAuthorizedCode(x) == [x EXCEPT !.codeUsed = TRUE]
SetAccessToken(x, t)       == [x EXCEPT !.token = t]

\* A slip: "undefined" matches a token that was never issued.
ValidWithoutToken(x, presented) == x.token \notin lapsed /\ x.token = presented

ValidateAccessToken(x, presented) ==
  x.token # None /\ x.token \notin lapsed /\ x.token = presented

MintNonce(x, n) == [x EXCEPT !.nonce = n, !.nonceUsed = FALSE]

AcceptableNonce(x, presented) ==
  x.nonce # None /\ ~x.nonceUsed /\ x.nonce \notin lapsed /\ x.nonce = presented

ConsumeNonce(x) == [x EXCEPT !.nonceUsed = TRUE]

\* A slip: a completed exchange is not told from an open one.
NeverIssued(x) == FALSE

AlreadyIssued(x) == x.state = "complete"

\* A slip: the state is set, the result is not.
CompletedBare(x, r) == [x EXCEPT !.state = "complete"]

Completed(x, r) == [x EXCEPT !.state = "complete", !.credential = r]

-----------------------------------------------------------------------------
(* The event loop and the store *)

HasTurn(r) == turn \in {None, r}

Continue(r) == turn' = IF StoreYields THEN None ELSE r

Yield == turn' = None

Put(x) == store' = IF store.state = "expired" THEN store ELSE x

InFlight == {r \in Requests : handler[r].pc \notin {"idle", "done"}}

(* A request reads the record; an unknown exchange answers 404.              *)
Starts(r) ==
  /\ handler[r].pc = "idle" /\ HasTurn(r)
  /\ store.state \notin {"none", "expired"}
  /\ Cardinality(InFlight) < MaxInFlight

Goes(r, pc, snap, next) ==
  handler' = [handler EXCEPT ![r] = [pc |-> pc, snap |-> snap, next |-> next]]

Ends(r) == handler' = [handler EXCEPT ![r] = Resting("done")]

(* What is saved next is built from the snapshot of the request.             *)
Saves(r, snap, next) == Goes(r, "save", snap, next) /\ Continue(r)

Awaits(r, pc, snap) == Goes(r, pc, snap, Blank("none")) /\ Yield

Refused(r) == Ends(r) /\ Yield /\ UNCHANGED <<spent, signed>>

-----------------------------------------------------------------------------
CreateExchangeClaim ==
  /\ store.state = "none"
  /\ store' = NewClaim
  /\ UNCHANGED <<lapsed, handler, turn, handed, spent, signed, faults>>

(* The offer is answered with the live code, or a new one is minted.         *)
GetCredentialOffer(o) ==
  /\ Starts(o)
  /\ \/ /\ LiveCode(store)
        /\ handed' = handed \cup {store.code}
        /\ Ends(o) /\ Yield
     \/ /\ ~LiveCode(store)
        /\ Saves(o, store, EnsurePreAuthorizedCode(store, o))
        /\ UNCHANGED handed
  /\ UNCHANGED <<store, lapsed, spent, signed, faults>>

(* The record is read before the form body has arrived.                      *)
PostToken(t) ==
  /\ Starts(t)
  /\ Awaits(t, "body", store)
  /\ UNCHANGED <<store, lapsed, handed, spent, signed, faults>>

HandleTokenRequest(t) ==
  LET x == handler[t].snap IN
  /\ t \in TokenPosts /\ handler[t].pc = "body" /\ HasTurn(t)
  /\ \E presented \in (handed \cap OfferGets) \cup {None} :
       \/ /\ Redeemable(x, presented)
          /\ Saves(t, x, SetAccessToken(RedeemPreAuthorizedCode(x), t))
          /\ spent' = spent \cup {<<presented, t>>}
          /\ UNCHANGED signed
       \/ ~Redeemable(x, presented) /\ Refused(t)
  /\ UNCHANGED <<store, lapsed, handed, faults>>

PostNonce(n) ==
  /\ Starts(n)
  /\ Saves(n, store, MintNonce(store, n))
  /\ UNCHANGED <<store, lapsed, handed, spent, signed, faults>>

PostCredential(c) ==
  /\ Starts(c)
  /\ Awaits(c, "body", store)
  /\ UNCHANGED <<store, lapsed, handed, spent, signed, faults>>

(* Token, completed exchange, nonce, in this order: all on the snapshot.     *)
HandleCredentialRequest(c) ==
  LET x == handler[c].snap IN
  /\ c \in CredentialPosts /\ handler[c].pc = "body" /\ HasTurn(c)
  /\ \E token \in (handed \cap TokenPosts) \cup {None},
        nonce \in (handed \cap NoncePosts) \cup {None} :
       LET accepted == /\ ValidateAccessToken(x, token)
                       /\ ~AlreadyIssued(x)
                       /\ AcceptableNonce(x, nonce)
       IN \/ /\ accepted
             /\ Awaits(c, "proof", ConsumeNonce(x))
             /\ spent' = spent \cup {<<token, c>>, <<nonce, c>>}
             /\ UNCHANGED signed
          \/ ~accepted /\ Refused(c)
  /\ UNCHANGED <<store, lapsed, handed, faults>>

(* POST of the exchange with an empty body.                                  *)
PostEmpty(p) ==
  /\ Starts(p)
  /\ store.state = "pending"
  /\ Saves(p, store, [store EXCEPT !.state = "active"])
  /\ UNCHANGED <<store, lapsed, handed, spent, signed, faults>>

(* POST of the exchange with a presentation.                                 *)
PostDidAuth(v) ==
  /\ Starts(v)
  /\ ~AlreadyIssued(store)
  /\ Awaits(v, "proof", store)
  /\ UNCHANGED <<store, lapsed, handed, spent, signed, faults>>

(* verifyDIDAuth answers.  A proof that fails, or whose holder is missing or *)
(* another one, is refused; nothing was saved, the nonce's use included.     *)
ProofAnswers(r) ==
  /\ handler[r].pc = "proof" /\ HasTurn(r)
  /\ \/ /\ Awaits(r, IF StatusService THEN "allocate" ELSE "sign", handler[r].snap)
        /\ UNCHANGED <<spent, signed>>
     \/ Refused(r)
  /\ UNCHANGED <<store, lapsed, handed, faults>>

(* The status service answers, or fails the request.                         *)
StatusAnswers(r) ==
  /\ handler[r].pc = "allocate" /\ HasTurn(r)
  /\ \/ Awaits(r, "sign", handler[r].snap) /\ UNCHANGED <<spent, signed>>
     \/ Refused(r)
  /\ UNCHANGED <<store, lapsed, handed, faults>>

(* The signing service has signed, or fails the request.                     *)
SigningAnswers(r) ==
  /\ handler[r].pc = "sign" /\ HasTurn(r)
  /\ \/ /\ Saves(r, handler[r].snap, Completed(handler[r].snap, r))
        /\ signed' = signed \cup {r}
        /\ UNCHANGED spent
     \/ Refused(r)
  /\ UNCHANGED <<store, lapsed, handed, faults>>

(* saveExchange, and the response that carries what the request made.        *)
SaveExchange(r) ==
  /\ handler[r].pc = "save" /\ HasTurn(r)
  /\ Put(handler[r].next)
  /\ handed' = handed \cup ({r} \ EmptyPosts)
  /\ Ends(r) /\ Yield
  /\ UNCHANGED <<lapsed, spent, signed, faults>>

-----------------------------------------------------------------------------
(* The environment *)

SecretLapses ==
  /\ \E s \in {store.code, store.token, store.nonce} \ (lapsed \cup {None}) :
       lapsed' = lapsed \cup {s}
  /\ UNCHANGED <<store, handler, turn, handed, spent, signed, faults>>

Expire ==
  /\ store.state \notin {"none", "expired"}
  /\ store' = Blank("expired")
  /\ UNCHANGED <<lapsed, handler, turn, handed, spent, signed, faults>>

(* A store access throws; or a set succeeds and its answer is lost.          *)
StoreFault(r) ==
  /\ faults < MaxFaults /\ faults' = faults + 1
  /\ handler[r].pc = "save" /\ HasTurn(r)
  /\ UNCHANGED store \/ Put(handler[r].next)
  /\ Ends(r) /\ Yield
  /\ UNCHANGED <<lapsed, handed, spent, signed>>

(* The process dies: its requests end without an answer.                     *)
Crash ==
  /\ faults < MaxFaults /\ faults' = faults + 1
  /\ InFlight # {}
  /\ handler' = [r \in Requests |->
       IF r \in InFlight THEN Resting("done") ELSE handler[r]]
  /\ Yield
  /\ UNCHANGED <<store, lapsed, handed, spent, signed>>

-----------------------------------------------------------------------------
Issue(r) == ProofAnswers(r) \/ StatusAnswers(r) \/ SigningAnswers(r)

Next ==
  \/ CreateExchangeClaim \/ SecretLapses \/ Expire \/ Crash
  \/ \E o \in OfferGets : GetCredentialOffer(o)
  \/ \E t \in TokenPosts : PostToken(t) \/ HandleTokenRequest(t)
  \/ \E n \in NoncePosts : PostNonce(n)
  \/ \E c \in CredentialPosts : PostCredential(c) \/ HandleCredentialRequest(c)
  \/ \E p \in EmptyPosts : PostEmpty(p)
  \/ \E v \in VcapiPosts : PostDidAuth(v)
  \/ \E r \in Issuing : Issue(r)
  \/ \E r \in Requests : SaveExchange(r) \/ StoreFault(r)

Spec == Init /\ [][Next]_vars

-----------------------------------------------------------------------------
(* Properties *)

TypeOK ==
  /\ store \in Claim
  /\ lapsed \subseteq Secrets
  /\ handler \in [Requests -> ClaimHandler]
  /\ turn \in Requests \cup {None}
  /\ handed \subseteq Secrets \cup Issuing
  /\ spent \subseteq (Secrets \X Requests)
  /\ signed \subseteq Issuing
  /\ faults \in 0..MaxFaults

(* Whatever snapshots overwrite one another, a complete exchange shows the   *)
(* credential that was signed for it, and only a complete one shows one:     *)
(* state and results are always written together                             *)
(* (signClaimCredentialFromHolderDid).                                       *)
CompleteShowsCredential ==
  /\ store.credential # None <=> store.state = "complete"
  /\ store.credential \in signed \cup {None}

(* Nothing is signed through OpenID4VCI unless that request presented an     *)
(* access token some redeemed code was exchanged for, and a nonce of this    *)
(* exchange (handleCredentialRequest, redeemPreAuthorizedCode).              *)
IssuedOnlyOnRedemption ==
  \A c \in CredentialPosts \cap signed :
    /\ \E t \in TokenPosts, o \in OfferGets : {<<o, t>>, <<t, c>>} \subseteq spent
    /\ \E n \in NoncePosts : <<n, c>> \in spent

(* docs/oid4vci-pre-authorized-flow.md: a replayed pre-authorized code is    *)
(* refused.  No record that some request read before a code was exchanged    *)
(* for a token, and saves after, makes the code live again, unless it is the *)
(* record of a completed exchange, whose tokens buy nothing any more         *)
(* (redeemPreAuthorizedCode, signClaimCredentialFromHolderDid).              *)
CodeStaysRedeemed ==
  \A o \in OfferGets, t \in TokenPosts \cap handed :
    <<o, t>> \in spent /\ store.code = o => store.codeUsed \/ store.state = "complete"

(* handleCredentialRequest: a completed exchange has already issued its      *)
(* credential; by whichever protocol, no two responses carry one.            *)
CredentialIssuedOnce == Cardinality(Issuing \cap handed) <= 1

(* What the promise calls the state of the record.                           *)
Phase == CASE store.state = "none" -> "new"
           [] store.state \in {"pending", "active"} -> "open"
           [] store.state = "complete" -> "complete"
           [] store.state = "expired" -> "gone"

Promise == INSTANCE ClaimPromise WITH
  Credentials <- Issuing, phase <- Phase, credential <- store.credential

(* The record keeps the promise of a claim exchange.                         *)
KeepsPromise == Promise!Spec
=============================================================================
