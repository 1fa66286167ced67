------------------------ MODULE ClaimExchangeProofs ------------------------
(***************************************************************************)
(* Theorems about ClaimExchange for any number of requests of each kind,   *)
(* in flight at the same time, over either kind of store, with any number  *)
(* of faults.                                                              *)
(*                                                                         *)
(* Requests overwrite one another's records, so nothing can be said of the *)
(* stored record from the way it was before.  What holds is that every     *)
(* record, stored or carried by a request, is sound by itself: it shows a  *)
(* signed credential exactly when it is complete, and its access token was *)
(* bought with a code.  A step adds at most one new record.                *)
(***************************************************************************)
EXTENDS ClaimExchange, FiniteSetTheorems, TLAPS

USE ClaimNoneAssumption

(* The record x is sound when sp was presented and sg has been signed.       *)
Sound(x, sp, sg) ==
  /\ x.credential # None <=> x.state = "complete"
  /\ x.credential \in sg \cup {None}
  /\ x.token # None => \E o \in OfferGets : <<o, x.token>> \in sp

(* The request c presented a bought token and a nonce.                       *)
Redeemed(c, sp) ==
  /\ \E t \in TokenPosts, o \in OfferGets : {<<o, t>>, <<t, c>>} \subseteq sp
  /\ \E n \in NoncePosts : <<n, c>> \in sp

PastGuards == {"proof", "allocate", "sign"}

RecordsSound ==
  /\ Sound(store, spent, signed)
  /\ \A r \in Requests : /\ Sound(handler[r].snap, spent, signed)
                         /\ Sound(handler[r].next, spent, signed)
  /\ \A c \in CredentialPosts :
       handler[c].pc \in PastGuards \/ c \in signed => Redeemed(c, spent)

ClaimInv == TypeOK /\ RecordsSound

-----------------------------------------------------------------------------
(* Records *)

LEMMA BlankTyped ==
  ASSUME NEW s \in ClaimState
  PROVE  Blank(s) \in Claim
  BY DEF Blank, Claim

LEMMA BlankSound ==
  ASSUME NEW s \in ClaimState \ {"complete"}, NEW sp, NEW sg
  PROVE  Sound(Blank(s), sp, sg)
  BY DEF Blank, Sound

LEMMA RestingTyped ==
  ASSUME NEW pc \in ClaimPc
  PROVE  /\ Resting(pc) \in ClaimHandler
         /\ Resting(pc).pc = pc
         /\ Resting(pc).snap = Blank("none")
         /\ Resting(pc).next = Blank("none")
  BY BlankTyped DEF Resting, ClaimHandler, ClaimState

(* What a request does to the record it read, by type.                       *)
LEMMA UpdatesTyped ==
  ASSUME NEW x \in Claim, NEW o \in OfferGets, NEW t \in TokenPosts,
         NEW n \in NoncePosts, NEW r \in Issuing
  PROVE  /\ EnsurePreAuthorizedCode(x, o) \in Claim
         /\ SetAccessToken(RedeemPreAuthorizedCode(x), t) \in Claim
         /\ MintNonce(x, n) \in Claim
         /\ ConsumeNonce(x) \in Claim
         /\ Completed(x, r) \in Claim
         /\ [x EXCEPT !.state = "active"] \in Claim
  BY DEF Claim, ClaimState, EnsurePreAuthorizedCode, SetAccessToken,
         RedeemPreAuthorizedCode, MintNonce, ConsumeNonce, Completed

(* A sound record stays sound as more is presented and signed.               *)
LEMMA SoundGrows ==
  ASSUME NEW x \in Claim, NEW sp, NEW sg, NEW sp2, NEW sg2,
         Sound(x, sp, sg), sp \subseteq sp2, sg \subseteq sg2
  PROVE  Sound(x, sp2, sg2)
  BY DEF Sound

(* Changes that touch neither state, credential nor token.                   *)
LEMMA SoundAlike ==
  ASSUME NEW x \in Claim, NEW y \in Claim, NEW sp, NEW sg, Sound(x, sp, sg),
         y.state = x.state, y.credential = x.credential, y.token = x.token
  PROVE  Sound(y, sp, sg)
  BY DEF Sound

-----------------------------------------------------------------------------
(* Type correctness *)

LEMMA OneHandlerTyped ==
  ASSUME TypeOK, NEW r \in Requests, NEW pc \in ClaimPc, NEW x \in Claim, NEW y \in Claim,
         Goes(r, pc, x, y)
  PROVE  handler' \in [Requests -> ClaimHandler]
  BY DEF TypeOK, Goes, ClaimHandler

LEMMA EndsTyped ==
  ASSUME TypeOK, NEW r \in Requests, Ends(r)
  PROVE  handler' \in [Requests -> ClaimHandler]
  <1>1. Resting("done") \in ClaimHandler
    BY RestingTyped DEF ClaimPc
  <1> QED
    BY <1>1 DEF TypeOK, Ends

LEMMA AwaitsTyped ==
  ASSUME TypeOK, NEW r \in Requests, NEW pc \in ClaimPc, NEW x \in Claim, Awaits(r, pc, x)
  PROVE  /\ handler' \in [Requests -> ClaimHandler]
         /\ turn' \in Requests \cup {None}
  <1>1. Blank("none") \in Claim
    BY BlankTyped DEF ClaimState
  <1>2. handler' \in [Requests -> ClaimHandler]
    BY <1>1, OneHandlerTyped DEF Awaits
  <1> QED
    BY <1>2 DEF Awaits, Yield

LEMMA SavesTyped ==
  ASSUME TypeOK, NEW r \in Requests, NEW x \in Claim, NEW y \in Claim, Saves(r, x, y)
  PROVE  /\ handler' \in [Requests -> ClaimHandler]
         /\ turn' \in Requests \cup {None}
  <1>1. handler' \in [Requests -> ClaimHandler]
    BY OneHandlerTyped DEF Saves, ClaimPc
  <1> QED
    BY <1>1 DEF Saves, Continue

LEMMA RefusedTyped ==
  ASSUME TypeOK, NEW r \in Requests, Refused(r)
  PROVE  /\ handler' \in [Requests -> ClaimHandler]
         /\ turn' \in Requests \cup {None}
         /\ spent' \subseteq (Secrets \X Requests) /\ signed' \subseteq Issuing
  <1>1. handler' \in [Requests -> ClaimHandler]
    BY EndsTyped DEF Refused
  <1> QED
    BY <1>1 DEF Refused, Yield, TypeOK

LEMMA TypeInit == Init => TypeOK
  <1> SUFFICES ASSUME Init PROVE TypeOK
    OBVIOUS
  <1>1. store \in Claim
    BY BlankTyped DEF Init, ClaimState
  <1>2. handler \in [Requests -> ClaimHandler]
    <2>1. Resting("idle") \in ClaimHandler
      BY RestingTyped DEF ClaimPc
    <2> QED
      BY <2>1 DEF Init
  <1>3. faults \in 0..MaxFaults
    BY ClaimBoundsAssumption DEF Init
  <1> QED
    BY <1>1, <1>2, <1>3 DEF Init, TypeOK

LEMMA TypeStep == TypeOK /\ [Next]_vars => TypeOK'
  <1> SUFFICES ASSUME TypeOK, [Next]_vars PROVE TypeOK'
    OBVIOUS
  <1> USE DEF Requests, Issuing, Secrets
  <1>1. CASE CreateExchangeClaim
    <2>1. NewClaim \in Claim
      BY BlankTyped DEF NewClaim, ClaimState
    <2> QED
      BY <1>1, <2>1 DEF CreateExchangeClaim, TypeOK
  <1>2. CASE SecretLapses
    <2>1. lapsed' \subseteq Secrets
      BY <1>2 DEF SecretLapses, TypeOK, Claim
    <2> QED
      BY <1>2, <2>1 DEF SecretLapses, TypeOK
  <1>3. CASE Expire
    <2>1. Blank("expired") \in Claim
      BY BlankTyped DEF ClaimState
    <2> QED
      BY <1>3, <2>1 DEF Expire, TypeOK
  <1>4. CASE Crash
    <2>1. Resting("done") \in ClaimHandler
      BY RestingTyped DEF ClaimPc
    <2>2. handler' \in [Requests -> ClaimHandler]
      BY <1>4, <2>1 DEF Crash, TypeOK
    <2>3. faults' \in 0..MaxFaults
      BY <1>4, ClaimBoundsAssumption DEF Crash, TypeOK
    <2> QED
      BY <1>4, <2>2, <2>3 DEF Crash, TypeOK, Yield
  <1>5. ASSUME NEW o \in OfferGets, GetCredentialOffer(o) PROVE TypeOK'
    <2>1. CASE Ends(o) /\ Yield /\ handed' = handed \cup {store.code} /\ LiveCode(store)
      <3>1. store.code \in OfferGets
        BY <2>1 DEF TypeOK, Claim, LiveCode
      <3>2. handler' \in [Requests -> ClaimHandler]
        BY <2>1, EndsTyped
      <3> QED
        BY <1>5, <2>1, <3>1, <3>2 DEF GetCredentialOffer, TypeOK, Yield
    <2>2. CASE Saves(o, store, EnsurePreAuthorizedCode(store, o)) /\ UNCHANGED handed
      <3>1. EnsurePreAuthorizedCode(store, o) \in Claim
        BY DEF TypeOK, Claim, EnsurePreAuthorizedCode
      <3>2. handler' \in [Requests -> ClaimHandler] /\ turn' \in Requests \cup {None}
        BY <2>2, <3>1, SavesTyped DEF TypeOK
      <3> QED
        BY <1>5, <2>2, <3>2 DEF GetCredentialOffer, TypeOK
    <2> QED
      BY <1>5, <2>1, <2>2 DEF GetCredentialOffer
  <1>6. ASSUME NEW t \in TokenPosts, PostToken(t) PROVE TypeOK'
    <2>1. handler' \in [Requests -> ClaimHandler] /\ turn' \in Requests \cup {None}
      BY <1>6, AwaitsTyped DEF PostToken, TypeOK, ClaimPc
    <2> QED
      BY <1>6, <2>1 DEF PostToken, TypeOK
  <1>7. ASSUME NEW t \in TokenPosts, HandleTokenRequest(t) PROVE TypeOK'
    <2> DEFINE x == handler[t].snap
    <2>1. x \in Claim
      BY DEF TypeOK, ClaimHandler
    <2>2. PICK presented \in (handed \cap OfferGets) \cup {None} :
            \/ /\ Redeemable(x, presented)
               /\ Saves(t, x, SetAccessToken(RedeemPreAuthorizedCode(x), t))
               /\ spent' = spent \cup {<<presented, t>>}
               /\ UNCHANGED signed
            \/ ~Redeemable(x, presented) /\ Refused(t)
      BY <1>7 DEF HandleTokenRequest
    <2>3. CASE Refused(t)
      BY <1>7, <2>3, RefusedTyped DEF HandleTokenRequest, TypeOK
    <2>4. CASE /\ Redeemable(x, presented)
               /\ Saves(t, x, SetAccessToken(RedeemPreAuthorizedCode(x), t))
               /\ spent' = spent \cup {<<presented, t>>}
               /\ UNCHANGED signed
      <3>1. SetAccessToken(RedeemPreAuthorizedCode(x), t) \in Claim
        BY <2>1 DEF Claim, SetAccessToken, RedeemPreAuthorizedCode
      <3>2. handler' \in [Requests -> ClaimHandler] /\ turn' \in Requests \cup {None}
        BY <2>1, <2>4, <3>1, SavesTyped
      <3>3. presented \in OfferGets
        BY <2>2, <2>4 DEF Redeemable, LiveCode
      <3> QED
        BY <1>7, <2>4, <3>2, <3>3 DEF HandleTokenRequest, TypeOK
    <2> QED
      BY <2>2, <2>3, <2>4
  <1>8. ASSUME NEW n \in NoncePosts, PostNonce(n) PROVE TypeOK'
    <2>1. MintNonce(store, n) \in Claim
      BY DEF TypeOK, Claim, MintNonce
    <2>2. handler' \in [Requests -> ClaimHandler] /\ turn' \in Requests \cup {None}
      BY <1>8, <2>1, SavesTyped DEF PostNonce, TypeOK
    <2> QED
      BY <1>8, <2>2 DEF PostNonce, TypeOK
  <1>9. ASSUME NEW c \in CredentialPosts, PostCredential(c) PROVE TypeOK'
    <2>1. handler' \in [Requests -> ClaimHandler] /\ turn' \in Requests \cup {None}
      BY <1>9, AwaitsTyped DEF PostCredential, TypeOK, ClaimPc
    <2> QED
      BY <1>9, <2>1 DEF PostCredential, TypeOK
  <1>10. ASSUME NEW c \in CredentialPosts, HandleCredentialRequest(c) PROVE TypeOK'
    <2> DEFINE x == handler[c].snap
    <2>1. x \in Claim /\ ConsumeNonce(x) \in Claim
      BY DEF TypeOK, ClaimHandler, Claim, ConsumeNonce
    <2>2. CASE Refused(c)
      BY <1>10, <2>2, RefusedTyped DEF HandleCredentialRequest, TypeOK
    <2>3. ASSUME NEW token \in (handed \cap TokenPosts) \cup {None},
                 NEW nonce \in (handed \cap NoncePosts) \cup {None},
                 ValidateAccessToken(x, token), AcceptableNonce(x, nonce),
                 Awaits(c, "proof", ConsumeNonce(x)),
                 spent' = spent \cup {<<token, c>>, <<nonce, c>>},
                 UNCHANGED signed
          PROVE  TypeOK'
      <3>1. token \in TokenPosts /\ nonce \in NoncePosts
        BY <2>3 DEF ValidateAccessToken, AcceptableNonce
      <3>2. handler' \in [Requests -> ClaimHandler] /\ turn' \in Requests \cup {None}
        BY <2>1, <2>3, AwaitsTyped DEF ClaimPc
      <3> QED
        BY <1>10, <2>3, <3>1, <3>2 DEF HandleCredentialRequest, TypeOK
    <2> QED
      BY <1>10, <2>2, <2>3 DEF HandleCredentialRequest
  <1>11. ASSUME NEW p \in EmptyPosts, PostEmpty(p) PROVE TypeOK'
    <2>1. [store EXCEPT !.state = "active"] \in Claim
      BY DEF TypeOK, Claim, ClaimState
    <2>2. handler' \in [Requests -> ClaimHandler] /\ turn' \in Requests \cup {None}
      BY <1>11, <2>1, SavesTyped DEF PostEmpty, TypeOK
    <2> QED
      BY <1>11, <2>2 DEF PostEmpty, TypeOK
  <1>12. ASSUME NEW v \in VcapiPosts, PostDidAuth(v) PROVE TypeOK'
    <2>1. handler' \in [Requests -> ClaimHandler] /\ turn' \in Requests \cup {None}
      BY <1>12, AwaitsTyped DEF PostDidAuth, TypeOK, ClaimPc
    <2> QED
      BY <1>12, <2>1 DEF PostDidAuth, TypeOK
  <1>13. ASSUME NEW r \in Issuing, ProofAnswers(r) \/ StatusAnswers(r) PROVE TypeOK'
    <2>1. handler[r].snap \in Claim
      BY DEF TypeOK, ClaimHandler
    <2>2. CASE Refused(r)
      BY <1>13, <2>2, RefusedTyped DEF ProofAnswers, StatusAnswers, TypeOK
    <2>3. ASSUME NEW pc \in {"allocate", "sign"}, Awaits(r, pc, handler[r].snap),
                 UNCHANGED <<spent, signed>>
          PROVE  TypeOK'
      <3>1. r \in Requests /\ pc \in ClaimPc
        BY DEF ClaimPc
      <3>2. handler' \in [Requests -> ClaimHandler] /\ turn' \in Requests \cup {None}
        <4> HIDE DEF Requests
        <4> QED
          BY <2>1, <2>3, <3>1, AwaitsTyped
      <3> QED
        BY <1>13, <2>3, <3>2 DEF ProofAnswers, StatusAnswers, TypeOK
    <2> QED
      BY <1>13, <2>2, <2>3 DEF ProofAnswers, StatusAnswers
  <1>14. ASSUME NEW r \in Issuing, SigningAnswers(r) PROVE TypeOK'
    <2>1. /\ handler[r].snap \in Claim
          /\ Completed(handler[r].snap, r) \in Claim
      BY DEF TypeOK, ClaimHandler, Claim, ClaimState, Completed
    <2>2. CASE Refused(r)
      BY <1>14, <2>2, RefusedTyped DEF SigningAnswers, TypeOK
    <2>3. CASE /\ Saves(r, handler[r].snap, Completed(handler[r].snap, r))
               /\ signed' = signed \cup {r}
               /\ UNCHANGED spent
      <3>1. handler' \in [Requests -> ClaimHandler] /\ turn' \in Requests \cup {None}
        BY <2>1, <2>3, SavesTyped
      <3> QED
        BY <1>14, <2>3, <3>1 DEF SigningAnswers, TypeOK
    <2> QED
      BY <1>14, <2>2, <2>3 DEF SigningAnswers
  <1>15. ASSUME NEW r \in Requests, SaveExchange(r) PROVE TypeOK'
    <2>1. store' \in Claim
      BY <1>15 DEF SaveExchange, Put, TypeOK, ClaimHandler
    <2>2. handler' \in [Requests -> ClaimHandler]
      BY <1>15, EndsTyped DEF SaveExchange
    <2> QED
      BY <1>15, <2>1, <2>2 DEF SaveExchange, TypeOK, Yield
  <1>16. ASSUME NEW r \in Requests, StoreFault(r) PROVE TypeOK'
    <2>1. store' \in Claim
      BY <1>16 DEF StoreFault, Put, TypeOK, ClaimHandler
    <2>2. handler' \in [Requests -> ClaimHandler]
      BY <1>16, EndsTyped DEF StoreFault
    <2>3. faults' \in 0..MaxFaults
      BY <1>16, ClaimBoundsAssumption DEF StoreFault, TypeOK
    <2> QED
      BY <1>16, <2>1, <2>2, <2>3 DEF StoreFault, TypeOK, Yield
  <1>17. CASE UNCHANGED vars
    BY <1>17 DEF vars, TypeOK
  <1> QED
    BY <1>1, <1>2, <1>3, <1>4, <1>5, <1>6, <1>7, <1>8, <1>9, <1>10, <1>11, <1>12,
       <1>13, <1>14, <1>15, <1>16, <1>17 DEF Next, Issue

(* The state of a claim exchange and of its requests keeps its type, however *)
(* the requests interleave and fail.                                         *)
THEOREM ClaimTypeCorrect == Spec => []TypeOK
  BY TypeInit, TypeStep, PTL DEF Spec
-----------------------------------------------------------------------------
(* Soundness of the records *)

(* A step that changes one request and perhaps the stored record.            *)
LEMMA OneHandler ==
  ASSUME ClaimInv, TypeOK', NEW r \in Requests,
         NEW pc, NEW x \in Claim, NEW y \in Claim, Goes(r, pc, x, y),
         spent \subseteq spent', signed \subseteq signed', signed' \subseteq signed \cup {r},
         Sound(store', spent', signed'),
         Sound(x, spent', signed'), Sound(y, spent', signed'),
         r \in CredentialPosts /\ (pc \in PastGuards \/ r \in signed')
           => Redeemed(r, spent')
  PROVE  RecordsSound'
  <1>1. \A h \in Requests : handler[h].snap \in Claim /\ handler[h].next \in Claim
    BY DEF ClaimInv, TypeOK, ClaimHandler
  <1>2. \A h \in Requests : h # r => handler'[h] = handler[h]
    BY DEF Goes, ClaimInv, TypeOK
  <1>3. handler'[r] = [pc |-> pc, snap |-> x, next |-> y]
    BY DEF Goes, ClaimInv, TypeOK
  <1>4. ASSUME NEW h \in Requests
        PROVE  /\ Sound(handler'[h].snap, spent', signed')
               /\ Sound(handler'[h].next, spent', signed')
    <2>1. CASE h = r
      BY <1>3, <2>1
    <2>2. CASE h # r
      BY <1>1, <1>2, <2>2, SoundGrows DEF ClaimInv, RecordsSound
    <2> QED
      BY <2>1, <2>2
  <1>5. ASSUME NEW c \in CredentialPosts, handler'[c].pc \in PastGuards \/ c \in signed'
        PROVE  Redeemed(c, spent')
    <2>0. c \in Requests
      BY DEF Requests, Issuing
    <2>1. CASE c = r
      BY <1>3, <1>5, <2>1
    <2>2. CASE c # r
      <3>1. Redeemed(c, spent)
        BY <1>2, <1>5, <2>0, <2>2 DEF ClaimInv, RecordsSound
      <3> QED
        BY <3>1 DEF Redeemed
    <2> QED
      BY <2>1, <2>2
  <1> QED
    BY <1>4, <1>5 DEF RecordsSound

(* A request that ends carries only blank records.                           *)
LEMMA OneEnds ==
  ASSUME ClaimInv, TypeOK', NEW r \in Requests, Ends(r),
         spent' = spent, signed' = signed, Sound(store', spent, signed)
  PROVE  RecordsSound'
  <1>1. Blank("none") \in Claim /\ Sound(Blank("none"), spent, signed)
    BY BlankTyped, BlankSound DEF ClaimState
  <1>2. Goes(r, "done", Blank("none"), Blank("none"))
    BY DEF Ends, Goes, Resting
  <1>3. r \in CredentialPosts /\ r \in signed => Redeemed(r, spent)
    BY DEF ClaimInv, RecordsSound
  <1> QED
    BY <1>1, <1>2, <1>3, OneHandler DEF PastGuards

LEMMA OneAwaits ==
  ASSUME ClaimInv, TypeOK', NEW r \in Requests,
         NEW pc, NEW x \in Claim, Awaits(r, pc, x), store' = store,
         spent \subseteq spent', signed' = signed, Sound(x, spent', signed),
         r \in CredentialPosts /\ pc \in PastGuards => Redeemed(r, spent')
  PROVE  RecordsSound'
  <1>1. Blank("none") \in Claim /\ Sound(Blank("none"), spent', signed)
    BY BlankTyped, BlankSound DEF ClaimState
  <1>2. Goes(r, pc, x, Blank("none"))
    BY DEF Awaits
  <1>3. Sound(store, spent', signed)
    BY SoundGrows DEF ClaimInv, RecordsSound, TypeOK
  <1>4. r \in CredentialPosts /\ r \in signed => Redeemed(r, spent')
    BY DEF ClaimInv, RecordsSound, Redeemed
  <1> QED
    BY <1>1, <1>2, <1>3, <1>4, OneHandler

LEMMA OneSaves ==
  ASSUME ClaimInv, TypeOK', NEW r \in Requests,
         NEW x \in Claim, NEW y \in Claim, Saves(r, x, y), store' = store,
         spent \subseteq spent', signed \subseteq signed', signed' \subseteq signed \cup {r},
         Sound(x, spent, signed), Sound(y, spent', signed'),
         r \in CredentialPosts /\ r \in signed' => Redeemed(r, spent')
  PROVE  RecordsSound'
  <1>1. Goes(r, "save", x, y)
    BY DEF Saves
  <1>2. Sound(store, spent', signed') /\ Sound(x, spent', signed')
    BY SoundGrows DEF ClaimInv, RecordsSound, TypeOK
  <1> QED
    BY <1>1, <1>2, OneHandler DEF PastGuards

LEMMA SoundInit == Init => RecordsSound
  <1> SUFFICES ASSUME Init PROVE RecordsSound
    OBVIOUS
  <1>1. Sound(Blank("none"), spent, signed)
    BY BlankSound DEF ClaimState
  <1>2. ASSUME NEW r \in Requests
        PROVE  /\ handler[r].pc = "idle"
               /\ handler[r].snap = Blank("none") /\ handler[r].next = Blank("none")
    BY RestingTyped DEF Init, ClaimPc
  <1>3. CredentialPosts \subseteq Requests
    BY DEF Requests, Issuing
  <1> QED
    BY <1>1, <1>2, <1>3 DEF Init, RecordsSound, PastGuards

LEMMA SoundStep == ClaimInv /\ [Next]_vars => ClaimInv'
  <1> SUFFICES ASSUME ClaimInv, [Next]_vars PROVE RecordsSound'
    BY TypeStep DEF ClaimInv
  <1>0. TypeOK /\ TypeOK'
    BY TypeStep DEF ClaimInv
  <1>a. /\ store \in Claim /\ Sound(store, spent, signed)
        /\ \A r \in Requests :
             /\ handler[r].snap \in Claim /\ Sound(handler[r].snap, spent, signed)
             /\ handler[r].next \in Claim /\ Sound(handler[r].next, spent, signed)
    BY <1>0 DEF ClaimInv, RecordsSound, TypeOK, ClaimHandler
  <1>b. /\ OfferGets \cup TokenPosts \cup NoncePosts \cup EmptyPosts \subseteq Requests
        /\ Issuing \subseteq Requests
        /\ CredentialPosts \subseteq Issuing /\ VcapiPosts \subseteq Issuing
    BY DEF Requests, Issuing
  <1>1. CASE UNCHANGED <<handler, spent, signed>> /\ Sound(store', spent, signed)
    BY <1>1 DEF ClaimInv, RecordsSound
  <1>2. CASE CreateExchangeClaim \/ SecretLapses \/ Expire
    <2>1. Sound(Blank("pending"), spent, signed) /\ Sound(Blank("expired"), spent, signed)
      BY BlankSound DEF ClaimState
    <2> QED
      BY <1>1, <1>2, <1>a, <2>1 DEF CreateExchangeClaim, NewClaim, SecretLapses, Expire
  <1>3. CASE Crash
    <2>1. Sound(Blank("none"), spent, signed)
      BY BlankSound DEF ClaimState
    <2>2. ASSUME NEW r \in Requests
          PROVE  \/ handler'[r] = handler[r]
                 \/ /\ handler'[r].pc = "done"
                    /\ handler'[r].snap = Blank("none") /\ handler'[r].next = Blank("none")
      BY <1>3, RestingTyped DEF Crash, ClaimPc
    <2>3. UNCHANGED <<store, spent, signed>>
      BY <1>3 DEF Crash
    <2> QED
      BY <1>b, <2>1, <2>2, <2>3 DEF ClaimInv, RecordsSound, PastGuards
  <1>4. ASSUME NEW o \in OfferGets, GetCredentialOffer(o) PROVE RecordsSound'
    <2>1. CASE Ends(o)
      BY <1>0, <1>4, <1>a, <1>b, <2>1, OneEnds DEF GetCredentialOffer
    <2>2. CASE Saves(o, store, EnsurePreAuthorizedCode(store, o))
      <3> DEFINE y == EnsurePreAuthorizedCode(store, o)
      <3>1. /\ y \in Claim
            /\ y.state = store.state /\ y.credential = store.credential
            /\ y.token = store.token
        BY <1>a DEF Claim, EnsurePreAuthorizedCode
      <3>2. Sound(y, spent, signed)
        BY <1>a, <3>1, SoundAlike
      <3>3. o \notin CredentialPosts
        BY ClaimKindsAssumption DEF Issuing, Secrets
      <3>4. UNCHANGED <<store, spent, signed>>
        BY <1>4 DEF GetCredentialOffer
      <3> HIDE DEF y
      <3> QED
        BY <1>0, <1>a, <1>b, <2>2, <3>1, <3>2, <3>3, <3>4, OneSaves DEF y
    <2> QED
      BY <1>4, <2>1, <2>2 DEF GetCredentialOffer
  <1>5. ASSUME NEW t \in TokenPosts \cup CredentialPosts, Awaits(t, "body", store),
               UNCHANGED <<store, spent, signed>>
        PROVE  RecordsSound'
    BY <1>0, <1>5, <1>a, <1>b, OneAwaits DEF PastGuards
  <1>6. ASSUME NEW t \in TokenPosts, HandleTokenRequest(t) PROVE RecordsSound'
    <2> DEFINE x == handler[t].snap
               y == SetAccessToken(RedeemPreAuthorizedCode(x), t)
    <2>1. CASE Refused(t)
      BY <1>0, <1>6, <1>a, <1>b, <2>1, OneEnds DEF HandleTokenRequest, Refused
    <2>2. ASSUME NEW presented \in (handed \cap OfferGets) \cup {None},
                 Redeemable(x, presented), Saves(t, x, y),
                 spent' = spent \cup {<<presented, t>>}, UNCHANGED signed
          PROVE  RecordsSound'
      <3>1. /\ x \in Claim /\ y \in Claim
            /\ y.state = x.state /\ y.credential = x.credential /\ y.token = t
        BY <1>a, <1>b DEF Claim, SetAccessToken, RedeemPreAuthorizedCode
      <3>2. presented \in OfferGets /\ <<presented, t>> \in spent'
        BY <2>2 DEF Redeemable, LiveCode
      <3>3. Sound(x, spent, signed)
        BY <1>a, <1>b
      <3>4. Sound(y, spent', signed')
        BY <2>2, <3>1, <3>2, <3>3 DEF Sound
      <3>5. t \notin CredentialPosts
        BY ClaimKindsAssumption DEF Issuing, Secrets
      <3>6. store' = store
        BY <1>6 DEF HandleTokenRequest
      <3> HIDE DEF x, y
      <3> QED
        BY <1>0, <1>b, <2>2, <3>1, <3>3, <3>4, <3>5, <3>6, OneSaves
    <2> QED
      BY <1>6, <2>1, <2>2 DEF HandleTokenRequest
  <1>7. ASSUME NEW n \in NoncePosts, PostNonce(n) PROVE RecordsSound'
    <2> DEFINE y == MintNonce(store, n)
    <2>1. /\ y \in Claim
          /\ y.state = store.state /\ y.credential = store.credential
          /\ y.token = store.token
      BY <1>a DEF Claim, MintNonce
    <2>2. Sound(y, spent, signed)
      BY <1>a, <2>1, SoundAlike
    <2>3. n \notin CredentialPosts
      BY ClaimKindsAssumption DEF Issuing, Secrets
    <2>4. Saves(n, store, y) /\ UNCHANGED <<store, spent, signed>>
      BY <1>7 DEF PostNonce
    <2> HIDE DEF y
    <2> QED
      BY <1>0, <1>a, <1>b, <2>1, <2>2, <2>3, <2>4, OneSaves
  <1>8. ASSUME NEW c \in CredentialPosts, HandleCredentialRequest(c) PROVE RecordsSound'
    <2> DEFINE x == handler[c].snap
               y == ConsumeNonce(x)
    <2>1. CASE Refused(c)
      BY <1>0, <1>8, <1>a, <1>b, <2>1, OneEnds DEF HandleCredentialRequest, Refused
    <2>2. ASSUME NEW token \in (handed \cap TokenPosts) \cup {None},
                 NEW nonce \in (handed \cap NoncePosts) \cup {None},
                 ValidateAccessToken(x, token), AcceptableNonce(x, nonce),
                 Awaits(c, "proof", y),
                 spent' = spent \cup {<<token, c>>, <<nonce, c>>},
                 UNCHANGED signed
          PROVE  RecordsSound'
      <3>1. /\ x \in Claim /\ Sound(x, spent, signed) /\ y \in Claim
            /\ y.state = x.state /\ y.credential = x.credential /\ y.token = x.token
        BY <1>a, <1>b DEF Claim, ConsumeNonce
      <3>2. Sound(y, spent', signed)
        <4>1. Sound(y, spent, signed)
          BY <3>1, SoundAlike
        <4> QED
          BY <2>2, <3>1, <4>1, SoundGrows
      <3>3. token \in TokenPosts /\ nonce \in NoncePosts /\ x.token = token /\ token # None
        BY <2>2 DEF ValidateAccessToken, AcceptableNonce
      <3>4. Redeemed(c, spent')
        <4>1. PICK o \in OfferGets : <<o, token>> \in spent
          BY <3>1, <3>3 DEF Sound
        <4> QED
          BY <2>2, <3>3, <4>1 DEF Redeemed
      <3>5. store' = store
        BY <1>8 DEF HandleCredentialRequest
      <3> HIDE DEF x, y
      <3> QED
        BY <1>0, <1>b, <2>2, <3>1, <3>2, <3>4, <3>5, OneAwaits
    <2> QED
      BY <1>8, <2>1, <2>2 DEF HandleCredentialRequest
  <1>9. ASSUME NEW p \in EmptyPosts, PostEmpty(p) PROVE RecordsSound'
    <2> DEFINE y == [store EXCEPT !.state = "active"]
    <2>1. /\ y \in Claim /\ store.state = "pending"
          /\ y.state = "active" /\ y.credential = store.credential
          /\ y.token = store.token
      BY <1>9, <1>a DEF PostEmpty, Claim, ClaimState
    <2>2. Sound(y, spent, signed)
      BY <1>a, <2>1 DEF Sound
    <2>3. p \notin CredentialPosts
      BY ClaimKindsAssumption DEF Issuing
    <2>4. Saves(p, store, y) /\ UNCHANGED <<store, spent, signed>>
      BY <1>9 DEF PostEmpty
    <2> HIDE DEF y
    <2> QED
      BY <1>0, <1>a, <1>b, <2>1, <2>2, <2>3, <2>4, OneSaves
  <1>10. ASSUME NEW v \in VcapiPosts, PostDidAuth(v) PROVE RecordsSound'
    <2>1. v \notin CredentialPosts
      BY ClaimKindsAssumption
    <2>2. Awaits(v, "proof", store) /\ UNCHANGED <<store, spent, signed>>
      BY <1>10 DEF PostDidAuth
    <2> QED
      BY <1>0, <1>a, <1>b, <2>1, <2>2, OneAwaits
  <1>11. ASSUME NEW r \in Issuing, ProofAnswers(r) \/ StatusAnswers(r) PROVE RecordsSound'
    <2>1. CASE Refused(r)
      BY <1>0, <1>11, <1>a, <1>b, <2>1, OneEnds DEF ProofAnswers, StatusAnswers, Refused
    <2>2. ASSUME NEW pc, Awaits(r, pc, handler[r].snap), UNCHANGED <<spent, signed>>
          PROVE  RecordsSound'
      <3>1. handler[r].pc \in PastGuards /\ store' = store
        BY <1>11 DEF ProofAnswers, StatusAnswers, PastGuards
      <3>2. r \in CredentialPosts => Redeemed(r, spent)
        BY <3>1 DEF ClaimInv, RecordsSound
      <3> QED
        BY <1>0, <1>a, <1>b, <2>2, <3>1, <3>2, OneAwaits
    <2> QED
      BY <1>11, <2>1, <2>2 DEF ProofAnswers, StatusAnswers
  <1>12. ASSUME NEW r \in Issuing, SigningAnswers(r) PROVE RecordsSound'
    <2> DEFINE x == handler[r].snap
               y == Completed(x, r)
    <2>1. CASE Refused(r)
      BY <1>0, <1>12, <1>a, <1>b, <2>1, OneEnds DEF SigningAnswers, Refused
    <2>2. CASE Saves(r, x, y) /\ signed' = signed \cup {r} /\ UNCHANGED spent
      <3>1. /\ x \in Claim /\ Sound(x, spent, signed) /\ y \in Claim
            /\ y.state = "complete" /\ y.credential = r /\ y.token = x.token
        BY <1>a, <1>b DEF Claim, ClaimState, Completed
      <3>2. Sound(y, spent', signed')
        BY <1>b, <2>2, <3>1 DEF Sound
      <3>3. handler[r].pc \in PastGuards /\ store' = store
        BY <1>12 DEF SigningAnswers, PastGuards
      <3>4. r \in CredentialPosts => Redeemed(r, spent')
        BY <2>2, <3>3 DEF ClaimInv, RecordsSound
      <3> HIDE DEF x, y
      <3> QED
        BY <1>0, <1>b, <2>2, <3>1, <3>2, <3>3, <3>4, OneSaves
    <2> QED
      BY <1>12, <2>1, <2>2 DEF SigningAnswers
  <1>13. ASSUME NEW r \in Requests, SaveExchange(r) \/ StoreFault(r) PROVE RecordsSound'
    <2>1. Sound(store', spent, signed)
      BY <1>13, <1>a DEF SaveExchange, StoreFault, Put
    <2> QED
      BY <1>0, <1>13, <2>1, OneEnds DEF SaveExchange, StoreFault
  <1>14. CASE UNCHANGED vars
    BY <1>1, <1>14, <1>a DEF vars
  <1> QED
    BY <1>2, <1>3, <1>4, <1>5, <1>6, <1>7, <1>8, <1>9, <1>10, <1>11, <1>12, <1>13, <1>14
       DEF Next, Issue, PostToken, PostCredential

(* Whatever requests overwrite one another's records, a complete exchange    *)
(* shows a credential signed for it, and only a complete one shows one.      *)
THEOREM CompleteAlwaysShowsCredential == Spec => []CompleteShowsCredential
  <1>1. Init => ClaimInv
    BY TypeInit, SoundInit DEF ClaimInv
  <1>2. ClaimInv => CompleteShowsCredential
    BY DEF ClaimInv, RecordsSound, Sound, CompleteShowsCredential
  <1> QED
    BY <1>1, <1>2, SoundStep, PTL DEF Spec

(* The issuer signs nothing through OpenID4VCI for a request that did not    *)
(* present a token bought with a code, and a nonce.                          *)
THEOREM NothingIssuedUnredeemed == Spec => []IssuedOnlyOnRedemption
  <1>1. Init => ClaimInv
    BY TypeInit, SoundInit DEF ClaimInv
  <1>2. ClaimInv => IssuedOnlyOnRedemption
    BY DEF ClaimInv, RecordsSound, Redeemed, IssuedOnlyOnRedemption
  <1> QED
    BY <1>1, <1>2, SoundStep, PTL DEF Spec

-----------------------------------------------------------------------------
(***************************************************************************)
(* One request at a time: ClaimExchange implements ClaimPromise, redeems   *)
(* its code once and hands out one credential, if the clients wait for an  *)
(* answer before they make the next request.                               *)
(*                                                                         *)
(* With one request in flight the snapshot it carries still tells what the *)
(* stored record is, unless the record expired meanwhile: no save can undo *)
(* a completion.  With two in flight none of these theorems holds.         *)
(***************************************************************************)

Open(x) == x.state \in {"pending", "active"}

(* The same to whoever only looks at the promise.                            *)
Alike(x, y) ==
  /\ x.credential = y.credential
  /\ x.state = y.state \/ (Open(x) /\ Open(y))

Issued == Issuing \cap handed

(* What the one request in flight knows of the record, of what was handed    *)
(* out, when that request is where h says.                                   *)
Current(r, h) ==
  /\ store.state # "none"
  /\ store.state # "expired" =>
       /\ h.pc # "save" => Alike(h.snap, store)
       /\ h.pc = "save" => \/ Alike(h.next, store) /\ r \notin Issuing
                           \/ /\ Open(store) /\ r \in Issuing
                              /\ h.next.state = "complete" /\ h.next.credential = r
  /\ h.pc \in PastGuards => Open(h.snap)
  /\ h.pc \in PastGuards \cup {"save"} /\ r \in Issuing => Issued = {}
  /\ h.pc = "body" /\ Open(h.snap) => Issued = {}
  /\ h.pc = "body" => h.snap.state \in {"pending", "active", "complete"}

InOrder ==
  /\ \A r, q \in InFlight : r = q
  /\ \A r \in InFlight : Current(r, handler[r])
  /\ \A r, q \in Issued : r = q
  /\ Issued # {} => store.state \in {"complete", "expired"}

SerialInv == ClaimInv /\ InOrder

LEMMA SerialInit == Init => SerialInv
  <1> SUFFICES ASSUME Init PROVE SerialInv
    OBVIOUS
  <1>1. ClaimInv
    BY TypeInit, SoundInit DEF ClaimInv
  <1>2. InFlight = {}
    BY RestingTyped DEF Init, InFlight, ClaimPc
  <1> QED
    BY <1>1, <1>2 DEF SerialInv, InOrder, Issued, Init

(* The client that starts a request has no other in flight.                  *)
LEMMA StartsAlone ==
  ASSUME MaxInFlight = 1, IsFiniteSet(Requests), NEW r \in Requests, Starts(r)
  PROVE  InFlight = {}
  <1>1. IsFiniteSet(InFlight)
    BY FS_Subset DEF InFlight
  <1>2. Cardinality(InFlight) \in Nat /\ Cardinality(InFlight) < 1
    BY <1>1, FS_CardinalityType DEF Starts
  <1>3. Cardinality(InFlight) = 0
    BY <1>2
  <1> QED
    BY <1>1, <1>3, FS_EmptySet

(* A step of the only request leaves it, or nothing, in flight.              *)
LEMMA OnlyRequest ==
  ASSUME TypeOK, NEW r \in Requests, InFlight \subseteq {r},
         NEW h, handler' = [handler EXCEPT ![r] = h]
  PROVE  /\ InFlight' \subseteq {r}
         /\ handler'[r] = h
         /\ h.pc \in {"idle", "done"} => InFlight' = {}
  BY DEF InFlight, TypeOK

LEMMA MovesOn ==
  ASSUME InOrder, TypeOK, NEW r \in Requests, InFlight \subseteq {r},
         NEW h, handler' = [handler EXCEPT ![r] = h],
         Current(r, h), UNCHANGED <<store, handed>>
  PROVE  InOrder'
  <1>1. InFlight' \subseteq {r} /\ handler'[r] = h
    BY OnlyRequest
  <1>2. Issued' = Issued
    BY DEF Issued
  <1>3. Current(r, handler[r])' <=> Current(r, h)
    BY <1>1, <1>2 DEF Current, Alike, Open
  <1>4. \A q \in InFlight' : Current(q, handler[q])'
    BY <1>1, <1>3
  <1> QED
    BY <1>1, <1>2, <1>4 DEF InOrder

LEMMA EndsInOrder ==
  ASSUME TypeOK, NEW r \in Requests, InFlight \subseteq {r}, Ends(r),
         \A a, b \in Issued' : a = b,
         Issued' # {} => store'.state \in {"complete", "expired"}
  PROVE  InOrder'
  <1>1. Resting("done").pc = "done"
    BY RestingTyped DEF ClaimPc
  <1>2. InFlight' = {}
    BY <1>1, OnlyRequest DEF Ends
  <1> QED
    BY <1>2 DEF InOrder

LEMMA SerialStep ==
  ASSUME MaxInFlight = 1, IsFiniteSet(Requests)
  PROVE  SerialInv /\ [Next]_vars => SerialInv'
  <1> SUFFICES ASSUME SerialInv, [Next]_vars PROVE InOrder'
    BY SoundStep DEF SerialInv
  <1>0. TypeOK /\ InOrder /\ RecordsSound
    BY DEF SerialInv, ClaimInv
  <1>a. /\ store \in Claim
        /\ \A r \in Requests : handler[r].snap \in Claim /\ handler[r].next \in Claim
    BY <1>0 DEF TypeOK, ClaimHandler
  <1>b. /\ OfferGets \cup TokenPosts \cup NoncePosts \cup EmptyPosts \subseteq Requests
        /\ Issuing \subseteq Requests
        /\ CredentialPosts \subseteq Issuing /\ VcapiPosts \subseteq Issuing
        /\ Issuing \cap (OfferGets \cup TokenPosts \cup NoncePosts \cup EmptyPosts) = {}
    BY ClaimKindsAssumption DEF Requests, Issuing, Secrets
  \* A request that starts, and one that goes on, is the only one in flight.
  <1>c. ASSUME NEW r \in Requests, Starts(r)
        PROVE  InFlight \subseteq {r} /\ store.state \in {"pending", "active", "complete"}
    BY <1>a, <1>c, StartsAlone DEF Starts, Claim, ClaimState
  <1>d. ASSUME NEW r \in Requests, handler[r].pc \notin {"idle", "done"}
        PROVE  InFlight \subseteq {r} /\ Current(r, handler[r])
    BY <1>0, <1>d DEF InOrder, InFlight
  <1>e. Open(store) => Issued = {}
    BY <1>0 DEF InOrder, Open
  \* Refusals and answers that save nothing.
  <1>f. ASSUME NEW r \in Requests, InFlight \subseteq {r}, Ends(r), store' = store,
               Issued' = Issued
        PROVE  InOrder'
    BY <1>0, <1>f, EndsInOrder DEF InOrder
  <1>1. CASE CreateExchangeClaim
    <2>1. InFlight = {} /\ Issued = {}
      BY <1>0, <1>1 DEF CreateExchangeClaim, InOrder, Current
    <2>2. InFlight' = {} /\ Issued' = {}
      BY <1>1, <2>1 DEF CreateExchangeClaim, InFlight, Issued
    <2> QED
      BY <2>2 DEF InOrder
  <1>2. CASE SecretLapses
    <2>1. InFlight' = InFlight /\ Issued' = Issued
      BY <1>2 DEF SecretLapses, InFlight, Issued
    <2> QED
      BY <1>0, <1>2, <2>1 DEF SecretLapses, InOrder, Current, Alike, Open
  <1>3. CASE Expire
    <2>1. InFlight' = InFlight /\ Issued' = Issued /\ handler' = handler
      BY <1>3 DEF Expire, InFlight, Issued
    <2>2. store'.state = "expired"
      BY <1>3 DEF Expire, Blank
    <2>3. \A r \in InFlight' : Current(r, handler[r])'
      BY <1>0, <2>1, <2>2 DEF InOrder, Current, Alike, Open
    <2> QED
      BY <1>0, <2>1, <2>2, <2>3 DEF InOrder
  <1>4. CASE Crash
    <2>1. InFlight' = {}
      BY <1>4, RestingTyped DEF Crash, InFlight, ClaimPc
    <2>2. Issued' = Issued /\ store' = store
      BY <1>4 DEF Crash, Issued
    <2> QED
      BY <1>0, <2>1, <2>2 DEF InOrder
  <1>5. ASSUME NEW o \in OfferGets, GetCredentialOffer(o) PROVE InOrder'
    <2>1. /\ o \in Requests /\ InFlight \subseteq {o} /\ store' = store
          /\ store.state \in {"pending", "active", "complete"}
      BY <1>5, <1>b, <1>c DEF GetCredentialOffer
    <2>2. CASE Ends(o) /\ LiveCode(store) /\ handed' = handed \cup {store.code}
      <3>1. store.code \in OfferGets
        BY <1>a, <2>2 DEF Claim, LiveCode
      <3>2. Issued' = Issued
        BY <1>b, <2>2, <3>1 DEF Issued
      <3> QED
        BY <1>f, <2>1, <2>2, <3>2
    <2>3. CASE Saves(o, store, EnsurePreAuthorizedCode(store, o)) /\ UNCHANGED handed
      <3> DEFINE y == EnsurePreAuthorizedCode(store, o)
                 h == [pc |-> "save", snap |-> store, next |-> y]
      <3>1. Alike(y, store)
        BY <1>a DEF Claim, EnsurePreAuthorizedCode, Alike
      <3>2. Current(o, h)
        BY <1>b, <2>1, <3>1 DEF Current, PastGuards
      <3>3. handler' = [handler EXCEPT ![o] = h]
        BY <2>3 DEF Saves, Goes
      <3> HIDE DEF h
      <3> QED
        BY <1>0, <2>1, <2>3, <3>2, <3>3, MovesOn
    <2> QED
      BY <1>5, <2>2, <2>3 DEF GetCredentialOffer
  <1>6. ASSUME NEW t \in TokenPosts \cup CredentialPosts, Starts(t), Awaits(t, "body", store),
               UNCHANGED <<store, handed>>
        PROVE  InOrder'
    <2> DEFINE h == [pc |-> "body", snap |-> store, next |-> Blank("none")]
    <2>1. /\ t \in Requests /\ InFlight \subseteq {t}
          /\ store.state \in {"pending", "active", "complete"}
      BY <1>6, <1>b, <1>c
    <2>2. Current(t, h)
      BY <1>e, <2>1 DEF Current, PastGuards, Alike
    <2>3. handler' = [handler EXCEPT ![t] = h]
      BY <1>6 DEF Awaits, Goes
    <2> HIDE DEF h
    <2> QED
      BY <1>0, <1>6, <2>1, <2>2, <2>3, MovesOn
  <1>7. ASSUME NEW t \in TokenPosts, HandleTokenRequest(t) PROVE InOrder'
    <2> DEFINE x == handler[t].snap
               y == SetAccessToken(RedeemPreAuthorizedCode(x), t)
               h == [pc |-> "save", snap |-> x, next |-> y]
    <2>1. /\ t \in Requests /\ InFlight \subseteq {t} /\ Current(t, handler[t])
          /\ handler[t].pc = "body" /\ UNCHANGED <<store, handed>> /\ Issued' = Issued
      BY <1>7, <1>b, <1>d DEF HandleTokenRequest, Issued
    <2>2. CASE Refused(t)
      BY <1>f, <2>1, <2>2 DEF Refused
    <2>3. CASE Saves(t, x, y)
      <3>1. x \in Claim /\ y.state = x.state /\ y.credential = x.credential
        BY <1>a, <2>1 DEF Claim, SetAccessToken, RedeemPreAuthorizedCode
      <3>2. store.state # "expired" => Alike(y, store)
        BY <2>1, <3>1 DEF Current, Alike, Open
      <3>3. Current(t, h)
        BY <1>b, <2>1, <3>2 DEF Current, PastGuards
      <3>4. handler' = [handler EXCEPT ![t] = h]
        BY <2>3 DEF Saves, Goes
      <3> HIDE DEF h
      <3> QED
        BY <1>0, <2>1, <3>3, <3>4, MovesOn
    <2> QED
      BY <1>7, <2>2, <2>3 DEF HandleTokenRequest
  <1>8. ASSUME NEW n \in NoncePosts, PostNonce(n) PROVE InOrder'
    <2> DEFINE y == MintNonce(store, n)
               h == [pc |-> "save", snap |-> store, next |-> y]
    <2>1. /\ n \in Requests /\ InFlight \subseteq {n} /\ UNCHANGED <<store, handed>>
          /\ store.state \in {"pending", "active", "complete"}
      BY <1>8, <1>b, <1>c DEF PostNonce
    <2>2. Alike(y, store)
      BY <1>a DEF Claim, MintNonce, Alike
    <2>3. Current(n, h)
      BY <1>b, <2>1, <2>2 DEF Current, PastGuards
    <2>4. handler' = [handler EXCEPT ![n] = h]
      BY <1>8 DEF PostNonce, Saves, Goes
    <2> HIDE DEF h
    <2> QED
      BY <1>0, <2>1, <2>3, <2>4, MovesOn
  <1>9. ASSUME NEW c \in CredentialPosts, HandleCredentialRequest(c) PROVE InOrder'
    <2> DEFINE x == handler[c].snap
               y == ConsumeNonce(x)
               h == [pc |-> "proof", snap |-> y, next |-> Blank("none")]
    <2>1. /\ c \in Requests /\ InFlight \subseteq {c} /\ Current(c, handler[c])
          /\ handler[c].pc = "body" /\ UNCHANGED <<store, handed>> /\ Issued' = Issued
      BY <1>9, <1>b, <1>d DEF HandleCredentialRequest, Issued
    <2>2. CASE Refused(c)
      BY <1>f, <2>1, <2>2 DEF Refused
    <2>3. CASE Awaits(c, "proof", y) /\ ~AlreadyIssued(x)
      <3>1. x \in Claim /\ y.state = x.state /\ y.credential = x.credential
        BY <1>a, <2>1 DEF Claim, ConsumeNonce
      <3>2. store.state # "expired" => Alike(y, store)
        BY <2>1, <3>1 DEF Current, Alike, Open
      <3>3. Open(x) /\ Open(y)
        BY <2>1, <2>3, <3>1 DEF Current, Open, AlreadyIssued
      <3>4. Current(c, h)
        BY <2>1, <3>2, <3>3 DEF Current, PastGuards
      <3>5. handler' = [handler EXCEPT ![c] = h]
        BY <2>3 DEF Awaits, Goes
      <3> HIDE DEF h
      <3> QED
        BY <1>0, <2>1, <3>4, <3>5, MovesOn
    <2> QED
      BY <1>9, <2>2, <2>3 DEF HandleCredentialRequest
  <1>10. ASSUME NEW p \in EmptyPosts, PostEmpty(p) PROVE InOrder'
    <2> DEFINE y == [store EXCEPT !.state = "active"]
               h == [pc |-> "save", snap |-> store, next |-> y]
    <2>1. /\ p \in Requests /\ InFlight \subseteq {p} /\ UNCHANGED <<store, handed>>
          /\ store.state = "pending"
      BY <1>10, <1>b, <1>c DEF PostEmpty
    <2>2. Alike(y, store)
      BY <1>a, <2>1 DEF Claim, Alike, Open
    <2>3. Current(p, h)
      BY <1>b, <2>1, <2>2 DEF Current, PastGuards
    <2>4. handler' = [handler EXCEPT ![p] = h]
      BY <1>10 DEF PostEmpty, Saves, Goes
    <2> HIDE DEF h
    <2> QED
      BY <1>0, <2>1, <2>3, <2>4, MovesOn
  <1>11. ASSUME NEW v \in VcapiPosts, PostDidAuth(v) PROVE InOrder'
    <2> DEFINE h == [pc |-> "proof", snap |-> store, next |-> Blank("none")]
    <2>1. /\ v \in Requests /\ InFlight \subseteq {v} /\ UNCHANGED <<store, handed>>
          /\ store.state \in {"pending", "active"}
      BY <1>11, <1>b, <1>c DEF PostDidAuth, AlreadyIssued
    <2>2. Current(v, h)
      BY <1>e, <2>1 DEF Current, PastGuards, Alike, Open
    <2>3. handler' = [handler EXCEPT ![v] = h]
      BY <1>11 DEF PostDidAuth, Awaits, Goes
    <2> HIDE DEF h
    <2> QED
      BY <1>0, <2>1, <2>2, <2>3, MovesOn
  <1>12. ASSUME NEW r \in Issuing, ProofAnswers(r) \/ StatusAnswers(r) PROVE InOrder'
    <2>1. /\ r \in Requests /\ InFlight \subseteq {r} /\ Current(r, handler[r])
          /\ handler[r].pc \in PastGuards /\ UNCHANGED <<store, handed>> /\ Issued' = Issued
      BY <1>12, <1>b, <1>d DEF ProofAnswers, StatusAnswers, PastGuards, Issued
    <2>2. CASE Refused(r)
      BY <1>f, <2>1, <2>2 DEF Refused
    <2>3. ASSUME NEW pc \in {"allocate", "sign"}, Awaits(r, pc, handler[r].snap)
          PROVE  InOrder'
      <3> DEFINE h == [pc |-> pc, snap |-> handler[r].snap, next |-> Blank("none")]
      <3>1. Current(r, h)
        BY <2>1 DEF Current, PastGuards
      <3>2. handler' = [handler EXCEPT ![r] = h]
        BY <2>3 DEF Awaits, Goes
      <3> HIDE DEF h
      <3> QED
        BY <1>0, <2>1, <3>1, <3>2, MovesOn
    <2> QED
      BY <1>12, <2>2, <2>3 DEF ProofAnswers, StatusAnswers
  <1>13. ASSUME NEW r \in Issuing, SigningAnswers(r) PROVE InOrder'
    <2> DEFINE x == handler[r].snap
               y == Completed(x, r)
               h == [pc |-> "save", snap |-> x, next |-> y]
    <2>1. /\ r \in Requests /\ InFlight \subseteq {r} /\ Current(r, handler[r])
          /\ handler[r].pc = "sign" /\ UNCHANGED <<store, handed>> /\ Issued' = Issued
      BY <1>13, <1>b, <1>d DEF SigningAnswers, Issued
    <2>2. CASE Refused(r)
      BY <1>f, <2>1, <2>2 DEF Refused
    <2>3. CASE Saves(r, x, y)
      <3>1. y.state = "complete" /\ y.credential = r
        BY <1>a, <2>1 DEF Claim, Completed
      <3>2. Open(x) /\ Issued = {}
        BY <2>1 DEF Current, PastGuards
      <3>3. store.state # "expired" => Open(store)
        BY <2>1, <3>2 DEF Current, Alike, Open
      <3>4. Current(r, h)
        BY <2>1, <3>1, <3>2, <3>3 DEF Current, PastGuards
      <3>5. handler' = [handler EXCEPT ![r] = h]
        BY <2>3 DEF Saves, Goes
      <3> HIDE DEF h
      <3> QED
        BY <1>0, <2>1, <3>4, <3>5, MovesOn
    <2> QED
      BY <1>13, <2>2, <2>3 DEF SigningAnswers
  <1>14. ASSUME NEW r \in Requests, SaveExchange(r) \/ StoreFault(r) PROVE InOrder'
    <2>1. /\ InFlight \subseteq {r} /\ Current(r, handler[r]) /\ handler[r].pc = "save"
          /\ Ends(r)
          /\ store' = store \/ (store.state # "expired" /\ store' = handler[r].next)
          /\ handed' \subseteq handed \cup {r}
          /\ r \in handed' \ handed => store' \in {handler[r].next, store}
                                       /\ (store' = store => store.state = "expired"
                                                             \/ store = handler[r].next)
      BY <1>14, <1>d DEF SaveExchange, StoreFault, Put
    <2>2. CASE r \notin Issuing
      <3>1. Issued' \subseteq Issued
        BY <2>1, <2>2 DEF Issued
      <3>2. Issued # {} => store'.state \in {"complete", "expired"}
        BY <1>0, <2>1, <2>2 DEF InOrder, Current, Alike, Open
      <3> QED
        BY <1>0, <2>1, <3>1, <3>2, EndsInOrder DEF InOrder
    <2>3. CASE r \in Issuing
      <3>1. Issued = {} /\ Issued' \subseteq {r}
        BY <2>1, <2>3 DEF Current, Issued
      <3>2. Issued' # {} => store'.state \in {"complete", "expired"}
        BY <2>1, <2>3, <3>1 DEF Current, Issued, Alike, Open
      <3> QED
        BY <1>0, <2>1, <3>1, <3>2, EndsInOrder
    <2> QED
      BY <2>2, <2>3
  <1>15. CASE UNCHANGED vars
    <2>1. InFlight' = InFlight /\ Issued' = Issued
      BY <1>15 DEF vars, InFlight, Issued
    <2> QED
      BY <1>0, <1>15, <2>1 DEF vars, InOrder, Current, Alike, Open
  <1> QED
    BY <1>1, <1>2, <1>3, <1>4, <1>5, <1>6, <1>7, <1>8, <1>9, <1>10, <1>11, <1>12, <1>13,
       <1>14, <1>15 DEF Next, Issue, PostToken, PostCredential

-----------------------------------------------------------------------------
(* If clients make one request at a time, an exchange hands out one          *)
(* credential, whatever fails and whichever protocols they use.              *)
THEOREM OneCredentialInOrder ==
  ASSUME MaxInFlight = 1, IsFiniteSet(Requests)
  PROVE  Spec => []CredentialIssuedOnce
  <1>1. SerialInv => CredentialIssuedOnce
    <2> SUFFICES ASSUME SerialInv PROVE Cardinality(Issued) <= 1
      BY DEF CredentialIssuedOnce, Issued
    <2>1. CASE Issued = {}
      BY <2>1, FS_EmptySet
    <2>2. ASSUME NEW r \in Issued PROVE Cardinality(Issued) <= 1
      <3>1. Issued = {r}
        BY <2>2 DEF SerialInv, InOrder
      <3>2. Cardinality({r}) = 1
        BY FS_Singleton
      <3> QED
        BY <3>1, <3>2
    <2> QED
      BY <2>1, <2>2
  <1> QED
    BY <1>1, SerialInit, SerialStep, PTL DEF Spec

LEMMA PromiseInit == SerialInv /\ Init => Promise!Init
  BY DEF Init, Blank, Promise!Init, Phase

LEMMA PromiseStep ==
  SerialInv /\ [Next]_vars => [Promise!Next]_<<Phase, store.credential>>
  <1> SUFFICES ASSUME SerialInv, [Next]_vars
               PROVE  Promise!Next \/ UNCHANGED <<Phase, store.credential>>
    OBVIOUS
  <1>0. /\ store \in Claim
        /\ store.credential # None <=> store.state = "complete"
    BY DEF SerialInv, ClaimInv, TypeOK, RecordsSound, Sound
  <1>1. CASE store' = store
    BY <1>1 DEF Phase
  <1>2. CASE CreateExchangeClaim
    <2>1. Phase = "new" /\ Phase' = "open" /\ UNCHANGED store.credential
      BY <1>0, <1>2 DEF CreateExchangeClaim, NewClaim, Blank, Phase
    <2> QED
      BY <2>1 DEF Promise!Next, Promise!Open
  <1>3. CASE Expire
    <2>1. /\ Phase \in {"open", "complete"} /\ Phase' = "gone"
          /\ store'.credential = None
      BY <1>0, <1>3 DEF Expire, Blank, Phase, Claim, ClaimState
    <2> QED
      BY <2>1 DEF Promise!Next, Promise!Expire
  <1>4. ASSUME NEW r \in Requests, SaveExchange(r) \/ StoreFault(r), store' # store
        PROVE  Promise!Next \/ UNCHANGED <<Phase, store.credential>>
    <2>1. /\ store.state # "expired" /\ store' = handler[r].next
          /\ handler[r].pc = "save" /\ r \in InFlight
      BY <1>4 DEF SaveExchange, StoreFault, Put, InFlight
    <2>2. Current(r, handler[r])
      BY <2>1 DEF SerialInv, InOrder
    <2>3. CASE Alike(store', store)
      <3>1. UNCHANGED <<Phase, store.credential>>
        BY <2>3 DEF Alike, Open, Phase
      <3> QED
        BY <3>1
    <2>4. CASE Open(store) /\ r \in Issuing /\ store'.state = "complete"
               /\ store'.credential = r
      <3>1. Phase = "open" /\ Phase' = "complete"
        BY <2>4 DEF Open, Phase
      <3> QED
        BY <2>4, <3>1 DEF Promise!Next, Promise!Issue
    <2> QED
      BY <2>1, <2>2, <2>3, <2>4 DEF Current
  <1> QED
    BY <1>1, <1>2, <1>3, <1>4
       DEF Next, Issue, vars, SecretLapses, Crash, GetCredentialOffer, PostToken,
           HandleTokenRequest, PostNonce, PostCredential, HandleCredentialRequest,
           PostEmpty, PostDidAuth, ProofAnswers, StatusAnswers, SigningAnswers

(* With one request at a time the record implements ClaimPromise: once       *)
(* complete it shows the same credential until it expires.                   *)
THEOREM InOrderKeepsPromise ==
  ASSUME MaxInFlight = 1, IsFiniteSet(Requests)
  PROVE  Spec => KeepsPromise
  <1>1. Init => SerialInv
    BY SerialInit
  <1>2. SerialInv /\ [Next]_vars => SerialInv'
    BY SerialStep
  <1> QED
    BY <1>1, <1>2, PromiseInit, PromiseStep, PTL DEF Spec, KeepsPromise, Promise!Spec

-----------------------------------------------------------------------------
(* In process a redeemed code stays redeemed, whoever else is in flight *)

Done(r) == handler[r].pc = "done"

(* The code that the record x shows was minted by a request that is over.    *)
Minted(x) == x.code # None => Done(x.code)

SameCode(x, y) == x.code = y.code /\ x.codeUsed = y.codeUsed

(* What the request r, where h says, is about to save brings no redeemed     *)
(* code back: it is a new code, a used one, part of a completion, or the     *)
(* code that is stored.  No other request acts before it has saved.          *)
KeepsRedeemed(r, h) ==
  h.pc = "save" =>
    /\ turn = r
    /\ h.next.state # "expired"
    /\ h.next.code = r \/ Minted(h.next)
    /\ r \in TokenPosts => h.next.codeUsed
    /\ \/ r \in OfferGets /\ h.next.code = r
       \/ h.next.codeUsed
       \/ h.next.state = "complete"
       \/ store.state = "expired"
       \/ /\ store.state # "none" /\ SameCode(h.next, store)
          /\ store.state = "complete" => h.next.state = "complete"

CodesInv ==
  /\ \A r \in InFlight : handler[r].snap.state # "expired" /\ Minted(handler[r].snap)
  /\ \A r \in Requests : KeepsRedeemed(r, handler[r])
  /\ Minted(store)
  /\ store.state = "expired" => store.code = None
  /\ \A r \in Requests \cap handed : Done(r)
  /\ \A o \in OfferGets, t \in TokenPosts : <<o, t>> \in spent => o \in handed
  /\ CodeStaysRedeemed

LEMMA CodesInit == Init => CodesInv
  <1> SUFFICES ASSUME Init PROVE CodesInv
    OBVIOUS
  <1>1. InFlight = {} /\ \A r \in Requests : handler[r].pc = "idle"
    BY RestingTyped DEF Init, InFlight, ClaimPc
  <1>2. store.code = None /\ handed = {} /\ spent = {}
    BY DEF Init, Blank
  <1> QED
    BY <1>1, <1>2 DEF CodesInv, KeepsRedeemed, Minted, CodeStaysRedeemed

(* Where a request has the turn, no other one is about to save.              *)
LEMMA OneSaver ==
  ASSUME CodesInv, NEW r \in Requests, HasTurn(r), NEW q \in Requests, q # r
  PROVE  handler[q].pc # "save"
  BY DEF CodesInv, KeepsRedeemed, HasTurn

(* The request goes on, and may have presented a code.                       *)
LEMMA CodesMoveOn ==
  ASSUME TypeOK, CodesInv, NEW r \in Requests, HasTurn(r), ~Done(r),
         NEW h, handler' = [handler EXCEPT ![r] = h], h.pc # "done",
         UNCHANGED <<store, handed>>,
         \A o \in OfferGets, t \in TokenPosts :
           <<o, t>> \in spent' => <<o, t>> \in spent \/ (t = r /\ o \in handed),
         h.snap.state # "expired", Minted(h.snap), KeepsRedeemed(r, h)'
  PROVE  CodesInv'
  <1>1. handler'[r] = h /\ \A q \in Requests : q # r => handler'[q] = handler[q]
    BY DEF TypeOK
  <1>2. \A q \in Requests : Done(q) => q # r /\ Done(q)'
    BY <1>1 DEF Done
  <1>3. ASSUME NEW x, x.code \in Requests \cup {None}, Minted(x) PROVE x.code # None => Done(x.code)'
    BY <1>2, <1>3 DEF Minted
  <1>4. /\ store.code \in Requests \cup {None}
        /\ \A q \in Requests : handler[q].snap.code \in Requests \cup {None}
    BY DEF TypeOK, Claim, ClaimHandler, Requests
  <1>5. ASSUME NEW q \in InFlight' PROVE (handler[q].snap.state # "expired" /\ Minted(handler[q].snap))'
    <2>1. CASE q = r
      <3>1. h.snap.code # None => Done(h.snap.code)'
        <4>1. h.snap.code # None => Done(h.snap.code)
          BY DEF Minted
        <4>2. h.snap.code # None => handler[h.snap.code].pc = "done" /\ handler[r].pc # "done"
          BY <4>1 DEF Done
        <4>3. h.snap.code # None /\ h.snap.code # r => handler'[h.snap.code] = handler[h.snap.code]
          BY DEF TypeOK
        <4> QED
          BY <4>2, <4>3 DEF Done
      <3> QED
        BY <1>1, <2>1, <3>1 DEF Minted
    <2>2. CASE q # r
      <3>1. q \in InFlight /\ handler'[q] = handler[q]
        BY <1>1, <1>5, <2>2 DEF InFlight
      <3>2. q \in Requests /\ handler[q].snap.state # "expired" /\ Minted(handler[q].snap)
        BY <3>1 DEF CodesInv, InFlight
      <3> QED
        BY <1>3, <1>4, <3>1, <3>2 DEF Minted
    <2> QED
      BY <2>1, <2>2
  <1>6. ASSUME NEW q \in Requests PROVE KeepsRedeemed(q, handler[q])'
    <2>1. CASE q = r
      BY <1>1, <2>1 DEF KeepsRedeemed
    <2>2. CASE q # r
      BY <1>1, <2>2, OneSaver DEF KeepsRedeemed
    <2> QED
      BY <2>1, <2>2
  <1>7. Minted(store)'
    BY <1>3, <1>4 DEF CodesInv, Minted
  <1>8. \A q \in Requests \cap handed' : Done(q)'
    BY <1>2 DEF CodesInv
  <1>9. OfferGets \cup TokenPosts \subseteq Requests
    BY DEF Requests
  <1>10. CodeStaysRedeemed'
    <2>1. r \notin handed
      BY DEF CodesInv
    <2> QED
      BY <2>1 DEF CodesInv, CodeStaysRedeemed
  <1> QED
    BY <1>5, <1>6, <1>7, <1>8, <1>10 DEF CodesInv

(* The request ends.                                                         *)
LEMMA CodesEnd ==
  ASSUME TypeOK, CodesInv, NEW r \in Requests, HasTurn(r), Ends(r),
         store' \in Claim, store'.code = r \/ Minted(store'),
         store'.state = "expired" => store'.code = None,
         \A q \in Requests \cap handed' : q = r \/ Done(q),
         \A o \in OfferGets, t \in TokenPosts : <<o, t>> \in spent' => o \in handed',
         CodeStaysRedeemed'
  PROVE  CodesInv'
  <1>1. handler'[r].pc = "done" /\ \A q \in Requests : q # r => handler'[q] = handler[q]
    BY RestingTyped DEF TypeOK, Ends, ClaimPc
  <1>2. \A q \in Requests : q = r \/ Done(q) => Done(q)'
    BY <1>1 DEF Done
  <1>3. ASSUME NEW q \in InFlight' PROVE (handler[q].snap.state # "expired" /\ Minted(handler[q].snap))'
    <2>1. q \in InFlight /\ q \in Requests /\ handler'[q] = handler[q]
      BY <1>1, <1>3 DEF InFlight
    <2>2. handler[q].snap.state # "expired" /\ Minted(handler[q].snap)
      BY <2>1 DEF CodesInv
    <2>3. handler[q].snap.code \in Requests \cup {None}
      BY <2>1 DEF TypeOK, Claim, ClaimHandler, Requests
    <2> QED
      BY <1>2, <2>1, <2>2, <2>3 DEF Minted
  <1>4. \A q \in Requests : KeepsRedeemed(q, handler[q])'
    BY <1>1, OneSaver DEF KeepsRedeemed
  <1>5. Minted(store)'
    <2>1. store'.code \in Requests \cup {None}
      BY DEF Claim, Requests
    <2>2. store'.code # None => store'.code = r \/ Done(store'.code)
      BY DEF Minted
    <2> QED
      BY <1>2, <2>1, <2>2 DEF Minted
  <1>6. \A q \in Requests \cap handed' : Done(q)'
    BY <1>2
  <1> QED
    BY <1>3, <1>4, <1>5, <1>6 DEF CodesInv

(* A request that ends without a save may have answered with the live code.  *)
LEMMA CodesRefused ==
  ASSUME TypeOK, CodesInv, NEW r \in Requests, HasTurn(r), Ends(r), UNCHANGED <<store, spent>>,
         handed' = handed \/ handed' = handed \cup {store.code}
  PROVE  CodesInv'
  <1>1. store' \in Claim /\ Minted(store)' = Minted(store)' /\ handed \subseteq handed'
    BY DEF TypeOK
  <1>2. store'.code = r \/ Minted(store')
    <2>1. Minted(store)
      BY DEF CodesInv
    <2> QED
      BY <2>1 DEF Minted
  <1>3. \A q \in Requests \cap handed' : q = r \/ Done(q)
    BY ClaimNoneAssumption DEF CodesInv, Minted
  <1>4. CodeStaysRedeemed'
    <2>1. store.code \notin TokenPosts
      BY ClaimKindsAssumption DEF TypeOK, Claim, Requests
    <2> QED
      BY <2>1 DEF CodesInv, CodeStaysRedeemed
  <1> QED
    BY <1>1, <1>2, <1>3, <1>4, CodesEnd DEF CodesInv

(* The save, and the answer after it, or a fault in its stead.               *)
LEMMA CodesSaved ==
  ASSUME TypeOK, CodesInv, NEW r \in Requests, SaveExchange(r) \/ StoreFault(r)
  PROVE  CodesInv'
  <1> DEFINE x == handler[r].next
  <1>1. /\ handler[r].pc = "save" /\ HasTurn(r) /\ Ends(r) /\ spent' = spent
        /\ handed \subseteq handed' /\ handed' \subseteq handed \cup {r}
        /\ store' = store \/ (store.state # "expired" /\ store' = x)
        /\ r \in handed' => r \in handed \/ store' = x \/ store.state = "expired"
    BY DEF SaveExchange, StoreFault, Put
  <1>2. x \in Claim /\ store \in Claim
    BY DEF TypeOK, ClaimHandler
  <1>3. /\ x.state # "expired" /\ (x.code = r \/ Minted(x))
        /\ r \in TokenPosts => x.codeUsed
        /\ \/ r \in OfferGets /\ x.code = r
           \/ x.codeUsed
           \/ x.state = "complete"
           \/ store.state = "expired"
           \/ SameCode(x, store) /\ (store.state = "complete" => x.state = "complete")
    BY <1>1 DEF CodesInv, KeepsRedeemed
  <1> HIDE DEF x
  <1>4. /\ store' \in Claim /\ (store'.state = "expired" => store'.code = None)
        /\ store'.code = r \/ Minted(store')
    <2>1. CASE store' = store
      BY <1>2, <2>1 DEF CodesInv, Minted
    <2>2. CASE store' = x
      BY <1>2, <1>3, <2>2 DEF Minted
    <2> QED
      BY <1>1, <2>1, <2>2
  <1>5. \A q \in Requests \cap handed' : q = r \/ Done(q)
    BY <1>1 DEF CodesInv
  \* No code of its own was handed out, and none was exchanged.
  <1>6. ~Done(r) /\ r \notin handed
    BY <1>1 DEF CodesInv, Done
  <1>7. CodeStaysRedeemed'
    <2> SUFFICES ASSUME NEW o \in OfferGets, NEW t \in TokenPosts, t \in handed', <<o, t>> \in spent,
                        store'.code = o
                 PROVE  store'.codeUsed \/ store'.state = "complete"
      BY <1>1 DEF CodeStaysRedeemed
    <2>1. o # r
      BY <1>6 DEF CodesInv
    <2>2. t \in handed => (store.code = o => store.codeUsed \/ store.state = "complete")
      BY DEF CodesInv, CodeStaysRedeemed
    <2>3. store.state = "expired" => store.code # o
      BY ClaimNoneAssumption DEF CodesInv, Requests
    <2>4. CASE t = r
      <3>1. r \in handed' /\ r \in TokenPosts /\ (store' = x \/ store.state = "expired")
        BY <1>1, <1>6, <2>4
      <3> QED
        BY <1>1, <1>3, <2>3, <3>1
    <2>5. CASE t # r /\ store' = store
      BY <1>1, <2>2, <2>5
    <2>6. CASE t # r /\ store' = x /\ store.state # "expired"
      <3>1. t \in handed
        BY <1>1, <2>6
      <3>2. CASE SameCode(x, store) /\ (store.state = "complete" => x.state = "complete")
        BY <2>2, <2>6, <3>1, <3>2 DEF SameCode
      <3> QED
        BY <1>3, <2>1, <2>6, <3>2
    <2> QED
      BY <1>1, <2>4, <2>5, <2>6
  <1>8. \A o \in OfferGets, t \in TokenPosts : <<o, t>> \in spent' => o \in handed'
    BY <1>1 DEF CodesInv
  <1> QED
    BY <1>1, <1>4, <1>5, <1>7, <1>8, CodesEnd

LEMMA CodesStep ==
  ASSUME StoreYields = FALSE
  PROVE  TypeOK /\ CodesInv /\ [Next]_vars => CodesInv'
  <1> SUFFICES ASSUME TypeOK, CodesInv, [Next]_vars PROVE CodesInv'
    OBVIOUS
  <1>a. /\ store \in Claim
        /\ \A r \in Requests : handler[r].snap \in Claim /\ handler[r].next \in Claim
    BY DEF TypeOK, ClaimHandler
  <1>b. /\ OfferGets \cup TokenPosts \cup NoncePosts \cup EmptyPosts \cup Issuing \subseteq Requests
        /\ CredentialPosts \subseteq Issuing /\ VcapiPosts \subseteq Issuing
        /\ OfferGets \cap TokenPosts = {} /\ NoncePosts \cap TokenPosts = {}
        /\ Issuing \cap TokenPosts = {} /\ EmptyPosts \cap TokenPosts = {}
    BY ClaimKindsAssumption DEF Requests, Issuing, Secrets
  <1>c. ASSUME NEW r \in Requests, Starts(r)
        PROVE  /\ HasTurn(r) /\ ~Done(r) /\ store.state \notin {"none", "expired"}
               /\ Minted(store)
    BY <1>c DEF Starts, CodesInv, Done
  <1>d. ASSUME NEW r \in Requests, handler[r].pc \notin {"idle", "done"}
        PROVE  /\ ~Done(r) /\ handler[r].snap.state # "expired" /\ Minted(handler[r].snap)
               /\ handler[r].snap \in Claim
    BY <1>a, <1>d DEF InFlight, CodesInv, Done
  \* A request awaits with what it read.
  <1>e. ASSUME NEW r \in Requests, HasTurn(r), ~Done(r), NEW pc \in PastGuards \cup {"body"}, NEW x,
               Awaits(r, pc, x), UNCHANGED <<store, handed>>, x.state # "expired", Minted(x),
               \A o \in OfferGets, t \in TokenPosts : <<o, t>> \in spent' => <<o, t>> \in spent
        PROVE  CodesInv'
    <2> DEFINE h == [pc |-> pc, snap |-> x, next |-> Blank("none")]
    <2>1. h.pc \notin {"done", "save"} /\ h.snap = x
      BY DEF PastGuards
    <2>2. handler' = [handler EXCEPT ![r] = h] /\ KeepsRedeemed(r, h)'
      BY <1>e, <2>1 DEF Awaits, Goes, KeepsRedeemed
    <2> HIDE DEF h
    <2> QED
      BY <1>e, <2>1, <2>2, CodesMoveOn
  \* A request is about to save y, and keeps the turn.
  <1>f. ASSUME NEW r \in Requests, HasTurn(r), ~Done(r), NEW x, NEW y, Saves(r, x, y),
               UNCHANGED <<store, handed>>, x.state # "expired", Minted(x),
               \A o \in OfferGets, t \in TokenPosts :
                 <<o, t>> \in spent' => <<o, t>> \in spent \/ (t = r /\ o \in handed),
               y \in Claim, y.state # "expired", y.code = r \/ y.code = x.code,
               r \in TokenPosts => y.codeUsed,
               \/ r \in OfferGets /\ y.code = r
               \/ y.codeUsed \/ y.state = "complete"
               \/ /\ store.state # "none" /\ SameCode(y, store)
                  /\ store.state = "complete" => y.state = "complete"
        PROVE  CodesInv'
    <2> DEFINE h == [pc |-> "save", snap |-> x, next |-> y]
    <2>1. h.pc = "save" /\ h.snap = x /\ h.next = y
      OBVIOUS
    <2>2. handler' = [handler EXCEPT ![r] = h] /\ turn' = r
      BY <1>f DEF Saves, Goes, Continue
    <2>3. y.code = r \/ Minted(y)'
      <3>1. y.code \in Requests \cup {None}
        BY <1>f DEF Claim, Requests
      <3>2. y.code # r /\ y.code # None => Done(y.code)
        BY <1>f DEF Minted
      <3>3. \A q \in Requests : q # r => handler'[q] = handler[q]
        BY <2>2 DEF TypeOK
      <3> QED
        BY <3>1, <3>2, <3>3 DEF Minted, Done
    <2> HIDE DEF h
    <2>4. KeepsRedeemed(r, h)'
      BY <1>f, <2>1, <2>2, <2>3 DEF KeepsRedeemed, SameCode, Minted
    <2> QED
      BY <1>f, <2>1, <2>2, <2>4, CodesMoveOn
  <1>g. ASSUME NEW r \in Requests, HasTurn(r), Refused(r), UNCHANGED <<store, handed>>
        PROVE  CodesInv'
    BY <1>g, CodesRefused DEF Refused
  <1>1. CASE CreateExchangeClaim
    <2>1. /\ store.state = "none" /\ store'.code = None /\ store'.state = "pending"
          /\ InFlight' = InFlight /\ UNCHANGED <<handler, turn, handed, spent>>
      BY <1>1 DEF CreateExchangeClaim, NewClaim, Blank, InFlight
    <2>2. \A o \in OfferGets : o # None
      BY <1>b
    <2> QED
      BY <2>1, <2>2 DEF CodesInv, KeepsRedeemed, Minted, Done, CodeStaysRedeemed
  <1>2. CASE SecretLapses \/ UNCHANGED vars
    <2>1. InFlight' = InFlight /\ UNCHANGED <<store, handler, turn, handed, spent>>
      BY <1>2 DEF SecretLapses, InFlight, vars
    <2> QED
      BY <2>1 DEF CodesInv, KeepsRedeemed, Minted, SameCode, Done, CodeStaysRedeemed
  <1>3. CASE Expire
    <2>1. /\ store'.code = None /\ store'.state = "expired"
          /\ InFlight' = InFlight /\ UNCHANGED <<handler, turn, handed, spent>>
      BY <1>3 DEF Expire, Blank, InFlight
    <2>2. \A o \in OfferGets : o # None
      BY <1>b
    <2> QED
      BY <2>1, <2>2 DEF CodesInv, KeepsRedeemed, Minted, Done, CodeStaysRedeemed
  <1>4. CASE Crash
    <2>1. /\ \A r \in Requests : handler'[r].pc \in {"idle", "done"} /\ (Done(r) => Done(r)')
          /\ UNCHANGED <<store, handed, spent>>
      BY <1>4, RestingTyped DEF Crash, InFlight, ClaimPc, Done
    <2>2. InFlight' = {} /\ \A r \in Requests : KeepsRedeemed(r, handler[r])'
      BY <2>1 DEF InFlight, KeepsRedeemed
    <2>3. store.code \in Requests \cup {None}
      BY <1>a DEF Claim, Requests
    <2> QED
      BY <2>1, <2>2, <2>3 DEF CodesInv, Minted, CodeStaysRedeemed
  <1>5. ASSUME NEW o \in OfferGets, GetCredentialOffer(o) PROVE CodesInv'
    <2>1. o \in Requests /\ Starts(o) /\ UNCHANGED <<store, spent>>
      BY <1>5, <1>b DEF GetCredentialOffer
    <2>2. CASE Ends(o) /\ handed' = handed \cup {store.code}
      BY <1>c, <2>1, <2>2, CodesRefused
    <2>3. CASE Saves(o, store, EnsurePreAuthorizedCode(store, o)) /\ UNCHANGED handed
      <3> DEFINE y == EnsurePreAuthorizedCode(store, o)
      <3>1. y \in Claim /\ y.code = o /\ y.state = store.state
        BY <1>a DEF Claim, EnsurePreAuthorizedCode
      <3> HIDE DEF y
      <3> QED
        BY <1>b, <1>c, <1>f, <2>1, <2>3, <3>1 DEF y
    <2> QED
      BY <1>5, <2>2, <2>3 DEF GetCredentialOffer
  <1>6. ASSUME NEW r \in Requests, NEW pc \in {"body", "proof"}, Starts(r),
               Awaits(r, pc, store), UNCHANGED <<store, handed, spent>>
        PROVE  CodesInv'
    BY <1>6, <1>c, <1>e DEF PastGuards
  <1>7. ASSUME NEW t \in TokenPosts, HandleTokenRequest(t) PROVE CodesInv'
    <2> DEFINE x == handler[t].snap
               y == SetAccessToken(RedeemPreAuthorizedCode(x), t)
    <2>1. /\ t \in Requests /\ HasTurn(t) /\ handler[t].pc \notin {"idle", "done"}
          /\ UNCHANGED <<store, handed>> /\ x \in Claim
      BY <1>7, <1>a, <1>b DEF HandleTokenRequest
    <2>2. ~Done(t) /\ x.state # "expired" /\ Minted(x)
      BY <1>d, <2>1
    <2>3. CASE Refused(t)
      BY <1>g, <2>1, <2>3
    <2>4. ASSUME NEW presented \in handed \cap OfferGets, Saves(t, x, y),
                 spent' = spent \cup {<<presented, t>>}
          PROVE  CodesInv'
      <3>1. y \in Claim /\ y.code = x.code /\ y.codeUsed /\ y.state = x.state
        BY <2>1 DEF Claim, SetAccessToken, RedeemPreAuthorizedCode
      <3>2. \A o \in OfferGets, q \in TokenPosts :
              <<o, q>> \in spent' => <<o, q>> \in spent \/ (q = t /\ o \in handed)
        BY <2>4
      <3> HIDE DEF x, y
      <3> QED
        BY <1>f, <2>1, <2>2, <2>4, <3>1, <3>2
    <2>5. ~Redeemable(x, None)
      BY DEF Redeemable, LiveCode
    <2> QED
      BY <1>7, <2>3, <2>4, <2>5 DEF HandleTokenRequest
  <1>8. ASSUME NEW r \in NoncePosts \cup EmptyPosts, NEW y \in Claim, Starts(r), Saves(r, store, y),
               SameCode(y, store), y.state # "expired",
               store.state = "complete" => y.state = "complete",
               UNCHANGED <<store, handed, spent>>
        PROVE  CodesInv'
    <2>1. r \in Requests /\ r \notin TokenPosts /\ y.code = store.code
      BY <1>8, <1>b DEF SameCode
    <2> QED
      BY <1>8, <1>c, <1>f, <2>1
  <1>9. ASSUME NEW n \in NoncePosts, PostNonce(n) PROVE CodesInv'
    <2> DEFINE y == MintNonce(store, n)
    <2>1. y \in Claim /\ SameCode(y, store) /\ y.state = store.state
      BY <1>a DEF Claim, MintNonce, SameCode
    <2> QED
      BY <1>8, <1>9, <1>b, <1>c, <2>1 DEF PostNonce
  <1>10. ASSUME NEW p \in EmptyPosts, PostEmpty(p) PROVE CodesInv'
    <2> DEFINE y == [store EXCEPT !.state = "active"]
    <2>1. y \in Claim /\ SameCode(y, store) /\ y.state = "active" /\ store.state # "complete"
      BY <1>a, <1>10 DEF Claim, ClaimState, SameCode, PostEmpty
    <2> QED
      BY <1>8, <1>10, <2>1 DEF PostEmpty
  <1>11. ASSUME NEW c \in CredentialPosts, HandleCredentialRequest(c) PROVE CodesInv'
    <2> DEFINE x == handler[c].snap
    <2>1. /\ c \in Requests /\ c \notin TokenPosts /\ HasTurn(c)
          /\ handler[c].pc \notin {"idle", "done"} /\ UNCHANGED <<store, handed>> /\ x \in Claim
      BY <1>11, <1>a, <1>b DEF HandleCredentialRequest
    <2>2. CASE Refused(c)
      BY <1>g, <2>1, <2>2
    <2>3. ASSUME NEW token, NEW nonce, Awaits(c, "proof", ConsumeNonce(x)),
                 spent' = spent \cup {<<token, c>>, <<nonce, c>>}
          PROVE  CodesInv'
      <3>1. ConsumeNonce(x).code = x.code /\ ConsumeNonce(x).state = x.state
        BY <2>1 DEF Claim, ConsumeNonce
      <3>2. \A o \in OfferGets, t \in TokenPosts : <<o, t>> \in spent' => <<o, t>> \in spent
        BY <2>1, <2>3
      <3>3. ~Done(c) /\ ConsumeNonce(x).state # "expired" /\ Minted(ConsumeNonce(x))
        BY <1>d, <2>1, <3>1 DEF Minted
      <3> QED
        BY <1>e, <2>1, <2>3, <3>2, <3>3 DEF PastGuards
    <2> QED
      BY <1>11, <2>2, <2>3 DEF HandleCredentialRequest
  <1>12. ASSUME NEW r \in Issuing, Issue(r) PROVE CodesInv'
    <2> DEFINE x == handler[r].snap
    <2>1. /\ r \in Requests /\ r \notin TokenPosts /\ HasTurn(r) /\ handler[r].pc \notin {"idle", "done"}
          /\ UNCHANGED <<store, handed>> /\ x \in Claim
      BY <1>12, <1>a, <1>b DEF Issue, ProofAnswers, StatusAnswers, SigningAnswers
    <2>2. ~Done(r) /\ x.state # "expired" /\ Minted(x)
      BY <1>d, <2>1
    <2>3. CASE Refused(r)
      BY <1>g, <2>1, <2>3
    <2>4. ASSUME NEW pc \in {"allocate", "sign"}, Awaits(r, pc, x), UNCHANGED spent
          PROVE  CodesInv'
      BY <1>e, <2>1, <2>2, <2>4 DEF PastGuards
    <2>5. CASE Saves(r, x, Completed(x, r)) /\ UNCHANGED spent
      <3> DEFINE y == Completed(x, r)
      <3>1. y \in Claim /\ y.code = x.code /\ y.state = "complete"
        BY <1>12, <2>1 DEF Claim, ClaimState, Completed
      <3> HIDE DEF x, y
      <3> QED
        BY <1>f, <2>1, <2>2, <2>5, <3>1 DEF y
    <2> QED
      BY <1>12, <2>3, <2>4, <2>5 DEF Issue, ProofAnswers, StatusAnswers, SigningAnswers
  <1>13. ASSUME NEW r \in Requests, SaveExchange(r) \/ StoreFault(r) PROVE CodesInv'
    BY <1>13, CodesSaved
  <1>14. ASSUME NEW t \in TokenPosts, PostToken(t) PROVE CodesInv'
    BY <1>6, <1>14, <1>b DEF PostToken
  <1>15. ASSUME NEW c \in CredentialPosts, PostCredential(c) PROVE CodesInv'
    BY <1>6, <1>15, <1>b DEF PostCredential
  <1>16. ASSUME NEW v \in VcapiPosts, PostDidAuth(v) PROVE CodesInv'
    BY <1>6, <1>16, <1>b DEF PostDidAuth
  <1> QED
    BY <1>1, <1>2, <1>3, <1>4, <1>5, <1>7, <1>9, <1>10, <1>11, <1>12, <1>13, <1>14, <1>15, <1>16
       DEF Next

(* In process, for any number of requests in flight by both protocols, and   *)
(* any number of faults: a code that was exchanged for a token is not live   *)
(* again, except in the record of a completed exchange.  A request that      *)
(* saves an older snapshot either marks the code used itself or completes    *)
(* the exchange; the others read and save in one turn of the event loop      *)
(* (handleTokenRequest, handleCredentialRequest, participateInClaimExchange, *)
(* ensurePreAuthorizedCode, saveExchange).                                   *)
THEOREM RedeemedStaysRedeemed ==
  ASSUME StoreYields = FALSE
  PROVE  Spec => []CodeStaysRedeemed
  <1>1. Init => TypeOK /\ CodesInv
    BY TypeInit, CodesInit
  <1>2. TypeOK /\ CodesInv /\ [Next]_vars => (TypeOK /\ CodesInv)'
    BY TypeStep, CodesStep
  <1>3. CodesInv => CodeStaysRedeemed
    BY DEF CodesInv
  <1> QED
    BY <1>1, <1>2, <1>3, PTL DEF Spec
=============================================================================
