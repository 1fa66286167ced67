-------------------------- MODULE StatusPageProofs --------------------------
(***************************************************************************)
(* Theorems about a DIDAuth exchange and the page that watches it, for any *)
(* number of requests, holders and overlapping polls.                      *)
(*                                                                         *)
(* What the screen shows was an answer, an answer was the record, and the  *)
(* record may be a snapshot that a request carried across an await.  So    *)
(* the invariant speaks of all of them: whoever is shown by any of them    *)
(* signed (ShowsSigner).  That polling stops for a reason needs, besides,  *)
(* what an answer under way still says of the record and of the cookie by  *)
(* the time it arrives (AnswersHold).                                      *)
(***************************************************************************)
EXTENDS StatusPage, TLAPS

ShowsSigner(x) == x.holder \in IF x.state = "complete" THEN proven ELSE {None}

Signed ==
  /\ ShowsSigner(store)
  /\ \A r \in Requests : ShowsSigner(handler[r].exchange)
  /\ \A p \in Polls : ShowsSigner(poll[p].exchange)
  /\ ShowsSigner(page)

SignedInv == TypeOK /\ Signed

-----------------------------------------------------------------------------
LEMMA BlankTypes ==
  /\ \A s \in ExchangeState : NotStored(s) \in Exchange
  /\ \A pc \in HandlerPc : Resting(pc) \in [pc : HandlerPc, exchange : Exchange]
  /\ NoPoll \in Poll
BY DEF NotStored, Exchange, ExchangeState, Resting, HandlerPc, NoPoll, Poll, PollPc, Cookie

LEMMA BlanksShowNobody ==
  /\ \A s : s # "complete" => ShowsSigner(NotStored(s))
  /\ ShowsSigner(NoPoll.exchange)
BY DEF ShowsSigner, NotStored, NoPoll

(* What an exchange shows stays right when another holder proves itself.     *)
LEMMA ProvenGrows ==
  ASSUME NEW x, ShowsSigner(x), proven \subseteq proven'
  PROVE  x.holder \in IF x.state = "complete" THEN proven' ELSE {None}
BY DEF ShowsSigner

-----------------------------------------------------------------------------
LEMMA InitSigned == Init => SignedInv
<1> SUFFICES ASSUME Init PROVE SignedInv
  OBVIOUS
<1>1. ExchangeTypeOK
  <2>1. Resting("idle") \in [pc : HandlerPc, exchange : Exchange] /\ NotStored("none") \in Exchange
    BY BlankTypes DEF HandlerPc, ExchangeState
  <2> QED
    BY <2>1, DidAuthConstants DEF Init, ExchangeInit, ExchangeTypeOK
<1>2. page \in Page /\ poll \in [Polls -> Poll] /\ cookie \in Cookie /\ lapsed \in BOOLEAN
  <2>1. Shown("closed", 0) \in Page
    <3> "none" \in ExchangeState /\ "closed" \in PagePhase /\ 0 \in 0..MaxLoads
      BY PageConstants DEF ExchangeState, PagePhase
    <3> QED
      BY DEF Shown, Page
  <2> QED
    BY <2>1, BlankTypes DEF Init, Cookie
<1>3. Signed
  BY BlanksShowNobody DEF Init, ExchangeInit, Signed, ShowsSigner, Shown, Resting, NoPoll, NotStored
<1> QED
  BY <1>1, <1>2, <1>3 DEF SignedInv, TypeOK

(* One request's step: what it writes and what it keeps are its own.         *)
LEMMA OneRequest ==
  ASSUME SignedInv, NEW r \in Requests, NEW h, NEW x,
         h \in [pc : HandlerPc, exchange : Exchange], x \in Exchange,
         handler' = [handler EXCEPT ![r] = h], store' = x,
         proven \subseteq proven', proven' \subseteq Holders, faults' \in 0..MaxFaults,
         h.exchange.holder \in IF h.exchange.state = "complete" THEN proven' ELSE {None},
         x.holder \in IF x.state = "complete" THEN proven' ELSE {None},
         UNCHANGED pageVars
  PROVE  SignedInv'
<1>1. TypeOK'
  BY DEF SignedInv, TypeOK, ExchangeTypeOK, pageVars
<1>2. \A q \in Requests : ShowsSigner(handler[q].exchange)'
  <2> TAKE q \in Requests
  <2>1. ShowsSigner(handler[q].exchange)
    BY DEF SignedInv, Signed
  <2>2. handler'[q] = IF q = r THEN h ELSE handler[q]
    BY DEF SignedInv, TypeOK, ExchangeTypeOK
  <2> QED
    BY <2>1, <2>2 DEF ShowsSigner
<1>3. ShowsSigner(store)' /\ ShowsSigner(page)' /\ \A p \in Polls : ShowsSigner(poll[p].exchange)'
  BY DEF SignedInv, Signed, ShowsSigner, pageVars
<1> QED
  BY <1>1, <1>2, <1>3 DEF SignedInv, Signed

(* Steps of the page that leave the exchange and its requests alone.         *)
LEMMA PageOnly ==
  ASSUME SignedInv, store' = store, proven' = proven,
         handler' = handler, faults' \in 0..MaxFaults,
         page' \in Page, poll' \in [Polls -> Poll], cookie' \in Cookie, lapsed' \in BOOLEAN,
         ShowsSigner(page'),
         \A p \in Polls : ShowsSigner(poll'[p].exchange)
  PROVE  SignedInv'
<1>1. TypeOK'
  BY DEF SignedInv, TypeOK, ExchangeTypeOK
<1>2. Signed'
  BY DEF SignedInv, Signed, ShowsSigner
<1> QED
  BY <1>1, <1>2 DEF SignedInv

(* The steps of the exchange: what a request writes is what it read, opened  *)
(* or completed with the holder just proven.                                 *)
LEMMA SaveWrites ==
  ASSUME NEW r, NEW x, Save(r, x)
  PROVE  \/ /\ handler' = [handler EXCEPT ![r] = [pc |-> "save", exchange |-> x]]
            /\ store' = store
         \/ /\ handler' = [handler EXCEPT ![r] = Resting("done")]
            /\ store' = IF store.state = "expired" THEN store ELSE x
BY DEF Save, Put, Answer

LEMMA SaveSigned ==
  ASSUME SignedInv, NEW r \in Requests, NEW x \in Exchange, Save(r, x),
         proven \subseteq proven', proven' \subseteq Holders, faults' = faults,
         x.holder \in IF x.state = "complete" THEN proven' ELSE {None},
         UNCHANGED pageVars
  PROVE  SignedInv'
<1>1. store \in Exchange /\ faults' \in 0..MaxFaults
  BY DEF SignedInv, TypeOK, ExchangeTypeOK
<1>2. store.holder \in IF store.state = "complete" THEN proven' ELSE {None}
  BY ProvenGrows DEF SignedInv, Signed
<1>3. CASE /\ handler' = [handler EXCEPT ![r] = [pc |-> "save", exchange |-> x]]
           /\ store' = store
  <2> DEFINE h == [pc |-> "save", exchange |-> x]
  <2>1. h \in [pc : HandlerPc, exchange : Exchange] /\ h.exchange = x
    BY DEF HandlerPc
  <2> HIDE DEF h
  <2> QED
    BY <1>1, <1>2, <1>3, <2>1, OneRequest DEF h
<1>4. CASE /\ handler' = [handler EXCEPT ![r] = Resting("done")]
           /\ store' = IF store.state = "expired" THEN store ELSE x
  <2>1. Resting("done") \in [pc : HandlerPc, exchange : Exchange]
    BY BlankTypes DEF HandlerPc
  <2>2. Resting("done").exchange.state = "none" /\ Resting("done").exchange.holder = None
    BY DEF Resting, NotStored
  <2>3. store' \in Exchange
        /\ store'.holder \in IF store'.state = "complete" THEN proven' ELSE {None}
    BY <1>1, <1>2, <1>4
  <2> QED
    BY <1>1, <1>4, <2>1, <2>2, <2>3, OneRequest
<1> QED
  BY <1>3, <1>4, SaveWrites

LEMMA AnswerSigned ==
  ASSUME SignedInv, NEW r \in Requests, NEW pc \in HandlerPc, Answer(r, pc),
         store' = store, proven' = proven, faults' \in 0..MaxFaults, UNCHANGED pageVars
  PROVE  SignedInv'
<1>1. Resting(pc) \in [pc : HandlerPc, exchange : Exchange]
  BY BlankTypes
<1>2. Resting(pc).exchange.state = "none" /\ Resting(pc).exchange.holder = None
  BY DEF Resting, NotStored
<1>3. store \in Exchange /\ proven \subseteq Holders /\ ShowsSigner(store)
  BY DEF SignedInv, TypeOK, ExchangeTypeOK, Signed
<1> QED
  BY <1>1, <1>2, <1>3, OneRequest DEF Answer, ShowsSigner

LEMMA RequestSigned ==
  ASSUME SignedInv, NEW r \in Requests, RequestStep(r), UNCHANGED pageVars
  PROVE  SignedInv'
<1>a. store \in Exchange /\ proven \subseteq Holders /\ ShowsSigner(store)
      /\ handler[r].exchange \in Exchange /\ ShowsSigner(handler[r].exchange)
      /\ faults \in 0..MaxFaults /\ MaxFaults \in Nat
  BY DidAuthConstants DEF SignedInv, TypeOK, ExchangeTypeOK, Signed
<1>b. {"done", "failed"} \subseteq HandlerPc
  BY DEF HandlerPc
<1>1. CASE PostEmpty(r)
  <2>1. CASE store.state = "pending"
    <3>1. Opened(store) \in Exchange /\ Opened(store).state = "active" /\ Opened(store).holder = None
      BY <1>a, <2>1 DEF Opened, Exchange, ExchangeState, ShowsSigner
    <3> QED
      BY <1>1, <1>a, <2>1, <3>1, SaveSigned DEF PostEmpty
  <2>2. CASE store.state # "pending"
    BY <1>1, <1>a, <1>b, <2>2, AnswerSigned DEF PostEmpty
  <2> QED
    BY <2>1, <2>2
<1>2. CASE PostPresentation(r)
  <2>1. CASE Refused(store)
    BY <1>2, <1>a, <1>b, <2>1, AnswerSigned DEF PostPresentation
  <2>2. CASE ~Refused(store)
    <3> DEFINE h == [pc |-> "verify", exchange |-> store]
    <3>1. h \in [pc : HandlerPc, exchange : Exchange] /\ h.exchange = store
      BY <1>a DEF HandlerPc
    <3>2. handler' = [handler EXCEPT ![r] = h] /\ store' = store /\ proven' = proven
          /\ faults' = faults
      BY <1>2, <2>2 DEF PostPresentation
    <3> HIDE DEF h
    <3> QED
      BY <1>a, <3>1, <3>2, OneRequest DEF ShowsSigner
  <2> QED
    BY <2>1, <2>2
<1>3. CASE DidAuthVerified(r)
  <2>1. PICK d \in Holders : proven' = proven \cup {d} /\ Save(r, Completed(handler[r].exchange, d))
    BY <1>3 DEF DidAuthVerified
  <2> DEFINE x == Completed(handler[r].exchange, d)
  <2>2. x \in Exchange /\ x.state = "complete" /\ x.holder = d
    BY <1>a DEF Completed, Exchange, ExchangeState
  <2> HIDE DEF x
  <2>3. Save(r, x) /\ faults' = faults /\ proven' \subseteq Holders /\ proven \subseteq proven'
    BY <1>3, <1>a, <2>1 DEF DidAuthVerified, x
  <2> QED
    BY <2>1, <2>2, <2>3, SaveSigned
<1>4. CASE DidAuthRejected(r)
  BY <1>4, <1>a, <1>b, AnswerSigned DEF DidAuthRejected
<1>5. CASE SaveExchange(r)
  <2>1. Resting("done") \in [pc : HandlerPc, exchange : Exchange]
    BY BlankTypes, <1>b
  <2>2. Resting("done").exchange.state = "none" /\ Resting("done").exchange.holder = None
    BY DEF Resting, NotStored
  <2>3. store' \in Exchange /\ store'.holder \in IF store'.state = "complete" THEN proven ELSE {None}
    BY <1>5, <1>a DEF SaveExchange, Put, ShowsSigner
  <2> QED
    BY <1>5, <1>a, <2>1, <2>2, <2>3, OneRequest DEF SaveExchange, Answer
<1>6. CASE StoreFault(r)
  <2>1. Resting("failed") \in [pc : HandlerPc, exchange : Exchange]
    BY BlankTypes, <1>b
  <2>2. Resting("failed").exchange.state = "none" /\ Resting("failed").exchange.holder = None
    BY DEF Resting, NotStored
  <2>3. store' \in Exchange /\ store'.holder \in IF store'.state = "complete" THEN proven ELSE {None}
    BY <1>6, <1>a DEF StoreFault, Put, ShowsSigner
  <2>4. faults' \in 0..MaxFaults
    BY <1>6, <1>a DEF StoreFault
  <2> QED
    BY <1>6, <1>a, <2>1, <2>2, <2>3, <2>4, OneRequest DEF StoreFault, Answer
<1> QED
  BY <1>1, <1>2, <1>3, <1>4, <1>5, <1>6 DEF RequestStep

(* The steps of the page: an answer is the record of its time, the screen    *)
(* shows an answer.                                                          *)
LEMMA PageStepSigned ==
  ASSUME SignedInv, PageStep
  PROVE  SignedInv'
<1>a. /\ page \in Page /\ poll \in [Polls -> Poll] /\ cookie \in Cookie /\ lapsed \in BOOLEAN
      /\ store \in Exchange /\ ShowsSigner(store) /\ ShowsSigner(page)
      /\ faults \in 0..MaxFaults /\ MaxFaults \in Nat /\ MaxLoads \in Nat
      /\ \A p \in Polls : ShowsSigner(poll[p].exchange)
  BY DidAuthConstants, PageConstants DEF SignedInv, TypeOK, ExchangeTypeOK, Signed
<1>b. NoPoll \in Poll /\ ShowsSigner(NoPoll.exchange)
  BY BlankTypes, BlanksShowNobody
<1>c. Asked \in Poll /\ Asked.exchange = NoPoll.exchange
  BY <1>a, <1>b DEF Asked, NoPoll, Poll, PollPc
<1>d. \A p \in Polls, y \in Poll :
        ShowsSigner(y.exchange) /\ poll' = [poll EXCEPT ![p] = y] =>
          poll' \in [Polls -> Poll] /\ \A q \in Polls : ShowsSigner(poll'[q].exchange)
  BY <1>a
<1>1. CASE OpenPage
  <2>1. Shown("loading", page.loads + 1) \in Page
    <3>1. page.loads + 1 \in 0..MaxLoads
      BY <1>1, <1>a DEF OpenPage, Page
    <3> QED
      BY <3>1 DEF Shown, Page, PagePhase, ExchangeState
  <2>2. ShowsSigner(Shown("loading", page.loads + 1))
    BY DEF Shown, ShowsSigner
  <2>3. cookie' \in Cookie
    BY <1>1 DEF OpenPage, Cookie
  <2> QED
    BY <1>1, <1>a, <1>b, <2>1, <2>2, <2>3, PageOnly DEF OpenPage, exchangeVars
<1>2. CASE FetchProtocols
  <2>1. page' \in Page /\ ShowsSigner(page')
    BY <1>2, <1>a DEF FetchProtocols, Page, PagePhase, ShowsSigner
  <2>2. poll' \in [Polls -> Poll] /\ \A q \in Polls : ShowsSigner(poll'[q].exchange)
    BY <1>2, <1>a, <1>b, <1>c, <1>d DEF FetchProtocols
  <2> QED
    BY <1>2, <1>a, <2>1, <2>2, PageOnly DEF FetchProtocols, exchangeVars
<1>3. CASE FetchProtocolsFails
  <2>1. page' \in Page /\ ShowsSigner(page')
    BY <1>3, <1>a DEF FetchProtocolsFails, Page, PagePhase, ShowsSigner
  <2> QED
    BY <1>3, <1>a, <2>1, PageOnly DEF FetchProtocolsFails
<1>4. CASE Tick
  <2>1. poll' \in [Polls -> Poll] /\ \A q \in Polls : ShowsSigner(poll'[q].exchange)
    BY <1>4, <1>b, <1>c, <1>d DEF Tick
  <2> QED
    BY <1>4, <1>a, <2>1, PageOnly DEF Tick, exchangeVars
<1>5. ASSUME NEW p \in Polls, GetExchange(p)
      PROVE  SignedInv'
  <2> DEFINE good == Recognised(poll[p].cookie) /\ Readable(store)
  <2> DEFINE y == [poll[p] EXCEPT !.pc = IF good THEN "ok" ELSE "refused",
                                  !.exchange = IF good THEN store ELSE @]
  <2>1. y \in Poll /\ ShowsSigner(y.exchange)
    <3>1. poll[p] \in Poll /\ ShowsSigner(poll[p].exchange)
      BY <1>a
    <3> HIDE DEF good
    <3> QED
      BY <1>a, <3>1 DEF Poll, PollPc, ShowsSigner
  <2>2. poll' = [poll EXCEPT ![p] = y]
    BY <1>5, <1>a DEF GetExchange, Poll
  <2> HIDE DEF y
  <2> QED
    BY <1>5, <1>a, <1>d, <2>1, <2>2, PageOnly DEF GetExchange, exchangeVars
<1>6. ASSUME NEW p \in Polls, PollFails(p)
      PROVE  SignedInv'
  <2>1. [NoPoll EXCEPT !.pc = "error"] \in Poll
        /\ ShowsSigner([NoPoll EXCEPT !.pc = "error"].exchange)
    BY <1>b DEF NoPoll, Poll, PollPc
  <2> QED
    BY <1>6, <1>a, <1>d, <2>1, PageOnly DEF PollFails
<1>7. ASSUME NEW p \in Polls, PollAnswered(p)
      PROVE  SignedInv'
  <2>1. poll[p] \in Poll /\ ShowsSigner(poll[p].exchange)
    BY <1>a
  <2>2. page' \in Page /\ ShowsSigner(page')
    BY <1>7, <1>a, <2>1 DEF PollAnswered, Page, Poll, Exchange, ShowsSigner
  <2> QED
    BY <1>7, <1>a, <1>b, <1>d, <2>2, PageOnly DEF PollAnswered, exchangeVars
<1> QED
  BY <1>1, <1>2, <1>3, <1>4, <1>5, <1>6, <1>7 DEF PageStep

LEMMA EnvironmentSigned ==
  ASSUME SignedInv, EnvironmentStep
  PROVE  SignedInv'
<1>a. /\ page \in Page /\ poll \in [Polls -> Poll] /\ cookie \in Cookie /\ lapsed \in BOOLEAN
      /\ store \in Exchange /\ ShowsSigner(store) /\ ShowsSigner(page)
      /\ proven \subseteq Holders /\ faults \in 0..MaxFaults /\ MaxFaults \in Nat
      /\ handler \in [Requests -> [pc : HandlerPc, exchange : Exchange]]
      /\ \A r \in Requests : ShowsSigner(handler[r].exchange)
      /\ \A p \in Polls : ShowsSigner(poll[p].exchange)
  BY DidAuthConstants DEF SignedInv, TypeOK, ExchangeTypeOK, Signed
<1>b. NoPoll \in Poll /\ ShowsSigner(NoPoll.exchange)
  BY BlankTypes, BlanksShowNobody
<1>1. CASE OpenOtherPage
  <2>1. cookie' \in Cookie
    BY <1>1 DEF OpenOtherPage, Cookie
  <2> QED
    BY <1>1, <1>a, <2>1, PageOnly DEF OpenOtherPage, exchangeVars
<1>2. CASE RestartService
  <2>1. cookie' \in Cookie
    BY <1>2, <1>a DEF RestartService, Cookie
  <2>2. [NoPoll EXCEPT !.pc = "error"] \in Poll
        /\ ShowsSigner([NoPoll EXCEPT !.pc = "error"].exchange)
    BY <1>b DEF NoPoll, Poll, PollPc
  <2>3. poll' \in [Polls -> Poll] /\ \A p \in Polls : ShowsSigner(poll'[p].exchange)
    BY <1>2, <1>a, <2>2 DEF RestartService
  <2>4. Resting("failed") \in [pc : HandlerPc, exchange : Exchange]
        /\ ShowsSigner(Resting("failed").exchange)
    BY BlankTypes, BlanksShowNobody DEF HandlerPc, Resting
  <2>5. handler' \in [Requests -> [pc : HandlerPc, exchange : Exchange]]
        /\ \A r \in Requests : ShowsSigner(handler'[r].exchange)
    BY <1>2, <1>a, <2>4 DEF RestartService, Restart
  <2>6. store' = store /\ proven' = proven /\ page' = page /\ lapsed' = lapsed
        /\ faults' \in 0..MaxFaults
    BY <1>2, <1>a DEF RestartService, Restart
  <2> QED
    BY <1>a, <2>1, <2>3, <2>5, <2>6 DEF SignedInv, TypeOK, ExchangeTypeOK, Signed, ShowsSigner
<1>3. CASE TokenExpires
  <2>1. cookie' \in Cookie /\ lapsed' \in BOOLEAN
    BY <1>3, <1>a DEF TokenExpires, Cookie
  <2>2. \A p \in Polls : /\ [poll[p] EXCEPT !.cookie = "stale"] \in Poll
                         /\ [poll[p] EXCEPT !.cookie = "stale"].exchange = poll[p].exchange
    BY <1>a DEF Poll, Cookie
  <2>3. poll' \in [Polls -> Poll] /\ \A p \in Polls : ShowsSigner(poll'[p].exchange)
    BY <1>3, <1>a, <2>2 DEF TokenExpires
  <2> QED
    BY <1>3, <1>a, <2>1, <2>3, PageOnly DEF TokenExpires, exchangeVars
<1>4. CASE RecordExpires
  <2>1. NotStored("expired") \in Exchange
    BY BlankTypes DEF ExchangeState
  <2>2. store' \in Exchange /\ ShowsSigner(store')
    BY <1>4, <2>1, BlanksShowNobody DEF RecordExpires, Expire
  <2> QED
    BY <1>4, <1>a, <2>2 DEF RecordExpires, Expire, pageVars, SignedInv, TypeOK,
                            ExchangeTypeOK, Signed, ShowsSigner
<1> QED
  BY <1>1, <1>2, <1>3, <1>4 DEF EnvironmentStep

LEMMA CreateSigned ==
  ASSUME SignedInv, CreateExchange, UNCHANGED pageVars
  PROVE  SignedInv'
<1>1. NotStored("pending") \in Exchange
  BY BlankTypes DEF ExchangeState
<1>2. store' \in Exchange /\ ShowsSigner(store')
  BY <1>1, BlanksShowNobody DEF CreateExchange
<1> QED
  BY <1>2 DEF CreateExchange, pageVars, SignedInv, TypeOK, ExchangeTypeOK, Signed, ShowsSigner

LEMMA NextSigned == SignedInv /\ [Next]_vars => SignedInv'
<1> SUFFICES ASSUME SignedInv, [Next]_vars PROVE SignedInv'
  OBVIOUS
<1>1. CASE ExchangeStep
  BY <1>1, CreateSigned, RequestSigned DEF ExchangeStep
<1>2. CASE PageStep
  BY <1>2, PageStepSigned
<1>3. CASE EnvironmentStep
  BY <1>3, EnvironmentSigned
<1>4. CASE UNCHANGED vars
  BY <1>4 DEF vars, exchangeVars, pageVars, SignedInv, TypeOK, ExchangeTypeOK, Signed, ShowsSigner
<1> QED
  BY <1>1, <1>2, <1>3, <1>4 DEF Next

LEMMA SignedAlways == Spec => []SignedInv
<1> QED
  BY InitSigned, NextSigned, PTL DEF Spec

(* The state of exchange and page keeps its type, however requests overlap   *)
(* and whatever the page is answered.                                        *)
THEOREM PageTypeCorrect == Spec => []TypeOK
<1>1. SignedInv => TypeOK
  BY DEF SignedInv
<1> QED
  BY <1>1, SignedAlways, PTL

(* Whoever is shown as the holder signed a presentation posted to the        *)
(* exchange: with any store, any number of requests that overlap, and        *)
(* answers in any order.                                                     *)
THEOREM HolderAlwaysSigned == Spec => []OutcomeShowsSigner
<1>1. SignedInv => OutcomeShowsSigner
  BY DEF SignedInv, Signed, ShowsSigner, OutcomeShowsSigner
<1> QED
  BY <1>1, SignedAlways, PTL

-----------------------------------------------------------------------------
(* In process: a request that waits for the verifier holds what it read, and *)
(* nothing waits with a record to write.                                     *)
NothingToSave == \A r \in Requests : handler[r].pc # "save"

LEMMA NothingToSaveStays ==
  ASSUME StoreYields = FALSE, SignedInv, NothingToSave, [Next]_vars
  PROVE  NothingToSave'
<1>a. handler \in [Requests -> [pc : HandlerPc, exchange : Exchange]]
  BY DEF SignedInv, TypeOK, ExchangeTypeOK
<1>1. ASSUME NEW r \in Requests, RequestStep(r)
      PROVE  NothingToSave'
  <2>1. \/ \E pc \in {"done", "failed"} : handler' = [handler EXCEPT ![r] = Resting(pc)]
        \/ handler' = [handler EXCEPT ![r] = [pc |-> "verify", exchange |-> store]]
    BY <1>1 DEF RequestStep, PostEmpty, PostPresentation, DidAuthVerified, DidAuthRejected,
                SaveExchange, StoreFault, Save, Answer
  <2> QED
    BY <1>a, <2>1 DEF NothingToSave, Resting
<1>2. CASE RestartService
  BY <1>a, <1>2 DEF RestartService, Restart, NothingToSave, Resting
<1>3. CASE handler' = handler
  BY <1>3 DEF NothingToSave
<1>4. CreateExchange \/ PageStep \/ OpenOtherPage \/ TokenExpires \/ RecordExpires
        \/ UNCHANGED vars => handler' = handler
  BY DEF CreateExchange, PageStep, OpenPage, FetchProtocols, FetchProtocolsFails, Tick,
         GetExchange, PollFails, PollAnswered, OpenOtherPage, TokenExpires, RecordExpires,
         Expire, vars, exchangeVars
<1> QED
  BY <1>1, <1>2, <1>3, <1>4 DEF Next, ExchangeStep, EnvironmentStep

(* What a step does to the record of an exchange that was completed.         *)
LEMMA CompletedStays ==
  ASSUME StoreYields = FALSE, NothingToSave, [Next]_vars, store.state = "complete"
  PROVE  store'.state \in {"complete", "expired"}
<1>1. ASSUME NEW r \in Requests, RequestStep(r)
      PROVE  store'.state \in {"complete", "expired"}
  <2>1. CASE DidAuthVerified(r)
    <3>1. PICK d \in Holders : Save(r, Completed(handler[r].exchange, d))
      BY <2>1 DEF DidAuthVerified
    <3>2. store' = Completed(handler[r].exchange, d)
      BY <3>1 DEF Save, Put
    <3> QED
      BY <3>2 DEF Completed
  <2>2. CASE SaveExchange(r)
    BY <2>2 DEF SaveExchange, NothingToSave
  <2>3. CASE PostEmpty(r) \/ PostPresentation(r) \/ DidAuthRejected(r) \/ StoreFault(r)
    BY <2>3 DEF PostEmpty, PostPresentation, DidAuthRejected, StoreFault, NothingToSave
  <2> QED
    BY <1>1, <2>1, <2>2, <2>3 DEF RequestStep
<1>2. CASE CreateExchange
  BY <1>2 DEF CreateExchange
<1>3. CASE RecordExpires
  BY <1>3 DEF RecordExpires, Expire, NotStored
<1>4. PageStep \/ OpenOtherPage \/ TokenExpires \/ RestartService \/ UNCHANGED vars
        => store' = store
  BY DEF PageStep, OpenPage, FetchProtocols, FetchProtocolsFails, Tick, GetExchange, PollFails,
         PollAnswered, OpenOtherPage, TokenExpires, RestartService, Restart, vars, exchangeVars
<1> QED
  BY <1>1, <1>2, <1>3, <1>4 DEF Next, ExchangeStep, EnvironmentStep

InProcessInv == SignedInv /\ NothingToSave

LEMMA InProcessAlways ==
  ASSUME StoreYields = FALSE
  PROVE  Spec => []InProcessInv
<1>1. Init => InProcessInv
  BY InitSigned DEF InProcessInv, NothingToSave, Init, ExchangeInit, Resting
<1>2. InProcessInv /\ [Next]_vars => InProcessInv'
  BY NextSigned, NothingToSaveStays DEF InProcessInv
<1> QED
  BY <1>1, <1>2, PTL DEF Spec

(* With the memory or file backend no request that read a DIDAuth exchange   *)
(* earlier opens it again once it is complete, however many overlap.         *)
THEOREM CompletionIsFinal ==
  ASSUME StoreYields = FALSE
  PROVE  Spec => CompletionStands
<1>1. InProcessInv /\ [Next]_vars =>
        [store.state = "complete" => store'.state \in {"complete", "expired"}]_store
  BY CompletedStays DEF InProcessInv
<1> QED
  BY <1>1, InProcessAlways, PTL DEF Spec, CompletionStands

-----------------------------------------------------------------------------
(* What a question or an answer under way says of record and cookie, from    *)
(* when it is asked to when it is handled.                                   *)
AnswersHold ==
  /\ store.state = "expired" => lapsed
  /\ page.interval => store.state # "none"
  /\ \A p \in Polls :
       /\ poll[p].pc # "idle" => store.state # "none"
       /\ poll[p].exchange.state = "complete" => store.state \in {"complete", "expired"}
       /\ poll[p].pc = "asked" /\ poll[p].cookie # "own" => ~TokenStands
       /\ poll[p].pc = "refused" => ~TokenStands

LEMMA RecordMoves ==
  ASSUME StoreYields = FALSE, InProcessInv, [Next]_vars
  PROVE  /\ store.state # "none" => store'.state # "none"
         /\ store'.state = "expired" => store.state = "expired" \/ lapsed
         /\ store.state \in {"complete", "expired"} => store'.state \in {"complete", "expired"}
<1>1. store.state = "complete" => store'.state \in {"complete", "expired"}
  BY CompletedStays DEF InProcessInv
<1>2. ASSUME NEW r \in Requests, RequestStep(r)
      PROVE  store' = store \/ (store'.state \in {"active", "complete"} /\ store.state # "expired")
  <2>a. handler[r].exchange \in Exchange /\ store \in Exchange
    BY <1>2 DEF InProcessInv, SignedInv, TypeOK, ExchangeTypeOK
  <2>1. CASE DidAuthVerified(r)
    <3>1. PICK d \in Holders : Save(r, Completed(handler[r].exchange, d))
      BY <2>1 DEF DidAuthVerified
    <3>2. Completed(handler[r].exchange, d).state = "complete"
      BY <2>a DEF Completed, Exchange
    <3> QED
      BY <3>1, <3>2 DEF Save, Put
  <2>2. CASE SaveExchange(r)
    BY <2>2 DEF SaveExchange, InProcessInv, NothingToSave
  <2>3. CASE PostEmpty(r)
    <3>1. Opened(store).state = "active"
      BY <2>a DEF Opened, Exchange
    <3> QED
      BY <2>3, <3>1 DEF PostEmpty, Save, Put
  <2>4. CASE PostPresentation(r) \/ DidAuthRejected(r) \/ StoreFault(r)
    BY <2>4 DEF PostPresentation, DidAuthRejected, StoreFault, InProcessInv, NothingToSave
  <2> QED
    BY <1>2, <2>1, <2>2, <2>3, <2>4 DEF RequestStep
<1>3. CASE CreateExchange
  BY <1>3 DEF CreateExchange, NotStored
<1>4. CASE RecordExpires
  BY <1>4 DEF RecordExpires, Expire, NotStored
<1>5. PageStep \/ OpenOtherPage \/ TokenExpires \/ RestartService \/ UNCHANGED vars
        => store' = store
  BY DEF PageStep, OpenPage, FetchProtocols, FetchProtocolsFails, Tick, GetExchange, PollFails,
         PollAnswered, OpenOtherPage, TokenExpires, RestartService, Restart, vars, exchangeVars
<1> QED
  BY <1>1, <1>2, <1>3, <1>4, <1>5 DEF Next, ExchangeStep, EnvironmentStep

(* Only loading the page makes a token stand again, and that drops what was  *)
(* under way.                                                                *)
LEMMA TokenFalls ==
  ASSUME [Next]_vars, TokenStands'
  PROVE  OpenPage \/ TokenStands
<1>1. OpenPage \/ ((cookie' = "own" => cookie = "own") /\ (lapsed => lapsed'))
  BY DEF Next, ExchangeStep, PageStep, EnvironmentStep, FetchProtocols, FetchProtocolsFails,
         Tick, GetExchange, PollFails, PollAnswered, OpenOtherPage, RestartService,
         TokenExpires, RecordExpires, vars, pageVars
<1> QED
  BY <1>1 DEF TokenStands

LEMMA AnswersHoldInit == Init => AnswersHold
BY DEF Init, ExchangeInit, AnswersHold, NotStored, NoPoll, Shown

LEMMA AnswersHoldNext ==
  ASSUME StoreYields = FALSE, InProcessInv, AnswersHold, [Next]_vars
  PROVE  AnswersHold'
<1>a. /\ page \in Page /\ poll \in [Polls -> Poll] /\ store \in Exchange
      /\ lapsed \in BOOLEAN
  BY DEF InProcessInv, SignedInv, TypeOK, ExchangeTypeOK
<1>b. /\ NoPoll.pc = "idle" /\ NoPoll.exchange.state = "none"
      /\ Asked.pc = "asked" /\ Asked.exchange.state = "none" /\ Asked.cookie = cookie
  BY DEF Asked, NoPoll, NotStored
<1>c. [NoPoll EXCEPT !.pc = "error"].pc = "error"
      /\ [NoPoll EXCEPT !.pc = "error"].exchange.state = "none"
  BY DEF NoPoll, NotStored
<1> DEFINE Holds(y) == /\ y.pc # "idle" => store'.state # "none"
                       /\ y.exchange.state = "complete" => store'.state \in {"complete", "expired"}
                       /\ y.pc = "asked" /\ y.cookie # "own" => ~TokenStands'
                       /\ y.pc = "refused" => ~TokenStands'
<1>d. Holds(NoPoll)
  BY <1>b
<1>1. store'.state = "expired" => lapsed'
  <2>1. lapsed => lapsed'
    BY DEF Next, ExchangeStep, PageStep, EnvironmentStep, OpenPage, FetchProtocols,
           FetchProtocolsFails, Tick, GetExchange, PollFails, PollAnswered, OpenOtherPage,
           RestartService, TokenExpires, RecordExpires, vars, pageVars
  <2> QED
    BY <2>1, RecordMoves DEF AnswersHold
<1>2. CASE OpenPage
  <2>1. page'.interval = FALSE /\ \A p \in Polls : poll'[p] = NoPoll
    BY <1>2 DEF OpenPage, Shown
  <2> QED
    BY <1>1, <1>d, <2>1 DEF AnswersHold
<1>3. CASE ~OpenPage
  <2>1. \A p \in Polls : Holds(poll[p])
    BY <1>3, RecordMoves, TokenFalls DEF AnswersHold
  <2>2. page.interval => store'.state # "none"
    BY RecordMoves DEF AnswersHold
  <2> HIDE DEF Holds
  <2>3. ASSUME poll' = poll, page' = page
        PROVE  AnswersHold'
    BY <1>1, <2>1, <2>2, <2>3 DEF AnswersHold, Holds
  <2>4. ASSUME NEW p \in Polls, NEW y, poll' = [poll EXCEPT ![p] = y], Holds(y),
               page'.interval => page.interval \/ store'.state # "none"
        PROVE  AnswersHold'
    <3>1. \A q \in Polls : Holds(poll'[q])
      BY <1>a, <2>1, <2>4
    <3> QED
      BY <1>1, <2>2, <2>4, <3>1 DEF AnswersHold, Holds
  <2>5. CASE FetchProtocols
    <3>1. CASE Readable(store)
      <4>1. store'.state # "none" /\ TokenStands' => cookie = "own"
        BY <2>5, <3>1 DEF FetchProtocols, exchangeVars, TokenStands
      <4>2. store'.state # "none" /\ Holds(Asked)
        BY <1>b, <2>5, <3>1, <4>1 DEF FetchProtocols, exchangeVars, Readable, Holds
      <4> QED
        BY <2>4, <2>5, <3>1, <4>2 DEF FetchProtocols
    <3>2. CASE ~Readable(store)
      <4>1. poll' = poll /\ page'.interval = page.interval
        BY <1>a, <2>5, <3>2 DEF FetchProtocols, Page
      <4> QED
        BY <1>1, <2>1, <2>2, <4>1 DEF AnswersHold, Holds
    <3> QED
      BY <3>1, <3>2
  <2>6. CASE FetchProtocolsFails
    <3>1. poll' = poll /\ page'.interval = page.interval
      BY <1>a, <2>6 DEF FetchProtocolsFails, Page
    <3> QED
      BY <1>1, <2>1, <2>2, <3>1 DEF AnswersHold, Holds
  <2>7. CASE Tick
    <3>1. TokenStands' => cookie = "own"
      BY <2>7 DEF Tick, TokenStands
    <3>2. Holds(Asked)
      BY <1>b, <2>2, <2>7, <3>1 DEF Tick, Holds
    <3> QED
      BY <2>4, <2>7, <3>2 DEF Tick
  <2>8. ASSUME NEW p \in Polls, GetExchange(p)
        PROVE  AnswersHold'
    <3> DEFINE good == Recognised(poll[p].cookie) /\ Readable(store)
    <3> DEFINE y == [poll[p] EXCEPT !.pc = IF good THEN "ok" ELSE "refused",
                                    !.exchange = IF good THEN store ELSE @]
    <3>1. poll' = [poll EXCEPT ![p] = y] /\ store' = store /\ page' = page
          /\ cookie' = cookie /\ lapsed' = lapsed /\ poll[p].pc = "asked"
      BY <1>a, <2>8 DEF GetExchange, Poll, exchangeVars
    <3>2. /\ y.pc = IF good THEN "ok" ELSE "refused"
          /\ y.exchange = IF good THEN store ELSE poll[p].exchange
      BY <1>a DEF Poll
    <3> HIDE DEF y
    <3>3. ~good => ~TokenStands'
      <4>1. ~Recognised(poll[p].cookie) => poll[p].cookie # "own"
        BY DEF Recognised
      <4>2. store.state # "none"
        BY <2>8, <3>1 DEF AnswersHold
      <4>3. ~Readable(store) => lapsed
        BY <4>2 DEF Readable, AnswersHold
      <4> QED
        BY <2>8, <3>1, <4>1, <4>3 DEF AnswersHold, TokenStands
    <3>4. Holds(y)
      BY <2>1, <3>1, <3>2, <3>3 DEF Holds
    <3> QED
      BY <2>4, <3>1, <3>4
  <2>9. ASSUME NEW p \in Polls, PollFails(p)
        PROVE  AnswersHold'
    <3>1. store'.state # "none"
      BY <2>1, <2>9 DEF PollFails, Holds
    <3>2. Holds([NoPoll EXCEPT !.pc = "error"])
      BY <1>c, <3>1 DEF Holds
    <3> QED
      BY <2>4, <2>9, <3>2 DEF PollFails
  <2>10. ASSUME NEW p \in Polls, PollAnswered(p)
         PROVE  AnswersHold'
    <3>1. page'.interval => page.interval
      BY <1>a, <2>10 DEF PollAnswered, Page
    <3>2. poll' = [poll EXCEPT ![p] = NoPoll]
      BY <2>10 DEF PollAnswered
    <3> QED
      BY <1>d, <2>4, <3>1, <3>2
  <2>11. CASE RestartService
    <3>1. \A p \in Polls : Holds(poll'[p])
      <4> TAKE p \in Polls
      <4>1. poll'[p] = IF poll[p].pc = "asked" THEN [NoPoll EXCEPT !.pc = "error"] ELSE poll[p]
        BY <2>11 DEF RestartService
      <4>2. poll[p].pc = "asked" => Holds([NoPoll EXCEPT !.pc = "error"])
        BY <1>c, <2>1 DEF Holds
      <4> QED
        BY <2>1, <4>1, <4>2
    <3>2. page' = page
      BY <2>11 DEF RestartService
    <3> QED
      BY <1>1, <2>2, <3>1, <3>2 DEF AnswersHold, Holds
  <2>12. CASE TokenExpires
    <3>1. ~TokenStands' /\ page' = page
      BY <2>12 DEF TokenExpires, TokenStands
    <3>2. \A p \in Polls : Holds(poll'[p])
      <4> TAKE p \in Polls
      <4>1. poll'[p].pc = poll[p].pc /\ poll'[p].exchange = poll[p].exchange
        BY <1>a, <2>12 DEF TokenExpires, Poll
      <4> QED
        BY <2>1, <3>1, <4>1 DEF Holds
    <3> QED
      BY <1>1, <2>2, <3>1, <3>2 DEF AnswersHold, Holds
  <2>13. CASE ExchangeStep \/ OpenOtherPage \/ RecordExpires \/ UNCHANGED vars
    <3>1. poll' = poll /\ page' = page
      BY <2>13 DEF ExchangeStep, OpenOtherPage, RecordExpires, vars, pageVars
    <3> QED
      BY <2>3, <3>1
  <2> QED
    BY <1>3, <2>5, <2>6, <2>7, <2>8, <2>9, <2>10, <2>11, <2>12, <2>13
    DEF Next, PageStep, EnvironmentStep
<1> QED
  BY <1>2, <1>3

(* In process, with any number of overlapping polls: the page stops asking   *)
(* only when the exchange is complete, its token no longer stands or it is   *)
(* loaded anew.                                                              *)
THEOREM PollingStopsRightly ==
  ASSUME StoreYields = FALSE
  PROVE  Spec => PollingStopsForAReason
<1> DEFINE Inv == InProcessInv /\ AnswersHold
<1>1. Init => AnswersHold
  BY AnswersHoldInit
<1>2. InProcessInv /\ AnswersHold /\ [Next]_vars => AnswersHold'
  BY AnswersHoldNext
<1>3. Inv /\ [Next]_vars =>
        [page.interval /\ ~page'.interval =>
           store.state = "complete" \/ ~TokenStands \/ page'.loads # page.loads]_page
  <2> SUFFICES ASSUME Inv, [Next]_vars, page.interval, ~page'.interval
               PROVE  store.state = "complete" \/ ~TokenStands \/ page'.loads # page.loads
    OBVIOUS
  <2>a. page \in Page
    BY DEF InProcessInv, SignedInv, TypeOK
  <2>1. CASE OpenPage
    BY <2>1, <2>a DEF OpenPage, Shown, Page
  <2>2. ASSUME NEW p \in Polls, PollAnswered(p)
        PROVE  store.state = "complete" \/ ~TokenStands
    <3>1. Final(poll[p])
      BY <2>2, <2>a DEF PollAnswered, Page
    <3>2. store.state = "expired" => ~TokenStands
      BY DEF AnswersHold, TokenStands
    <3> QED
      BY <3>1, <3>2 DEF Final, AnswersHold
  <2>3. ~OpenPage /\ ~(\E p \in Polls : PollAnswered(p)) => page'.interval \/ page' = page
    BY <2>a DEF Next, ExchangeStep, PageStep, EnvironmentStep, FetchProtocols,
           FetchProtocolsFails, Tick, GetExchange, PollFails, OpenOtherPage,
           RestartService, TokenExpires, RecordExpires, vars, pageVars, Page
  <2> QED
    BY <2>1, <2>2, <2>3
<1> QED
  BY <1>1, <1>2, <1>3, InProcessAlways, PTL DEF Spec, PollingStopsForAReason
=============================================================================
