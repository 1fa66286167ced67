----------------------------- MODULE StatusPage -----------------------------
(***************************************************************************)
(* The interaction page in one browser, watching one DIDAuth exchange.     *)
(* Loading it sets the cookie exchange_token; the page fetches the         *)
(* exchange's protocols once, then asks for its state at once and at every *)
(* tick of an interval, without waiting for the answer to the last         *)
(* question, until an answer says that there is nothing more to learn.     *)
(*                                                                         *)
(* The browser has one cookie for all exchanges (path '/').  A question    *)
(* carries the cookie of the time it is asked; its answer is what the      *)
(* service knew when it looked, and answers arrive in any order.           *)
(***************************************************************************)
EXTENDS DidAuthExchange

CONSTANTS
  Polls,             \* questions that can be under way at one time (a bound)
  MaxLoads,          \* bound: how often the page is loaded
  TenantAuthEnabled, \* config.tenantAuthenticationEnabled
  SecretConfigured   \* EXCHANGE_JWT_SECRET: tokens outlive the process

ASSUME PageConstants ==
  /\ MaxLoads \in Nat
  /\ TenantAuthEnabled \in BOOLEAN
  /\ SecretConfigured \in BOOLEAN

VARIABLES
  page,       \* what the browser's JavaScript holds and shows
  poll,       \* the questions under way and their answers
  cookie,     \* whose exchange_token the browser has
  lapsed      \* the exchange's `expires` has passed

pageVars == <<page, poll, cookie, lapsed>>
vars     == <<exchangeVars, pageVars>>

(* "own": of this exchange; "other": of one opened in another tab; "stale":  *)
(* one whose signature or expiry no longer passes.                           *)
Cookie == {"none", "own", "other", "stale"}

PagePhase == {"closed", "loading", "shown", "failed"}

(* state and holder: what the last good answer said (null at first);         *)
(* interval: the timer is set; loads: how often the page was loaded.         *)
Page == [phase : PagePhase, interval : BOOLEAN, loads : 0..MaxLoads,
         state : ExchangeState, holder : Holders \cup {None}]

(* An answer: "ok" with the exchange, "refused" (4xx), "error" (5xx, or no   *)
(* answer at all).                                                           *)
PollPc == {"idle", "asked", "ok", "refused", "error"}
Poll   == [pc : PollPc, cookie : Cookie, exchange : Exchange]

NoPoll == [pc |-> "idle", cookie |-> "none", exchange |-> NotStored("none")]

Shown(phase, loads) ==
  [phase |-> phase, interval |-> FALSE, loads |-> loads, state |-> "none", holder |-> None]

Init ==
  /\ ExchangeInit
  /\ page   = Shown("closed", 0)
  /\ poll   = [p \in Polls |-> NoPoll]
  /\ cookie = "none"
  /\ lapsed = FALSE

-----------------------------------------------------------------------------
(* The page *)

(* GET /interactions for HTML, in the tab of the page: a token that expires  *)
(* with the exchange, and a new document.  Past `expires` the token is born  *)
(* expired and, its age being negative, the cookie has no age at all.        *)
OpenPage ==
  /\ Readable(store)
  /\ page.loads < MaxLoads
  /\ page'   = Shown("loading", page.loads + 1)
  /\ poll'   = [p \in Polls |-> NoPoll]
  /\ cookie' = IF lapsed THEN "stale" ELSE "own"
  /\ UNCHANGED <<exchangeVars, lapsed>>

Asked == [NoPoll EXCEPT !.pc = "asked", !.cookie = cookie]

(* fetchProtocols, made once; then the effect that polls at once and sets    *)
(* the interval.                                                             *)
FetchProtocols ==
  /\ page.phase = "loading"
  /\ IF Readable(store)
     THEN /\ page' = [page EXCEPT !.phase = "shown", !.interval = TRUE]
          /\ \E p \in Polls : poll' = [poll EXCEPT ![p] = Asked]
     ELSE page' = [page EXCEPT !.phase = "failed"] /\ UNCHANGED poll
  /\ UNCHANGED <<exchangeVars, cookie, lapsed>>

(* The request for the protocols fails: the page says so and asks no more.   *)
FetchProtocolsFails ==
  /\ page.phase = "loading"
  /\ faults < MaxFaults /\ faults' = faults + 1
  /\ page' = [page EXCEPT !.phase = "failed"]
  /\ UNCHANGED <<store, handler, proven, poll, cookie, lapsed>>

(* setInterval fires, whatever is still under way.                           *)
Tick ==
  /\ page.interval
  /\ \E p \in Polls : poll[p].pc = "idle" /\ poll' = [poll EXCEPT ![p] = Asked]
  /\ UNCHANGED <<exchangeVars, page, cookie, lapsed>>

(* authenticateExchangeOrTenantMiddleware: a cookie decides alone.           *)
Recognised(c) ==
  \/ c = "own"
  \/ c = "none" /\ ~TenantAuthEnabled

(* GET of the exchange; the sweep leaves a DIDAuth exchange alone.           *)
GetExchange(p) ==
  /\ poll[p].pc = "asked"
  /\ poll' = [poll EXCEPT ![p].pc =
                IF Recognised(poll[p].cookie) /\ Readable(store) THEN "ok" ELSE "refused",
              ![p].exchange = IF Recognised(poll[p].cookie) /\ Readable(store)
                                THEN store ELSE @]
  /\ UNCHANGED <<exchangeVars, page, cookie, lapsed>>

(* 500, or the question or its answer is lost.                               *)
PollFails(p) ==
  /\ poll[p].pc \in {"asked", "ok", "refused"}
  /\ faults < MaxFaults /\ faults' = faults + 1
  /\ poll' = [poll EXCEPT ![p] = [NoPoll EXCEPT !.pc = "error"]]
  /\ UNCHANGED <<store, handler, proven, page, cookie, lapsed>>

\* A slip: any failure ends the polling.
FinalOnAnyFailure(answer) ==
  answer.pc \in {"refused", "error"} \/ answer.exchange.state = "complete"

\* A slip: a refusal is taken for a passing failure.
FinalOnOutcome(answer) == answer.exchange.state = "complete"

(* What clears the interval: a terminal state, or a 4xx.                     *)
Final(answer) == answer.pc = "refused" \/ answer.exchange.state = "complete"

(* poll's continuation: a good answer is shown, another leaves the last one  *)
(* on the screen.                                                            *)
PollAnswered(p) ==
  /\ poll[p].pc \in {"ok", "refused", "error"}
  /\ page' = [page EXCEPT
       !.interval = @ /\ ~Final(poll[p]),
       !.state  = IF poll[p].pc = "ok" THEN poll[p].exchange.state ELSE @,
       !.holder = IF poll[p].pc = "ok" THEN poll[p].exchange.holder ELSE @]
  /\ poll' = [poll EXCEPT ![p] = NoPoll]
  /\ UNCHANGED <<exchangeVars, cookie, lapsed>>

-----------------------------------------------------------------------------
(* The browser and the clock *)

(* The page of another exchange is opened in the same browser.               *)
OpenOtherPage ==
  /\ cookie # "other"
  /\ cookie' = "other"
  /\ UNCHANGED <<exchangeVars, page, poll, lapsed>>

(* Without a configured secret no token outlives the process, and a question *)
(* under way gets no answer.                                                 *)
RestartService ==
  /\ Restart
  /\ cookie' = IF cookie \in {"own", "other"} /\ ~SecretConfigured THEN "stale" ELSE cookie
  /\ poll' = [p \in Polls |-> IF poll[p].pc = "asked"
                                THEN [NoPoll EXCEPT !.pc = "error"] ELSE poll[p]]
  /\ UNCHANGED <<page, lapsed>>

(* `expires` passes: the browser drops the cookie, and a token already on    *)
(* its way is refused.                                                       *)
TokenExpires ==
  /\ Readable(store) /\ ~lapsed
  /\ lapsed' = TRUE
  /\ cookie' = IF cookie = "own" THEN "none" ELSE cookie
  /\ poll' = [p \in Polls |-> IF poll[p].pc = "asked" /\ poll[p].cookie = "own"
                                THEN [poll[p] EXCEPT !.cookie = "stale"] ELSE poll[p]]
  /\ UNCHANGED <<exchangeVars, page>>

(* A second later the record can no longer be read.                          *)
RecordExpires == lapsed /\ Expire /\ UNCHANGED pageVars

-----------------------------------------------------------------------------
ExchangeStep == (CreateExchange \/ \E r \in Requests : RequestStep(r)) /\ UNCHANGED pageVars

PageStep ==
  \/ OpenPage \/ FetchProtocols \/ FetchProtocolsFails \/ Tick
  \/ \E p \in Polls : GetExchange(p) \/ PollFails(p) \/ PollAnswered(p)

EnvironmentStep == OpenOtherPage \/ RestartService \/ TokenExpires \/ RecordExpires

Next == ExchangeStep \/ PageStep \/ EnvironmentStep

Spec == Init /\ [][Next]_vars

(* The browser's timer fires, questions are answered and answers handled.    *)
(* Nothing is assumed of wallets, of the user, or of when `expires` comes.   *)
PageFairness ==
  /\ WF_vars(Tick)
  /\ \A p \in Polls : WF_vars(GetExchange(p)) /\ WF_vars(PollAnswered(p))

(* The time that every exchange is given passes.                             *)
ClockAdvances == WF_vars(TokenExpires) /\ WF_vars(RecordExpires)

FairSpec == Spec /\ PageFairness

-----------------------------------------------------------------------------
(* Properties *)

TypeOK ==
  /\ ExchangeTypeOK
  /\ page \in Page
  /\ poll \in [Polls -> Poll]
  /\ cookie \in Cookie
  /\ lapsed \in BOOLEAN

(* Whoever is shown as the holder, in the record of a completed exchange or  *)
(* on the screen, signed a presentation that was posted to it; an exchange   *)
(* that is not complete shows nobody (participateInDidAuthExchange,          *)
(* useExchangeStatus).                                                       *)
OutcomeShowsSigner ==
  /\ store.holder \in IF store.state = "complete" THEN proven ELSE {None}
  /\ page.holder \in IF page.state = "complete" THEN proven ELSE {None}

(* The token still stands for the exchange it was made for.                  *)
TokenStands == cookie = "own" /\ ~lapsed

(* The page stops asking only when there is an outcome to show, its token no *)
(* longer stands, or it is loaded anew: no failure that may pass ends the    *)
(* polling (useExchangeStatus, "4xx = unrecoverable").                       *)
PollingStopsForAReason ==
  [][page.interval /\ ~page'.interval =>
       store.state = "complete" \/ ~TokenStands \/ page'.loads # page.loads]_page

(* A page that is polling when the exchange is complete gets to show it,     *)
(* unless its token stops standing or it is left, whatever fails on the way. *)
(* The clock may stand still: that time runs out is no excuse by itself      *)
(* (useExchangeStatus).                                                      *)
OutcomeReachesPage ==
  page.interval /\ store.state = "complete"
    ~> page.state = "complete" \/ ~TokenStands \/ page.phase = "loading"

(* Polling ends: no page asks for ever about an exchange that is over, the   *)
(* 404 of an expired record included (useExchangeStatus).                    *)
PollingEnds == ClockAdvances => (page.interval ~> ~page.interval)
=============================================================================
