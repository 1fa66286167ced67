--------------------------- MODULE DidAuthExchange ---------------------------
(***************************************************************************)
(* One DIDAuth exchange: the requests that ask for its presentation        *)
(* request, the presentations posted to it, and the one record they share. *)
(* Each action is what a request does between two awaits that are not      *)
(* ready.  The memory and file backends answer a get and apply a set       *)
(* within the turn that makes them; with Redis (StoreYields) other requests *)
(* run before a set takes effect.                                          *)
(*                                                                         *)
(* No next-state relation here: StatusPage composes the exchange with the  *)
(* page of a browser that watches it.                                      *)
(***************************************************************************)
EXTENDS Naturals

CONSTANTS
  Openers,        \* POSTs with an empty body, and those of the legacy route
  Presenters,     \* POSTs of a presentation, each made once
  Holders,        \* DIDs a presentation may be signed with
  None,           \* "undefined"
  StoreYields,    \* Redis: every store access yields the event loop
  MaxFaults       \* bound: restarts, failed store accesses and lost answers

ASSUME DidAuthConstants ==
  /\ None \notin Holders
  /\ StoreYields \in BOOLEAN
  /\ MaxFaults \in Nat

VARIABLES
  store,      \* the exchange: its state and results.default.holder
  handler,    \* per request: where it is, and the exchange it read or will write
  proven,     \* history: the holders that presentations posted to it were signed by
  faults      \* restarts, failed accesses and lost answers so far

exchangeVars == <<store, handler, proven, faults>>

Requests == Openers \cup Presenters

ExchangeState == {"none", "pending", "active", "complete", "expired"}
Exchange  == [state : ExchangeState, holder : Holders \cup {None}]
HandlerPc == {"idle", "verify", "save", "done", "failed"}

NotStored(state) == [state |-> state, holder |-> None]
Readable(x)      == x.state \notin {"none", "expired"}
Resting(pc)      == [pc |-> pc, exchange |-> NotStored("none")]

ExchangeInit ==
  /\ store   = NotStored("none")
  /\ handler = [r \in Requests |-> Resting("idle")]
  /\ proven  = {}
  /\ faults  = 0

-----------------------------------------------------------------------------
Answer(r, pc) == handler' = [handler EXCEPT ![r] = Resting(pc)]

(* keyv.set: once the TTL has passed, what is written cannot be read again.  *)
Put(x) == store' = IF store.state = "expired" THEN store ELSE x

(* saveExchange: a write of the whole record, and the answer.                *)
Save(r, x) ==
  IF StoreYields
  THEN /\ handler' = [handler EXCEPT ![r] = [pc |-> "save", exchange |-> x]]
       /\ UNCHANGED store
  ELSE Put(x) /\ Answer(r, "done")

CreateExchange ==
  /\ store.state = "none"
  /\ store' = NotStored("pending")
  /\ UNCHANGED <<handler, proven, faults>>

(* getExchangeData's 404 and participateInExchange's first test.             *)
Refused(x) == ~Readable(x) \/ x.state = "complete"

Opened(x) == [x EXCEPT !.state = "active"]

\* A slip: the results are lost on the way into the record.
CompletedBare(x, d) == [x EXCEPT !.state = "complete"]

Completed(x, d) == [x EXCEPT !.state = "complete", !.holder = d]

\* A slip: something is awaited between the read and the save.
PostEmptyAwaiting(r) ==
  /\ r \in Openers /\ handler[r].pc = "idle"
  /\ IF store.state = "pending"
     THEN handler' = [handler EXCEPT ![r] = [pc |-> "save", exchange |-> Opened(store)]]
     ELSE Answer(r, IF Refused(store) THEN "failed" ELSE "done")
  /\ UNCHANGED <<store, proven, faults>>

(* The first step of the wallet: the request, and the exchange goes active.  *)
PostEmpty(r) ==
  /\ r \in Openers /\ handler[r].pc = "idle"
  /\ IF store.state = "pending" THEN Save(r, Opened(store))
     ELSE Answer(r, IF Refused(store) THEN "failed" ELSE "done") /\ UNCHANGED store
  /\ UNCHANGED <<proven, faults>>

(* The second step, up to the await of the DIDAuth verifier.                 *)
PostPresentation(r) ==
  /\ r \in Presenters /\ handler[r].pc = "idle"
  /\ IF Refused(store) THEN Answer(r, "failed")
     ELSE handler' = [handler EXCEPT ![r] = [pc |-> "verify", exchange |-> store]]
  /\ UNCHANGED <<store, proven, faults>>

\* A slip: a presentation whose signer cannot be told completes the exchange.
DidAuthVerifiedUnsigned(r) ==
  /\ handler[r].pc = "verify"
  /\ \E d \in Holders \cup {None} :
       /\ proven' = proven \cup {d}
       /\ Save(r, Completed(handler[r].exchange, d))
  /\ UNCHANGED faults

(* What was read before the verifier was awaited is completed and saved.     *)
DidAuthVerified(r) ==
  /\ handler[r].pc = "verify"
  /\ \E d \in Holders :
       /\ proven' = proven \cup {d}
       /\ Save(r, Completed(handler[r].exchange, d))
  /\ UNCHANGED faults

(* 401: not verified, or no signer to tell; or the verifier throws.          *)
DidAuthRejected(r) ==
  /\ handler[r].pc = "verify"
  /\ Answer(r, "failed")
  /\ UNCHANGED <<store, proven, faults>>

SaveExchange(r) ==
  /\ handler[r].pc = "save"
  /\ Put(handler[r].exchange)
  /\ Answer(r, "done")
  /\ UNCHANGED <<proven, faults>>

(* A get or a set throws, and the request is answered 500; Redis may have    *)
(* applied the set before its answer was lost.                               *)
StoreFault(r) ==
  /\ faults < MaxFaults /\ faults' = faults + 1
  /\ handler[r].pc \in {"idle", "save"} \/ (handler[r].pc = "verify" /\ ~StoreYields)
  /\ Answer(r, "failed")
  /\ UNCHANGED store \/ (handler[r].pc = "save" /\ Put(handler[r].exchange))
  /\ UNCHANGED proven

(* The process is restarted over a store that outlives it.                   *)
Restart ==
  /\ faults < MaxFaults /\ faults' = faults + 1
  /\ handler' = [r \in Requests |->
       IF handler[r].pc \in {"verify", "save"} THEN Resting("failed") ELSE handler[r]]
  /\ UNCHANGED <<store, proven>>

(* The record's TTL has passed.                                              *)
Expire ==
  /\ Readable(store)
  /\ store' = NotStored("expired")
  /\ UNCHANGED <<handler, proven, faults>>

RequestStep(r) ==
  \/ PostEmpty(r) \/ PostPresentation(r) \/ DidAuthVerified(r)
  \/ DidAuthRejected(r) \/ SaveExchange(r) \/ StoreFault(r)

-----------------------------------------------------------------------------
(* Properties *)

ExchangeTypeOK ==
  /\ store \in Exchange
  /\ handler \in [Requests -> [pc : HandlerPc, exchange : Exchange]]
  /\ proven \subseteq Holders
  /\ faults \in 0..MaxFaults

(* A completed exchange stays completed until it expires: a request that     *)
(* read it earlier does not open it again (participateWithEmptyBody,         *)
(* participateInDidAuthExchange; in process).                                *)
CompletionStands ==
  [][store.state = "complete" => store'.state \in {"complete", "expired"}]_store
=============================================================================
