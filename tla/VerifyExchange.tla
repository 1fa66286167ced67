--------------------------- MODULE VerifyExchange ---------------------------
(***************************************************************************)
(* The verify workflow as a whole: HTTP handlers that read an exchange,    *)
(* wait for the verifier and save it; the in-process FIFO and its drainer; *)
(* the worker that runs the Open Badges pass; and the sweep that every GET *)
(* runs.  They share one Keyv record per exchange.                         *)
(*                                                                         *)
(* Each action is what one actor does between two awaits.  A replica is a  *)
(* Node process with one event loop: turn[n] is the actor whose            *)
(* continuation is running there.  The memory and file backends answer a   *)
(* get within the same turn and apply a set within it, so a get and the    *)
(* set that follows it are not interleaved with another access; with Redis *)
(* every access is a network round trip and yields the loop (StoreYields). *)
(* A set is acknowledged in a later turn: Redis replies, and the file      *)
(* backend waits writeDelay; the memory backend's behaviours are among     *)
(* those.                                                                  *)
(*                                                                         *)
(* A handler runs the JavaScript of one request: it keeps the exchange it  *)
(* read (snap) and the exchange it is about to write (next) across awaits. *)
(***************************************************************************)
EXTENDS VerifyTask, FiniteSets, Sequences

CONSTANTS
  Exchanges,      \* exchange ids
  Replicas,       \* Node processes
  Openers,        \* POSTs with an empty body, each made once
  Presenters,     \* VC-API POSTs of a presentation, each made once
  DirectPosts,    \* OpenID4VP direct_post responses, each made once
  Pollers,        \* clients that GET the exchange, /protocols or /interactions
  Presentations,  \* what a POST may carry
  StoreYields,    \* Redis: every store access yields the event loop
  MaxFaults,      \* bound: crashes and failed store accesses in a behaviour
  MaxQueue        \* bound: ids waiting in one replica's FIFO

ASSUME PresentationsAssumption ==
  Presentations \subseteq [credentials : SUBSET Credentials, badges : SUBSET Credentials]
ASSUME BadgesAssumption == \A p \in Presentations : p.badges \subseteq p.credentials
ASSUME StoreYieldsAssumption == StoreYields \in BOOLEAN
ASSUME BoundsAssumption == MaxFaults \in Nat /\ MaxQueue \in Nat
ASSUME ActorsAssumption ==
  /\ None \notin Exchanges \cup Replicas \cup Pollers
  /\ None \notin Openers \cup Presenters \cup DirectPosts
  /\ (Openers \cup Presenters \cup AuthRequests \cup DirectPosts) \cap Pollers = {}
  /\ Replicas \cap (Openers \cup Presenters \cup AuthRequests \cup DirectPosts \cup Pollers) = {}
ASSUME KindsAssumption ==
  /\ (Openers \cup AuthRequests) \cap (Presenters \cup DirectPosts) = {}
  /\ Openers \cap AuthRequests = {} /\ Presenters \cap DirectPosts = {}

VARIABLES
  store,      \* the Keyv record of each exchange
  lapsed,     \* attempt ids whose deadlineAt is in the past
  queue,      \* per replica: the FIFO of exchange ids
  running,    \* per replica: the drainer's `running` flag
  worker,     \* per replica: the drainer and the task it processes
  handler,    \* the HTTP requests in flight
  turn,       \* per replica: who holds the event loop
  faults      \* crashes and failed store accesses so far

vars == <<store, lapsed, queue, running, worker, handler, turn, faults>>

Requests == Openers \cup Presenters \cup AuthRequests \cup DirectPosts
Handlers == Requests \cup Pollers
Actors   == Handlers \cup Replicas      \* a replica's worker bears its name

HandlerPc == {"idle", "body", "verify", "save", "casGet", "casSet", "enqueue",
              "done", "failed"}
WorkerPc  == {"off", "drain", "load", "mark", "markSet", "verify", "failing", "commitSet"}

Handler == [pc : HandlerPc, at : Replicas \cup {None}, ex : Exchanges \cup {None},
            snap : Exchange, next : Exchange]
Worker  == [pc : WorkerPc, ex : Exchanges \cup {None}, snap : Exchange,
            next : Exchange, todo : SUBSET Credentials, merged : Results]

Nothing == NotStored("none")

RestingHandler(pc) ==
  [pc |-> pc, at |-> None, ex |-> None, snap |-> Nothing, next |-> Nothing]
RestingWorker(pc) ==
  [pc |-> pc, ex |-> None, snap |-> Nothing, next |-> Nothing,
   todo |-> {}, merged |-> NoResults]

Init ==
  /\ store   = [e \in Exchanges |-> NotStored("none")]
  /\ lapsed  = {}
  /\ queue   = [n \in Replicas |-> <<>>]
  /\ running = [n \in Replicas |-> FALSE]
  /\ worker  = [n \in Replicas |-> RestingWorker("off")]
  /\ handler = [h \in Handlers |-> RestingHandler("idle")]
  /\ turn    = [n \in Replicas |-> None]
  /\ faults  = 0

-----------------------------------------------------------------------------
(* The event loop, the store and the queue *)

HasTurn(n, actor) == turn[n] \in {None, actor}

(* The step ends where a store access begins: only Redis lets another actor   *)
(* run before it takes effect.                                               *)
Continue(n, actor) == turn' = [turn EXCEPT ![n] = IF StoreYields THEN None ELSE actor]

(* The step ends at an external await, at a set's answer, or with its actor. *)
Yield(n) == turn' = [turn EXCEPT ![n] = None]

(* keyv.set: once the TTL has passed, what is written cannot be read again.  *)
Put(e, x) == store' = IF store[e].state = "expired" THEN store
                      ELSE [store EXCEPT ![e] = x]

\* A slip: any attempt's write is let through.
CasUnkeyed(e, attemptId) == Readable(store[e])

(* The test of saveExchangeWithCAS, on the record it has just read.          *)
CasMatches(e, attemptId) ==
  Readable(store[e]) /\ store[e].task.attemptId = attemptId

(* Every exchange that the store holds or an actor carries across an await.  *)
StoreRecords   == {store[e] : e \in Exchanges}
HandlerRecords == {handler[h].snap : h \in Handlers} \cup {handler[h].next : h \in Handlers}
WorkerRecords  == {worker[n].snap : n \in Replicas} \cup {worker[n].next : n \in Replicas}
Records        == StoreRecords \cup HandlerRecords \cup WorkerRecords

(* crypto.randomUUID(): an id that nothing refers to any more is as good as  *)
(* a new one, which keeps AttemptIds finite for TLC.                         *)
FreshIds == {id \in AttemptIds : \A x \in Records : x.task.attemptId # id}
FreshId  == CHOOSE id \in FreshIds : TRUE

Enqueued(n, e) ==
  /\ queue' = [queue EXCEPT ![n] = Append(@, e)]
  /\ running' = [running EXCEPT ![n] = TRUE]
  /\ worker' = IF running[n] THEN worker
               ELSE [worker EXCEPT ![n] = RestingWorker("drain")]

(* The response of a request: the answer it was made for, or an error.       *)
Answered(h) == [RestingHandler("done") EXCEPT !.ex = handler[h].ex]
Over(h, y)  == handler' = [handler EXCEPT ![h] = IF h \in Requests THEN y
                                                 ELSE RestingHandler("idle")]
Finish(h)   == Over(h, Answered(h))
Fail(h)     == Over(h, RestingHandler("failed"))

-----------------------------------------------------------------------------
(* Requests *)

(* The creating handler saves a fresh record under a key of its own.         *)
CreateExchange(e) ==
  /\ store[e].state = "none"
  /\ Put(e, NewExchange)
  /\ UNCHANGED <<lapsed, queue, running, worker, handler, turn, faults>>

(* Every POST reads the exchange first.  An unknown or completed exchange    *)
(* answers 404 or 400 and changes nothing.                                   *)
Arrives(r, n, e) ==
  /\ handler[r].pc = "idle" /\ HasTurn(n, r)
  /\ Readable(store[e]) /\ store[e].state # "complete"

(* POST with an empty body: the presentation request.  Only a pending        *)
(* exchange is saved.                                                        *)
PostEmpty(r, n, e) ==
  /\ Arrives(r, n, e)
  /\ store[e].state = "pending"
  /\ handler' = [handler EXCEPT ![r] =
       [pc |-> "save", at |-> n, ex |-> e, snap |-> store[e],
        next |-> [store[e] EXCEPT !.state = "active"]]]
  /\ Continue(n, r)
  /\ UNCHANGED <<store, lapsed, queue, running, worker, faults>>

(* GET of the OpenID4VP authorization request, of an exchange in any state.  *)
GetAuthorizationRequest(g, n, e) ==
  /\ handler[g].pc = "idle" /\ HasTurn(n, g)
  /\ Readable(store[e])
  /\ \/ /\ ~NeedsOid4vpState(store[e])
        /\ handler' = [handler EXCEPT ![g] = [RestingHandler("done") EXCEPT !.ex = e]]
        /\ Yield(n)
     \/ /\ NeedsOid4vpState(store[e])
        /\ handler' = [handler EXCEPT ![g] =
             [pc |-> "save", at |-> n, ex |-> e, snap |-> store[e],
              next |-> EnsureOid4vpState(store[e], g)]]
        /\ Continue(n, g)
  /\ UNCHANGED <<store, lapsed, queue, running, worker, faults>>

(* POST of an OpenID4VP response: the record is read, then the body awaited. *)
PostDirectPost(d, n, e) ==
  /\ Arrives(d, n, e)
  /\ handler' = [handler EXCEPT ![d] =
       [pc |-> "body", at |-> n, ex |-> e, snap |-> store[e], next |-> Nothing]]
  /\ Yield(n)
  /\ UNCHANGED <<store, lapsed, queue, running, worker, faults>>

\* A slip: the mark is stored before the presentation was verified.
HandleOid4vpResponseEagerly(d) ==
  LET h == handler[d] IN
  /\ h.pc = "body" /\ HasTurn(h.at, d)
  /\ \E presented \in AuthRequests : AcceptsOid4vpResponse(h.snap, presented)
  /\ Put(h.ex, ConsumeOid4vpResponse(h.snap))
  /\ handler' = [handler EXCEPT ![d] =
       [h EXCEPT !.pc = "verify", !.snap = ConsumeOid4vpResponse(h.snap)]]
  /\ Yield(h.at)
  /\ UNCHANGED <<lapsed, queue, running, worker, faults>>

(* A response with the right state, a presentation and the right audience is *)
(* marked received, in the handler's copy, and goes to the verifier.         *)
HandleOid4vpResponse(d) ==
  LET h == handler[d] IN
  /\ h.pc = "body" /\ HasTurn(h.at, d)
  /\ \/ /\ \E presented \in AuthRequests : AcceptsOid4vpResponse(h.snap, presented)
        /\ handler' = [handler EXCEPT ![d] =
             [h EXCEPT !.pc = "verify", !.snap = ConsumeOid4vpResponse(h.snap)]]
     \/ Fail(d)
  /\ Yield(h.at)
  /\ UNCHANGED <<store, lapsed, queue, running, worker, faults>>

(* VC-API POST with a presentation: an exchange that is pending, active or   *)
(* invalid goes to the verifier.                                             *)
PostPresentation(r, n, e) ==
  /\ Arrives(r, n, e)
  /\ handler' = [handler EXCEPT ![r] =
       [pc |-> "verify", at |-> n, ex |-> e, snap |-> store[e], next |-> Nothing]]
  /\ Yield(n)
  /\ UNCHANGED <<store, lapsed, queue, running, worker, faults>>

(* verifyPresentation answers.  Without an Open Badges credential the        *)
(* exchange is decided; with one it stays active with a queued task.         *)
PresentationVerified(r) ==
  /\ handler[r].pc = "verify" /\ HasTurn(handler[r].at, r)
  /\ \E p \in Presentations, verified \in BOOLEAN :
       LET results == SyncResults(p, verified) IN
       \/ /\ p.badges = {}
          /\ handler' = [handler EXCEPT ![r] = [@ EXCEPT !.pc = "save",
               !.next = ApplyVerificationResults(handler[r].snap, results)]]
          /\ UNCHANGED lapsed
       \/ /\ p.badges # {} /\ FreshIds # {}
          /\ handler' = [handler EXCEPT ![r] = [@ EXCEPT !.pc = "save",
               !.next = WithSyncResultsAndQueuedVerifyTask(
                          handler[r].snap, results, FreshId)]]
          /\ lapsed' = lapsed \ {FreshId}
  /\ Continue(handler[r].at, r)
  /\ UNCHANGED <<store, queue, running, worker, faults>>

(* The presentation is refused or verifyPresentation throws: 400 or 500, and *)
(* nothing is saved, the mark of an OpenID4VP response included.             *)
PresentationRejected(r) ==
  /\ handler[r].pc = "verify" /\ HasTurn(handler[r].at, r)
  /\ Fail(r)
  /\ Yield(handler[r].at)
  /\ UNCHANGED <<store, lapsed, queue, running, worker, faults>>

(* saveExchange writes what the handler built from its snapshot, whatever    *)
(* the store holds by now.  The handler that minted a task then queues it.   *)
SaveExchange(r) ==
  LET h == handler[r] IN
  /\ h.pc = "save" /\ HasTurn(h.at, r)
  /\ Put(h.ex, h.next)
  /\ IF h.next.task.attemptId # h.snap.task.attemptId
       THEN handler' = [handler EXCEPT ![r] = [h EXCEPT !.pc = "enqueue"]]
       ELSE Finish(r)
  /\ Yield(h.at)
  /\ UNCHANGED <<lapsed, queue, running, worker, faults>>

(* The last step of a POST that minted a task and of a sweep that retried.   *)
EnqueueVerifyTask(h) ==
  /\ handler[h].pc = "enqueue" /\ HasTurn(handler[h].at, h)
  /\ Len(queue[handler[h].at]) < MaxQueue
  /\ Enqueued(handler[h].at, handler[h].ex)
  /\ Finish(h)
  /\ Yield(handler[h].at)
  /\ UNCHANGED <<store, lapsed, faults>>

-----------------------------------------------------------------------------
(* The sweep that a GET runs on what it read *)

(* GET of a pending exchange past its deadline.  Every other GET answers     *)
(* with the record as it is.                                                 *)
SweepRead(p, n, e) ==
  LET x == store[e] IN
  /\ handler[p].pc = "idle" /\ HasTurn(n, p)
  /\ Pending(x) /\ x.task.attemptId \in lapsed
  /\ \/ /\ MayRetry(x) /\ FreshIds # {}
        /\ handler' = [handler EXCEPT ![p] = [pc |-> "casGet", at |-> n, ex |-> e,
                         snap |-> x, next |-> Bumped(x, FreshId)]]
        /\ lapsed' = lapsed \ {FreshId}
     \/ /\ ~MayRetry(x)
        /\ handler' = [handler EXCEPT ![p] = [pc |-> "casGet", at |-> n, ex |-> e,
                         snap |-> x, next |-> GivenUp(x)]]
        /\ UNCHANGED lapsed
  /\ Continue(n, p)
  /\ UNCHANGED <<store, queue, running, worker, faults>>

(* saveExchangeWithCAS re-reads and compares.  A stale or missing record     *)
(* sends the handler back to loading what it answers with.                   *)
SweepCasGet(p) ==
  LET h == handler[p] IN
  /\ h.pc = "casGet" /\ HasTurn(h.at, p)
  /\ IF CasMatches(h.ex, h.snap.task.attemptId)
       THEN /\ handler' = [handler EXCEPT ![p] = [h EXCEPT !.pc = "casSet"]]
            /\ Continue(h.at, p)
       ELSE Finish(p) /\ Yield(h.at)
  /\ UNCHANGED <<store, lapsed, queue, running, worker, faults>>

(* ...and writes.  A retry goes on to enqueue, giving up is done.            *)
SweepCasSet(p) ==
  LET h == handler[p] IN
  /\ h.pc = "casSet" /\ HasTurn(h.at, p)
  /\ Put(h.ex, h.next)
  /\ IF h.next.task.status = "queued"
       THEN handler' = [handler EXCEPT ![p] = [h EXCEPT !.pc = "enqueue"]]
       ELSE Finish(p)
  /\ Yield(h.at)
  /\ UNCHANGED <<lapsed, queue, running, worker, faults>>

-----------------------------------------------------------------------------
(* The drainer and the worker *)

DrainNext(n) ==
  /\ worker[n].pc = "drain" /\ HasTurn(n, n)
  /\ queue[n] # <<>>
  /\ queue' = [queue EXCEPT ![n] = Tail(@)]
  /\ worker' = [worker EXCEPT ![n] =
       [@ EXCEPT !.pc = "load", !.ex = Head(queue[n])]]
  /\ Continue(n, n)
  /\ UNCHANGED <<store, lapsed, running, handler, faults>>

\* A slip of the drainer: `running` is not reset.
DrainStopUnreset(n) ==
  /\ worker[n].pc = "drain" /\ HasTurn(n, n)
  /\ queue[n] = <<>>
  /\ worker' = [worker EXCEPT ![n] = RestingWorker("off")]
  /\ Yield(n)
  /\ UNCHANGED <<store, lapsed, queue, running, handler, faults>>

DrainStop(n) ==
  /\ worker[n].pc = "drain" /\ HasTurn(n, n)
  /\ queue[n] = <<>>
  /\ running' = [running EXCEPT ![n] = FALSE]
  /\ worker' = [worker EXCEPT ![n] = RestingWorker("off")]
  /\ Yield(n)
  /\ UNCHANGED <<store, lapsed, queue, handler, faults>>

WorkerLoad(n) ==
  LET x == store[worker[n].ex] IN
  /\ worker[n].pc = "load" /\ HasTurn(n, n)
  /\ worker' = [worker EXCEPT ![n] =
       IF Processable(x) THEN [@ EXCEPT !.pc = "mark", !.snap = x]
       ELSE RestingWorker("drain")]
  /\ Continue(n, n)
  /\ UNCHANGED <<store, lapsed, queue, running, handler, faults>>

(* The worker's local state once its best-effort mark is behind it.          *)
Verifying(w) ==
  [w EXCEPT !.pc = "verify", !.next = Nothing,
            !.merged = w.snap.results, !.todo = w.snap.task.badges]

(* Best-effort: a mark that does not match is skipped, not an error.  The    *)
(* update puts the LOADED task, marked running, into the current record.     *)
WorkerMarkGet(n) ==
  LET w == worker[n] IN
  /\ w.pc = "mark" /\ HasTurn(n, n)
  /\ IF CasMatches(w.ex, w.snap.task.attemptId)
       THEN /\ worker' = [worker EXCEPT ![n] = [w EXCEPT !.pc = "markSet",
                 !.next = WithVerifyTask(store[w.ex], MarkRunning(w.snap.task))]]
            /\ Continue(n, n)
       ELSE worker' = [worker EXCEPT ![n] = Verifying(w)] /\ Yield(n)
  /\ UNCHANGED <<store, lapsed, queue, running, handler, faults>>

WorkerMarkSet(n) ==
  LET w == worker[n] IN
  /\ w.pc = "markSet" /\ HasTurn(n, n)
  /\ Put(w.ex, w.next)
  /\ worker' = [worker EXCEPT ![n] = Verifying(w)]
  /\ Yield(n)
  /\ UNCHANGED <<lapsed, queue, running, handler, faults>>

(* verifyCredential answers for the next badge, in index order, or throws,   *)
(* which ends the loop.                                                      *)
WorkerVerify(n) ==
  LET w == worker[n] IN
  /\ w.pc = "verify" /\ HasTurn(n, n)
  /\ \E i \in w.todo :
       /\ \A j \in w.todo : i <= j
       /\ \/ \E verified \in BOOLEAN :
               worker' = [worker EXCEPT ![n] = [w EXCEPT !.todo = @ \ {i},
                 !.merged = MergeOpenBadgesResultsAt(w.merged, i, verified)]]
          \/ /\ i \in w.merged.credentials
             /\ worker' = [worker EXCEPT ![n] = [w EXCEPT !.pc = "failing"]]
  /\ Yield(n)
  /\ UNCHANGED <<store, lapsed, queue, running, handler, faults>>

(* The compare of the final commit: the settled exchange replaces the whole  *)
(* record; a failure only swaps the task of the current one.                 *)
WorkerCommitGet(n) ==
  LET w == worker[n] IN
  /\ w.pc = "failing" \/ (w.pc = "verify" /\ w.todo = {})
  /\ HasTurn(n, n)
  /\ worker' = [worker EXCEPT ![n] =
       IF ~CasMatches(w.ex, w.snap.task.attemptId) THEN RestingWorker("drain")
       ELSE [w EXCEPT !.pc = "commitSet",
               !.next = IF w.pc = "failing"
                          THEN WithVerifyTask(store[w.ex], MarkFailed(w.snap.task))
                          ELSE Settled(w.snap, w.merged)]]
  /\ Continue(n, n)
  /\ UNCHANGED <<store, lapsed, queue, running, handler, faults>>

WorkerCommitSet(n) ==
  LET w == worker[n] IN
  /\ w.pc = "commitSet" /\ HasTurn(n, n)
  /\ Put(w.ex, w.next)
  /\ worker' = [worker EXCEPT ![n] = RestingWorker("drain")]
  /\ Yield(n)
  /\ UNCHANGED <<lapsed, queue, running, handler, faults>>

-----------------------------------------------------------------------------
(* The environment *)

(* The clock passes deadlineAt of the attempt in the record.                 *)
DeadlineLapses(e) ==
  /\ Pending(store[e])
  /\ \E id \in AttemptIds \ lapsed :
       id = store[e].task.attemptId /\ lapsed' = lapsed \cup {id}
  /\ UNCHANGED <<store, queue, running, worker, handler, turn, faults>>

(* The clock passes expires + 1 s: Keyv no longer returns the record.        *)
Expire(e) ==
  /\ Readable(store[e])
  /\ store' = [store EXCEPT ![e] = NotStored("expired")]
  /\ UNCHANGED <<lapsed, queue, running, worker, handler, turn, faults>>

(* A store access throws, or a set succeeds and its answer is lost.  A       *)
(* handler answers 500; a worker's error is swallowed by the drainer, which  *)
(* takes the next id.                                                        *)
HandlerStoreFault(h) ==
  /\ faults < MaxFaults /\ faults' = faults + 1
  /\ handler[h].pc \in {"save", "casGet", "casSet"} /\ HasTurn(handler[h].at, h)
  /\ \/ UNCHANGED store
     \/ handler[h].pc # "casGet" /\ Put(handler[h].ex, handler[h].next)
  /\ Fail(h)
  /\ Yield(handler[h].at)
  /\ UNCHANGED <<lapsed, queue, running, worker>>

\* A slip: without the inner catch an error ends the drain loop.
WorkerFaultUncaught(n) ==
  /\ faults < MaxFaults /\ faults' = faults + 1
  /\ \/ worker[n].pc \in {"load", "mark", "markSet", "failing", "commitSet"}
     \/ worker[n].pc = "verify" /\ worker[n].todo = {}
  /\ HasTurn(n, n)
  /\ worker' = [worker EXCEPT ![n] = RestingWorker("off")]
  /\ running' = [running EXCEPT ![n] = FALSE]
  /\ Yield(n)
  /\ UNCHANGED <<store, lapsed, queue, handler>>

WorkerStoreFault(n) ==
  /\ faults < MaxFaults /\ faults' = faults + 1
  /\ \/ worker[n].pc \in {"load", "mark", "markSet", "failing", "commitSet"}
     \/ worker[n].pc = "verify" /\ worker[n].todo = {}
  /\ HasTurn(n, n)
  /\ \/ UNCHANGED store
     \/ worker[n].pc \in {"markSet", "commitSet"} /\ Put(worker[n].ex, worker[n].next)
  /\ worker' = [worker EXCEPT ![n] = RestingWorker("drain")]
  /\ Yield(n)
  /\ UNCHANGED <<lapsed, queue, running, handler>>

(* The process dies and is restarted: its queue, its worker and its requests *)
(* are gone, the records are not.                                            *)
Crash(n) ==
  /\ faults < MaxFaults /\ faults' = faults + 1
  /\ queue' = [queue EXCEPT ![n] = <<>>]
  /\ running' = [running EXCEPT ![n] = FALSE]
  /\ worker' = [worker EXCEPT ![n] = RestingWorker("off")]
  /\ handler' = [h \in Handlers |->
       IF handler[h].at # n THEN handler[h]   \* at rest or on another replica
       ELSE RestingHandler(IF h \in Requests THEN "failed" ELSE "idle")]
  /\ Yield(n)
  /\ UNCHANGED <<store, lapsed>>

-----------------------------------------------------------------------------
Post(r) ==
  \E n \in Replicas, e \in Exchanges :
    \/ r \in Openers /\ PostEmpty(r, n, e)
    \/ r \in Presenters /\ PostPresentation(r, n, e)
    \/ r \in AuthRequests /\ GetAuthorizationRequest(r, n, e)
    \/ r \in DirectPosts /\ PostDirectPost(r, n, e)

RequestStep(r) ==
  \/ Post(r) \/ HandleOid4vpResponse(r) \/ PresentationVerified(r)
  \/ PresentationRejected(r) \/ SaveExchange(r)

PollerStep(p) == SweepCasGet(p) \/ SweepCasSet(p)

WorkerStep(n) ==
  \/ DrainNext(n) \/ DrainStop(n)
  \/ WorkerLoad(n) \/ WorkerMarkGet(n) \/ WorkerMarkSet(n)
  \/ WorkerVerify(n) \/ WorkerCommitGet(n) \/ WorkerCommitSet(n)

Next ==
  \/ \E e \in Exchanges : CreateExchange(e) \/ DeadlineLapses(e) \/ Expire(e)
  \/ \E r \in Requests : RequestStep(r)
  \/ \E p \in Pollers, n \in Replicas, e \in Exchanges : SweepRead(p, n, e)
  \/ \E p \in Pollers : PollerStep(p)
  \/ \E h \in Handlers : EnqueueVerifyTask(h) \/ HandlerStoreFault(h)
  \/ \E n \in Replicas : WorkerStep(n) \/ WorkerStoreFault(n) \/ Crash(n)

Spec == Init /\ [][Next]_vars

(* Clients keep polling, the clock advances, and a handler that has begun    *)
(* ends: Node serves every ready callback, so being passed over for ever by  *)
(* other callbacks is ruled out (SF where the loop's turn comes and goes).   *)
(* Of the worker only that it does not stop in the middle of a turn: the     *)
(* drainer may never start and the verifier may never answer.                *)
PollingFairness ==
  /\ \A e \in Exchanges : WF_vars(DeadlineLapses(e))
  /\ \A e \in Exchanges :
       SF_vars(\E p \in Pollers, n \in Replicas : SweepRead(p, n, e))
  /\ \A p \in Pollers : SF_vars(PollerStep(p) \/ EnqueueVerifyTask(p))
  /\ \A r \in Requests :
       SF_vars(HandleOid4vpResponse(r) \/ PresentationVerified(r)
                 \/ PresentationRejected(r) \/ SaveExchange(r) \/ EnqueueVerifyTask(r))
  /\ \A n \in Replicas : WF_vars(turn[n] = n /\ WorkerStep(n))

(* A worker that is never stuck in the verifier.                             *)
WorkerFairness == \A n \in Replicas : SF_vars(WorkerStep(n))

PollingSpec == Spec /\ PollingFairness

-----------------------------------------------------------------------------
(* Properties *)

TypeOK ==
  /\ store \in [Exchanges -> Exchange]
  /\ lapsed \subseteq AttemptIds
  /\ queue \in [Replicas -> Seq(Exchanges)]
  /\ running \in [Replicas -> BOOLEAN]
  /\ worker \in [Replicas -> Worker]
  /\ handler \in [Handlers -> Handler]
  /\ turn \in [Replicas -> Actors \cup {None}]
  /\ faults \in 0..MaxFaults

(* A verify exchange is "complete" only if verification passed and every     *)
(* Open Badges credential of the presentation it shows was checked by the    *)
(* Open Badges suite and none refuted, whatever snapshots were saved over    *)
(* one another (participateInVerifyExchange, processVerifyTask).             *)
CompleteIsRechecked ==
  \A e \in Exchanges : store[e].state = "complete" =>
    /\ store[e].results.verified
    /\ store[e].results.badges \subseteq store[e].results.rechecked
    /\ store[e].results.refuted = {}

(* What makes it so, of every record stored or carried across an await: the  *)
(* badges it shows were rechecked or are the current task's to recheck; an   *)
(* attempt id stands for one attempt at one list of badges, so the           *)
(* compare-and-set lets no task be written over another presentation's       *)
(* results; and the pass under way still has to do what it has not done.     *)
Coherent(x) ==
  /\ x.results.badges \subseteq x.results.credentials
  /\ x.results.badges \subseteq x.results.rechecked \cup x.task.badges
  /\ x.results.verified => x.results.refuted = {}
  /\ x.state = "complete" =>
       x.results.verified /\ x.results.badges \subseteq x.results.rechecked
  /\ x.task.attemptId = None => x.task.badges = {} /\ x.task.attempt = 0

SameTask(x, y) ==
  x.task.attemptId = y.task.attemptId =>
    x.task.badges = y.task.badges /\ x.task.attempt = y.task.attempt

PassUnderWay(w) ==
  w.pc \in {"verify", "failing"} =>
    /\ w.merged.badges \subseteq w.merged.credentials
    /\ w.merged.badges \subseteq w.merged.rechecked \cup w.todo
    /\ w.merged.verified => w.merged.refuted = {}

RecordsCoherent ==
  /\ \A x \in Records : Coherent(x)
  /\ \A x, y \in Records : SameTask(x, y)
  /\ \A n \in Replicas : PassUnderWay(worker[n])

(* An id in the FIFO has a drain loop that will take it, and the `running`   *)
(* flag says so: no wakeup is lost between drain's last look at the queue    *)
(* and the flag's reset (enqueueVerifyTask, drain).                          *)
NoLostWakeup ==
  \A n \in Replicas :
    /\ queue[n] # <<>> => worker[n].pc # "off"
    /\ running[n] <=> worker[n].pc # "off"

(* README: 'gave-up' pairs with state 'invalid' (and giveUp adds the         *)
(* pipeline.timeout check that says why).                                    *)
GaveUpMeansInvalid ==
  \A e \in Exchanges : store[e].task.status = "gave-up" =>
    store[e].state = "invalid" /\ store[e].results.timedOut

(* Open Badges runs of one exchange that are waiting or under way.           *)
Backlog(e) ==
  LET waiting(n) == {<<n, i>> : i \in {j \in 1..Len(queue[n]) : queue[n][j] = e}}
      underWay   == {n \in Replicas : worker[n].ex = e}
  IN Cardinality(UNION {waiting(n) : n \in Replicas}) + Cardinality(underWay)

(* README: duplicate work is bounded by VERIFY_TASK_MAX_ATTEMPTS.            *)
DuplicateWorkBounded == \A e \in Exchanges : Backlog(e) <= MaxAttempts

(* What the record of an exchange comes to for whoever looks only at the     *)
(* promise.  An exchange with a failed task is one that is still being       *)
(* checked; one whose badges were checked after it was given up is decided,  *)
(* and stays invalid because the mark of the give-up stays in its results.   *)
Phase(x) ==
  CASE x.state = "none"    -> "new"
    [] x.state = "expired" -> "gone"
    [] x.state \in {"pending", "active"} -> IF x.task = NoTask THEN "open" ELSE "checking"
    [] x.state = "complete" -> "complete"
    [] x.state = "invalid"  ->
         IF x.results.timedOut /\ x.results.rechecked = {} THEN "gaveUp" ELSE "invalid"

Promise(e) == INSTANCE VerifyPromise WITH
  Badges  <- Credentials,
  phase   <- Phase(store[e]),
  attempt <- store[e].task.attempt,
  shown   <- [badges  |-> store[e].results.badges,
              checked |-> store[e].results.rechecked,
              refuted |-> store[e].results.refuted]

(* Each exchange keeps the promise of a verify exchange: what is complete,   *)
(* or invalid by a verdict, stays so until it expires, attempts count up to  *)
(* their bound and only while badges are being checked, and only the last is *)
(* given up (in process, with one presentation: sweepIfTimedOut,             *)
(* processVerifyTask, saveExchangeWithCAS).                                  *)
KeepsVerifyPromise ==
  /\ \A e \in Exchanges : Promise(e)!Init
  /\ [][\A e \in Exchanges : [Promise(e)!Next]_(Promise(e)!vars)]_vars

(* An attempt that a sweep has superseded never comes back: the stale        *)
(* worker's results, and a second sweep's bump, are discarded.               *)
AttemptNeverRegresses ==
  [][\A e \in Exchanges : Readable(store'[e]) =>
       /\ store'[e].task.attempt >= store[e].task.attempt
       /\ store'[e].task.attempt = store[e].task.attempt =>
            store'[e].task.attemptId = store[e].task.attemptId]_vars

(* README: 'gave-up' is terminal.                                            *)
GaveUpIsTerminal ==
  [][\A e \in Exchanges : store[e].task.status = "gave-up" =>
       store'[e].task.status = "gave-up" \/ store'[e].state = "expired"]_vars

AnsweredFor(d, e) == handler[d].pc = "done" /\ handler[d].ex = e

NobodyPresented == \A r \in Presenters : handler[r].pc = "idle"

(* docs/oid4vp-1.0-verifier.md: the state is a single-use token, consumed    *)
(* once.  Of the responses to one exchange only one is answered 200          *)
(* (consumeOid4vpResponse, handleOid4vpResponse).                            *)
ResponseAcceptedOnce ==
  \A e \in Exchanges : Cardinality({d \in DirectPosts : AnsweredFor(d, e)}) <= 1

(* The replay guard proper: once one response was answered 200, a response   *)
(* that begins afterwards is refused, whatever sweeps, workers, responses    *)
(* that were already under way and later VC-API presentations save in        *)
(* between.  It is what ResponseAcceptedOnce comes to in process, of         *)
(* responses that do not overlap and no VC-API presentation under way        *)
(* (consumeOid4vpResponse, saveExchange, processVerifyTask).                 *)
ReplaysAreRefused ==
  \A e \in Exchanges, d1, d2 \in DirectPosts :
    [](AnsweredFor(d1, e) /\ handler[d2].pc = "idle" /\ NobodyPresented
         => []~AnsweredFor(d2, e))

(* docs/oid4vp-1.0-verifier.md, replay guard: once a response was answered   *)
(* 200 the record says so until it expires, whoever saves it after that      *)
(* (consumeOid4vpResponse).                                                  *)
ReplayGuardHolds ==
  \A d \in DirectPosts : handler[d].pc = "done" =>
    \/ store[handler[d].ex].oid4vp.received
    \/ store[handler[d].ex].state = "expired"

(* A response that the pipeline refused does not burn the token: the mark is *)
(* only ever stored with a verdict or with a task that will give one         *)
(* (handleOid4vpResponse saves nothing before participateInVerifyExchange).  *)
VerdictOrTask(x) ==
  \/ x.state \in {"complete", "invalid"}
  \/ x.state = "active" /\ x.task.attemptId # None

SpentMeansVerified ==
  \A e \in Exchanges : store[e].oid4vp.received => VerdictOrTask(store[e])

(* Every copy of the record of e that counts: the stored one, those read by  *)
(* an actor still under way, and those about to be written.                  *)
Copies(e) ==
  LET reading == {h \in Handlers : handler[h].ex = e
                    /\ handler[h].pc \in {"body", "verify", "save", "casGet", "casSet"}}
      writing == {h \in reading : handler[h].pc \in {"save", "casGet", "casSet"}}
      passing == {n \in Replicas : worker[n].ex = e
                    /\ worker[n].pc \in {"mark", "markSet", "verify", "failing", "commitSet"}}
      setting == {n \in passing : worker[n].pc \in {"markSet", "commitSet"}}
  IN {store[e]} \cup {handler[h].snap : h \in reading} \cup {handler[h].next : h \in writing}
       \cup {worker[n].snap : n \in passing} \cup {worker[n].next : n \in setting}

Standing(e, g) == \A x \in Copies(e) : Readable(x) /\ x.oid4vp.state = g

(* hono.ts: the first GET mints and persists the state, subsequent GETs      *)
(* return the same request until the exchange expires.  It is so from the    *)
(* moment when nobody is left who read the record before the mint: no GET,   *)
(* POST by either protocol, sweep or worker replaces the token after that    *)
(* (ensureOid4vpState, participateInVerifyExchange, processVerifyTask).      *)
AuthorizationRequestStands ==
  [][\A e \in Exchanges, g \in AuthRequests :
       Standing(e, g) => Standing(e, g)' \/ store'[e].state = "expired"]_vars

(* Polling alone settles every Open Badges pass, worker or no worker: from   *)
(* some point on no exchange waits in queued or running (sweepIfTimedOut).   *)
PollingSettles == <>[](\A e \in Exchanges : ~Pending(store[e]))

(* Every id in a replica's FIFO is taken, if the verifier always answers: a  *)
(* stale id, a throwing verifier or a failing store access never leaves the  *)
(* drainer asleep on a queue that is not empty (drain's inner catch and its  *)
(* finally).                                                                 *)
QueueDrains ==
  WorkerFairness => \A n \in Replicas : queue[n] # <<>> ~> queue[n] = <<>>
=============================================================================
