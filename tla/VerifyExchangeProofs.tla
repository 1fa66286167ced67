------------------------ MODULE VerifyExchangeProofs ------------------------
(***************************************************************************)
(* Proofs about VerifyExchange that hold for every number of exchanges,    *)
(* replicas, requests, pollers, attempts and credentials, and for both     *)
(* kinds of store.                                                         *)
(***************************************************************************)
EXTENDS VerifyExchange, TLAPS

-----------------------------------------------------------------------------
(* The pure operators keep their types *)

LEMMA ConstantsTyped ==
  /\ NoTask \in Task /\ NoResults \in Results
  /\ Nothing \in Exchange /\ NewExchange \in Exchange
  /\ NotStored("expired") \in Exchange
BY MaxAttemptsAssumption
   DEF NoTask, Task, TaskStatus, NoResults, Results, NoOid4vp, Oid4vp, Nothing,
       NewExchange, NotStored, Exchange, ExchangeState

LEMMA ResultsTyped ==
  /\ \A p \in Presentations, v \in BOOLEAN : SyncResults(p, v) \in Results
  /\ \A r \in Results, i \in Credentials, v \in BOOLEAN :
       MergeOpenBadgesResultsAt(r, i, v) \in Results
  /\ \A r \in Results : AppendTimeout(r) \in Results /\ Outcome(r) \in ExchangeState
<1>1. ASSUME NEW p \in Presentations, NEW v \in BOOLEAN
      PROVE  SyncResults(p, v) \in Results
  BY PresentationsAssumption DEF SyncResults, NoResults, Results
<1>2. ASSUME NEW r \in Results, NEW i \in Credentials, NEW v \in BOOLEAN
      PROVE  MergeOpenBadgesResultsAt(r, i, v) \in Results
  BY DEF MergeOpenBadgesResultsAt, Results
<1>3. ASSUME NEW r \in Results
      PROVE  AppendTimeout(r) \in Results /\ Outcome(r) \in ExchangeState
  BY DEF AppendTimeout, Outcome, Results, ExchangeState
<1> QED BY <1>1, <1>2, <1>3

LEMMA TasksTyped ==
  /\ \A id \in AttemptIds, b \in SUBSET Credentials : NewVerifyTask(id, b) \in Task
  /\ \A t \in Task : /\ MarkRunning(t) \in Task /\ MarkSucceeded(t) \in Task
                     /\ MarkFailed(t) \in Task /\ MarkGaveUp(t) \in Task
  /\ \A t \in Task, id \in AttemptIds :
       t.attempt < MaxAttempts => BumpAttempt(t, id) \in Task
<1>1. ASSUME NEW id \in AttemptIds, NEW b \in SUBSET Credentials
      PROVE  NewVerifyTask(id, b) \in Task
  BY MaxAttemptsAssumption DEF NewVerifyTask, Task, TaskStatus
<1>2. ASSUME NEW t \in Task
      PROVE  /\ MarkRunning(t) \in Task /\ MarkSucceeded(t) \in Task
             /\ MarkFailed(t) \in Task /\ MarkGaveUp(t) \in Task
  BY DEF MarkRunning, MarkSucceeded, MarkFailed, MarkGaveUp, Task, TaskStatus
<1>3. ASSUME NEW t \in Task, NEW id \in AttemptIds, t.attempt < MaxAttempts
      PROVE  BumpAttempt(t, id) \in Task
  <2>1. t.attempt + 1 \in 0..MaxAttempts
    BY <1>3, MaxAttemptsAssumption DEF Task
  <2> QED BY <2>1 DEF BumpAttempt, Task, TaskStatus
<1> QED BY <1>1, <1>2, <1>3

LEMMA ExchangesTyped ==
  /\ \A x \in Exchange, t \in Task : WithVerifyTask(x, t) \in Exchange
  /\ \A x \in Exchange, r \in Results :
       ApplyVerificationResults(x, r) \in Exchange /\ Settled(x, r) \in Exchange
  /\ \A x \in Exchange, r \in Results, id \in AttemptIds :
       WithSyncResultsAndQueuedVerifyTask(x, r, id) \in Exchange
  /\ \A x \in Exchange, id \in AttemptIds : MayRetry(x) => Bumped(x, id) \in Exchange
  /\ \A x \in Exchange : GivenUp(x) \in Exchange
  /\ \A x \in Exchange, g \in AuthRequests : EnsureOid4vpState(x, g) \in Exchange
  /\ \A x \in Exchange : ConsumeOid4vpResponse(x) \in Exchange
<1>1. ASSUME NEW x \in Exchange, NEW t \in Task
      PROVE  WithVerifyTask(x, t) \in Exchange
  BY DEF WithVerifyTask, Exchange
<1>2. ASSUME NEW x \in Exchange, NEW r \in Results
      PROVE  ApplyVerificationResults(x, r) \in Exchange /\ Settled(x, r) \in Exchange
  BY ResultsTyped, TasksTyped DEF ApplyVerificationResults, Settled, Exchange
<1>3. ASSUME NEW x \in Exchange, NEW r \in Results, NEW id \in AttemptIds
      PROVE  WithSyncResultsAndQueuedVerifyTask(x, r, id) \in Exchange
  <2>1. NewVerifyTask(id, r.badges) \in Task
    BY TasksTyped DEF Results
  <2> QED BY <1>2, <2>1 DEF WithSyncResultsAndQueuedVerifyTask, Exchange, ExchangeState
<1>4. ASSUME NEW x \in Exchange, NEW id \in AttemptIds, MayRetry(x)
      PROVE  Bumped(x, id) \in Exchange
  BY <1>1, <1>4, TasksTyped DEF Bumped, MayRetry, Exchange
<1>5. ASSUME NEW x \in Exchange
      PROVE  GivenUp(x) \in Exchange
  BY ResultsTyped, TasksTyped DEF GivenUp, Exchange, ExchangeState
<1>6. ASSUME NEW x \in Exchange
      PROVE  /\ ConsumeOid4vpResponse(x) \in Exchange
             /\ \A g \in AuthRequests : EnsureOid4vpState(x, g) \in Exchange
  BY DEF EnsureOid4vpState, ConsumeOid4vpResponse, Exchange, Oid4vp
<1> QED BY <1>1, <1>2, <1>3, <1>4, <1>5, <1>6

LEMMA FreshIdTyped ==
  FreshIds # {} => /\ FreshId \in AttemptIds
                   /\ \A x \in Records : x.task.attemptId # FreshId
BY DEF FreshId, FreshIds

LEMMA RestingTyped ==
  /\ \A pc \in HandlerPc : RestingHandler(pc) \in Handler
  /\ \A pc \in WorkerPc : RestingWorker(pc) \in Worker
BY ConstantsTyped DEF RestingHandler, RestingWorker, Handler, Worker

-----------------------------------------------------------------------------
(* Type correctness *)

(* An actor in the middle of its work knows its exchange (and a handler its  *)
(* replica); without this, what it reads from the store has no type.         *)
HandlerAtWork(y) ==
  y.pc \notin {"idle", "done", "failed"} => y.ex \in Exchanges /\ y.at \in Replicas
WorkerAtWork(w) == w.pc \notin {"off", "drain"} => w.ex \in Exchanges

AtWork ==
  /\ \A h \in Handlers : HandlerAtWork(handler[h])
  /\ \A n \in Replicas : WorkerAtWork(worker[n])

TypeInv == TypeOK /\ AtWork

LEMMA InitTyped == Init => TypeInv
<1> SUFFICES ASSUME Init PROVE TypeInv
  OBVIOUS
<1>1. NotStored("none") \in Exchange
  BY ConstantsTyped DEF Nothing
<1>2. RestingWorker("off") \in Worker /\ RestingHandler("idle") \in Handler
  BY RestingTyped DEF HandlerPc, WorkerPc
<1>3. store \in [Exchanges -> Exchange] /\ worker \in [Replicas -> Worker]
      /\ handler \in [Handlers -> Handler]
  BY <1>1, <1>2 DEF Init
<1>4. /\ queue \in [Replicas -> Seq(Exchanges)] /\ running \in [Replicas -> BOOLEAN]
      /\ turn \in [Replicas -> Actors \cup {None}] /\ faults \in 0..MaxFaults
      /\ lapsed \subseteq AttemptIds
  BY BoundsAssumption DEF Init
<1>5. AtWork
  BY DEF Init, AtWork, HandlerAtWork, WorkerAtWork, RestingWorker, RestingHandler
<1> QED BY <1>3, <1>4, <1>5 DEF TypeInv, TypeOK

(* The shapes that the actions' assignments take.                            *)
LEMMA StoreTyped ==
  ASSUME TypeInv, NEW e, NEW x \in Exchange, Put(e, x)
  PROVE  store' \in [Exchanges -> Exchange]
BY DEF TypeInv, TypeOK, Put

LEMMA TurnTyped ==
  ASSUME TypeInv, NEW n, NEW a \in Actors, Continue(n, a) \/ Yield(n)
  PROVE  turn' \in [Replicas -> Actors \cup {None}]
BY DEF TypeInv, TypeOK, Continue, Yield

HandlersTyped ==
  handler \in [Handlers -> Handler] /\ \A h \in Handlers : HandlerAtWork(handler[h])
WorkersTyped ==
  worker \in [Replicas -> Worker] /\ \A n \in Replicas : WorkerAtWork(worker[n])

LEMMA HandlerTyped ==
  ASSUME TypeInv, NEW h \in Handlers, NEW y \in Handler, HandlerAtWork(y),
         handler' = [handler EXCEPT ![h] = y]
  PROVE  HandlersTyped'
BY DEF TypeInv, TypeOK, AtWork, HandlersTyped, HandlerAtWork

LEMMA RestingHandlerTyped ==
  ASSUME NEW pc \in {"idle", "done", "failed"}, NEW e \in Exchanges \cup {None}
  PROVE  LET y == [RestingHandler(pc) EXCEPT !.ex = e]
         IN /\ y \in Handler /\ HandlerAtWork(y)
            /\ RestingHandler(pc) \in Handler /\ HandlerAtWork(RestingHandler(pc))
BY RestingTyped DEF HandlerPc, HandlerAtWork, RestingHandler, Handler

LEMMA FinishTyped ==
  ASSUME TypeInv, NEW h \in Handlers, Finish(h) \/ Fail(h)
  PROVE  HandlersTyped'
<1>1. handler[h].ex \in Exchanges \cup {None}
  BY DEF TypeInv, TypeOK, Handler
<1>2. PICK y \in {Answered(h), RestingHandler("failed"), RestingHandler("idle")} :
        handler' = [handler EXCEPT ![h] = y]
  BY DEF Finish, Fail, Over
<1>3. y \in Handler /\ HandlerAtWork(y)
  BY <1>1, <1>2, RestingHandlerTyped DEF Answered
<1> QED BY <1>2, <1>3, HandlerTyped

LEMMA WorkerTyped ==
  ASSUME TypeInv, NEW n, NEW w \in Worker, WorkerAtWork(w),
         worker' = [worker EXCEPT ![n] = w]
  PROVE  WorkersTyped'
BY DEF TypeInv, TypeOK, AtWork, WorkersTyped, WorkerAtWork

LEMMA RestingWorkerTyped ==
  ASSUME NEW pc \in {"off", "drain"}
  PROVE  RestingWorker(pc) \in Worker /\ WorkerAtWork(RestingWorker(pc))
BY RestingTyped DEF WorkerPc, WorkerAtWork, RestingWorker

LEMMA Assembled ==
  ASSUME store' \in [Exchanges -> Exchange], lapsed' \subseteq AttemptIds,
         queue' \in [Replicas -> Seq(Exchanges)], running' \in [Replicas -> BOOLEAN],
         turn' \in [Replicas -> Actors \cup {None}], faults' \in 0..MaxFaults,
         HandlersTyped', WorkersTyped'
  PROVE  TypeInv'
BY DEF TypeInv, TypeOK, AtWork, HandlersTyped, WorkersTyped

LEMMA Disassembled ==
  ASSUME TypeInv
  PROVE  /\ store \in [Exchanges -> Exchange] /\ lapsed \subseteq AttemptIds
         /\ queue \in [Replicas -> Seq(Exchanges)] /\ running \in [Replicas -> BOOLEAN]
         /\ turn \in [Replicas -> Actors \cup {None}] /\ faults \in 0..MaxFaults
         /\ HandlersTyped /\ WorkersTyped
BY DEF TypeInv, TypeOK, AtWork, HandlersTyped, WorkersTyped

LEMMA RequestTyped ==
  ASSUME TypeInv, NEW r \in Requests, RequestStep(r)
  PROVE  TypeInv'
<1> r \in Handlers /\ r \in Actors
  BY DEF Handlers, Actors
<1>h. handler[r] \in Handler /\ HandlerAtWork(handler[r])
  BY DEF TypeInv, TypeOK, AtWork
<1>1. ASSUME NEW n \in Replicas, NEW e \in Exchanges,
             PostEmpty(r, n, e) \/ PostPresentation(r, n, e) \/ PostDirectPost(r, n, e)
      PROVE  TypeInv'
  <2>1. store[e] \in Exchange
    BY Disassembled
  <2>2. PICK pc \in {"save", "verify", "body"}, x \in Exchange : handler' = [handler EXCEPT ![r] =
          [pc |-> pc, at |-> n, ex |-> e, snap |-> store[e], next |-> x]]
    <3>1. [store[e] EXCEPT !.state = "active"] \in Exchange /\ Nothing \in Exchange
      BY <2>1, ConstantsTyped DEF Exchange, ExchangeState
    <3> QED BY <1>1, <3>1 DEF PostEmpty, PostPresentation, PostDirectPost
  <2>3. HandlersTyped'
    <3> DEFINE y == [pc |-> pc, at |-> n, ex |-> e, snap |-> store[e], next |-> x]
    <3>1. y \in Handler /\ HandlerAtWork(y)
      BY <2>1 DEF Handler, HandlerPc, HandlerAtWork
    <3> QED BY <2>2, <3>1, HandlerTyped
  <2> QED
    BY <1>1, <2>3, TurnTyped, Assembled, Disassembled
       DEF PostEmpty, PostPresentation, PostDirectPost, WorkersTyped
<1>2. ASSUME PresentationVerified(r)
      PROVE  TypeInv'
  <2>1. PICK x \in Exchange : handler' = [handler EXCEPT ![r] =
          [@ EXCEPT !.pc = "save", !.next = x]]
    <3>1. handler[r].snap \in Exchange
      BY <1>h DEF Handler
    <3> QED BY <1>2, <3>1, ResultsTyped, ExchangesTyped, FreshIdTyped DEF PresentationVerified
  <2>2. HandlersTyped'
    <3> DEFINE y == [handler[r] EXCEPT !.pc = "save", !.next = x]
    <3>1. y \in Handler /\ HandlerAtWork(y)
      BY <1>h, <1>2 DEF Handler, HandlerPc, HandlerAtWork, PresentationVerified
    <3> QED BY <2>1, <3>1, HandlerTyped
  <2> QED
    BY <1>2, <2>2, TurnTyped, Assembled, Disassembled DEF PresentationVerified, WorkersTyped
<1>3. ASSUME PresentationRejected(r)
      PROVE  TypeInv'
  BY <1>3, FinishTyped, TurnTyped, Assembled, Disassembled
     DEF PresentationRejected, WorkersTyped
<1>4. ASSUME SaveExchange(r)
      PROVE  TypeInv'
  <2>1. store' \in [Exchanges -> Exchange]
    BY <1>h, <1>4, StoreTyped DEF SaveExchange, Handler
  <2>2. HandlersTyped'
    <3> DEFINE y == [handler[r] EXCEPT !.pc = "enqueue"]
    <3>1. y \in Handler /\ HandlerAtWork(y)
      BY <1>h, <1>4 DEF Handler, HandlerPc, HandlerAtWork, SaveExchange
    <3> QED BY <1>4, <3>1, HandlerTyped, FinishTyped DEF SaveExchange
  <2> QED BY <1>4, <2>1, <2>2, TurnTyped, Assembled, Disassembled DEF SaveExchange, WorkersTyped
<1>5. ASSUME NEW n \in Replicas, NEW e \in Exchanges, r \in AuthRequests,
             GetAuthorizationRequest(r, n, e)
      PROVE  TypeInv'
  <2> DEFINE y == [pc |-> "save", at |-> n, ex |-> e, snap |-> store[e],
                   next |-> EnsureOid4vpState(store[e], r)]
             z == [RestingHandler("done") EXCEPT !.ex = e]
  <2>1. store[e] \in Exchange /\ EnsureOid4vpState(store[e], r) \in Exchange
    BY <1>5, Disassembled, ExchangesTyped
  <2>2. y \in Handler /\ HandlerAtWork(y)
    BY <2>1 DEF Handler, HandlerPc, HandlerAtWork
  <2>3. z \in Handler /\ HandlerAtWork(z)
    BY RestingHandlerTyped
  <2>4. handler' = [handler EXCEPT ![r] = y] \/ handler' = [handler EXCEPT ![r] = z]
    BY <1>5 DEF GetAuthorizationRequest
  <2>5. HandlersTyped'
    <3> HIDE DEF y, z
    <3> QED BY <2>2, <2>3, <2>4, HandlerTyped
  <2> QED
    BY <1>5, <2>5, TurnTyped, Assembled, Disassembled
       DEF GetAuthorizationRequest, WorkersTyped
<1>6. ASSUME HandleOid4vpResponse(r)
      PROVE  TypeInv'
  <2> DEFINE y == [handler[r] EXCEPT !.pc = "verify",
                                     !.snap = ConsumeOid4vpResponse(handler[r].snap)]
  <2>1. ConsumeOid4vpResponse(handler[r].snap) \in Exchange
    BY <1>h, ExchangesTyped DEF Handler
  <2>2. y \in Handler /\ HandlerAtWork(y)
    BY <1>h, <1>6, <2>1 DEF Handler, HandlerPc, HandlerAtWork, HandleOid4vpResponse
  <2>3. HandlersTyped'
    BY <1>6, <2>2, HandlerTyped, FinishTyped DEF HandleOid4vpResponse
  <2> QED
    BY <1>6, <2>3, TurnTyped, Assembled, Disassembled
       DEF HandleOid4vpResponse, WorkersTyped
<1> QED BY <1>1, <1>2, <1>3, <1>4, <1>5, <1>6 DEF RequestStep, Post

LEMMA SweepTyped ==
  ASSUME TypeInv, NEW p \in Pollers,
         \/ \E n \in Replicas, e \in Exchanges : SweepRead(p, n, e)
         \/ PollerStep(p)
  PROVE  TypeInv'
<1> p \in Handlers /\ p \in Actors
  BY DEF Handlers, Actors
<1>h. handler[p] \in Handler /\ HandlerAtWork(handler[p])
  BY DEF TypeInv, TypeOK, AtWork
<1>1. ASSUME NEW n \in Replicas, NEW e \in Exchanges, SweepRead(p, n, e)
      PROVE  TypeInv'
  <2>1. store[e] \in Exchange
    BY Disassembled
  <2>2. PICK x \in Exchange : handler' = [handler EXCEPT ![p] =
          [pc |-> "casGet", at |-> n, ex |-> e, snap |-> store[e], next |-> x]]
    BY <1>1, <2>1, ExchangesTyped, FreshIdTyped DEF SweepRead
  <2>3. HandlersTyped'
    <3> DEFINE y == [pc |-> "casGet", at |-> n, ex |-> e, snap |-> store[e], next |-> x]
    <3>1. y \in Handler /\ HandlerAtWork(y)
      BY <2>1 DEF Handler, HandlerPc, HandlerAtWork
    <3> QED BY <2>2, <3>1, HandlerTyped
  <2>4. lapsed' \subseteq AttemptIds
    BY <1>1, Disassembled DEF SweepRead
  <2> QED BY <1>1, <2>3, <2>4, TurnTyped, Assembled, Disassembled DEF SweepRead, WorkersTyped
<1>2. ASSUME SweepCasGet(p)
      PROVE  TypeInv'
  <2> DEFINE y == [handler[p] EXCEPT !.pc = "casSet"]
  <2>1. y \in Handler /\ HandlerAtWork(y)
    BY <1>h, <1>2 DEF Handler, HandlerPc, HandlerAtWork, SweepCasGet
  <2>2. HandlersTyped'
    BY <1>2, <2>1, HandlerTyped, FinishTyped DEF SweepCasGet
  <2> QED BY <1>2, <2>2, TurnTyped, Assembled, Disassembled DEF SweepCasGet, WorkersTyped
<1>3. ASSUME SweepCasSet(p)
      PROVE  TypeInv'
  <2> DEFINE y == [handler[p] EXCEPT !.pc = "enqueue"]
  <2>1. store' \in [Exchanges -> Exchange]
    BY <1>h, <1>3, StoreTyped DEF SweepCasSet, Handler
  <2>2. y \in Handler /\ HandlerAtWork(y)
    BY <1>h, <1>3 DEF Handler, HandlerPc, HandlerAtWork, SweepCasSet
  <2>3. HandlersTyped'
    BY <1>3, <2>2, HandlerTyped, FinishTyped DEF SweepCasSet
  <2> QED BY <1>3, <2>1, <2>3, TurnTyped, Assembled, Disassembled DEF SweepCasSet, WorkersTyped
<1> QED BY <1>1, <1>2, <1>3 DEF PollerStep

LEMMA EnqueueTyped ==
  ASSUME TypeInv, NEW h \in Handlers, EnqueueVerifyTask(h)
  PROVE  TypeInv'
<1> DEFINE n == handler[h].at
<1>1. h \in Actors /\ n \in Replicas /\ handler[h].ex \in Exchanges
  BY DEF Actors, TypeInv, AtWork, HandlerAtWork, EnqueueVerifyTask
<1>2. HandlersTyped' /\ turn' \in [Replicas -> Actors \cup {None}]
  BY <1>1, FinishTyped, TurnTyped DEF EnqueueVerifyTask
<1>3. queue' \in [Replicas -> Seq(Exchanges)] /\ running' \in [Replicas -> BOOLEAN]
  BY <1>1, Disassembled DEF EnqueueVerifyTask, Enqueued
<1>4. WorkersTyped'
  <2>1. CASE worker' = worker
    BY <2>1, Disassembled DEF WorkersTyped
  <2>2. CASE worker' = [worker EXCEPT ![n] = RestingWorker("drain")]
    BY <2>2, RestingWorkerTyped, WorkerTyped
  <2> QED BY <2>1, <2>2 DEF EnqueueVerifyTask, Enqueued
<1> QED BY <1>2, <1>3, <1>4, Assembled, Disassembled DEF EnqueueVerifyTask

LEMMA WorkerStepTyped ==
  ASSUME TypeInv, NEW n \in Replicas, WorkerStep(n)
  PROVE  TypeInv'
<1> n \in Actors
  BY DEF Actors
<1>w. worker[n] \in Worker /\ WorkerAtWork(worker[n])
  BY DEF TypeInv, TypeOK, AtWork
<1>1. ASSUME DrainNext(n)
      PROVE  TypeInv'
  <2> DEFINE w == [worker[n] EXCEPT !.pc = "load", !.ex = Head(queue[n])]
  <2>1. queue[n] \in Seq(Exchanges) /\ queue[n] # <<>>
    BY <1>1, Disassembled DEF DrainNext
  <2>2. Head(queue[n]) \in Exchanges /\ Tail(queue[n]) \in Seq(Exchanges)
    BY <2>1
  <2>3. w \in Worker /\ WorkerAtWork(w)
    BY <1>w, <2>2 DEF Worker, WorkerPc, WorkerAtWork
  <2>4. WorkersTyped'
    BY <1>1, <2>3, WorkerTyped DEF DrainNext
  <2>5. queue' \in [Replicas -> Seq(Exchanges)]
    BY <1>1, <2>2, Disassembled DEF DrainNext
  <2> QED BY <1>1, <2>4, <2>5, TurnTyped, Assembled, Disassembled DEF DrainNext, HandlersTyped
<1>2. ASSUME DrainStop(n)
      PROVE  TypeInv'
  BY <1>2, RestingWorkerTyped, WorkerTyped, TurnTyped, Assembled, Disassembled
     DEF DrainStop, HandlersTyped
<1>3. ASSUME WorkerLoad(n)
      PROVE  TypeInv'
  <2> DEFINE w == [worker[n] EXCEPT !.pc = "mark", !.snap = store[worker[n].ex]]
  <2>1. store[worker[n].ex] \in Exchange
    BY <1>w, <1>3, Disassembled DEF WorkerLoad, WorkerAtWork
  <2>2. w \in Worker /\ WorkerAtWork(w)
    BY <1>w, <1>3, <2>1 DEF Worker, WorkerPc, WorkerAtWork, WorkerLoad
  <2>3. WorkersTyped'
    BY <1>3, <2>2, RestingWorkerTyped, WorkerTyped DEF WorkerLoad
  <2> QED BY <1>3, <2>3, TurnTyped, Assembled, Disassembled DEF WorkerLoad, HandlersTyped
<1>v. ASSUME worker[n].pc \in {"mark", "markSet"}
      PROVE  Verifying(worker[n]) \in Worker /\ WorkerAtWork(Verifying(worker[n]))
  <2>1. worker[n].snap.results \in Results /\ worker[n].snap.task.badges \in SUBSET Credentials
    BY <1>w DEF Worker, Exchange, Task
  <2> QED BY <1>w, <1>v, <2>1, ConstantsTyped DEF Verifying, Worker, WorkerPc, WorkerAtWork
<1>4. ASSUME WorkerMarkGet(n)
      PROVE  TypeInv'
  <2> DEFINE x == WithVerifyTask(store[worker[n].ex], MarkRunning(worker[n].snap.task))
             w == [worker[n] EXCEPT !.pc = "markSet", !.next = x]
  <2>1. x \in Exchange
    <3>1. store[worker[n].ex] \in Exchange
      BY <1>w, <1>4, Disassembled DEF WorkerMarkGet, WorkerAtWork
    <3>2. MarkRunning(worker[n].snap.task) \in Task
      BY <1>w, TasksTyped DEF Worker, Exchange
    <3> QED BY <3>1, <3>2, ExchangesTyped
  <2>2. w \in Worker /\ WorkerAtWork(w)
    BY <1>w, <1>4, <2>1 DEF Worker, WorkerPc, WorkerAtWork, WorkerMarkGet
  <2>3. WorkersTyped'
    BY <1>4, <1>v, <2>2, WorkerTyped DEF WorkerMarkGet
  <2> QED BY <1>4, <2>3, TurnTyped, Assembled, Disassembled DEF WorkerMarkGet, HandlersTyped
<1>5. ASSUME WorkerMarkSet(n)
      PROVE  TypeInv'
  <2>1. store' \in [Exchanges -> Exchange]
    BY <1>w, <1>5, StoreTyped DEF WorkerMarkSet, Worker
  <2>2. WorkersTyped'
    BY <1>5, <1>v, WorkerTyped DEF WorkerMarkSet
  <2> QED BY <1>5, <2>1, <2>2, TurnTyped, Assembled, Disassembled DEF WorkerMarkSet, HandlersTyped
<1>6. ASSUME WorkerVerify(n)
      PROVE  TypeInv'
  <2>1. PICK i \in worker[n].todo :
          \/ \E v \in BOOLEAN : worker' = [worker EXCEPT ![n] =
               [worker[n] EXCEPT !.todo = @ \ {i},
                  !.merged = MergeOpenBadgesResultsAt(worker[n].merged, i, v)]]
          \/ worker' = [worker EXCEPT ![n] = [worker[n] EXCEPT !.pc = "failing"]]
    BY <1>6 DEF WorkerVerify
  <2>2. i \in Credentials /\ worker[n].merged \in Results
    BY <1>w DEF Worker
  <2>3. ASSUME NEW v \in BOOLEAN
        PROVE  LET w == [worker[n] EXCEPT !.todo = @ \ {i},
                           !.merged = MergeOpenBadgesResultsAt(worker[n].merged, i, v)]
               IN w \in Worker /\ WorkerAtWork(w)
    BY <1>w, <2>2, ResultsTyped DEF Worker, WorkerAtWork
  <2>4. [worker[n] EXCEPT !.pc = "failing"] \in Worker
        /\ WorkerAtWork([worker[n] EXCEPT !.pc = "failing"])
    BY <1>w, <1>6 DEF Worker, WorkerPc, WorkerAtWork, WorkerVerify
  <2>5. WorkersTyped'
    BY <2>1, <2>3, <2>4, WorkerTyped
  <2> QED BY <1>6, <2>5, TurnTyped, Assembled, Disassembled DEF WorkerVerify, HandlersTyped
<1>7. ASSUME WorkerCommitGet(n)
      PROVE  TypeInv'
  <2>1. store[worker[n].ex] \in Exchange /\ worker[n].ex \in Exchanges
    BY <1>w, <1>7, Disassembled DEF WorkerCommitGet, WorkerAtWork
  <2>2. /\ WithVerifyTask(store[worker[n].ex], MarkFailed(worker[n].snap.task)) \in Exchange
        /\ Settled(worker[n].snap, worker[n].merged) \in Exchange
    BY <1>w, <2>1, TasksTyped, ExchangesTyped DEF Worker, Exchange
  <2>3. PICK x \in Exchange :
          \/ worker' = [worker EXCEPT ![n] = RestingWorker("drain")]
          \/ worker' = [worker EXCEPT ![n] =
               [worker[n] EXCEPT !.pc = "commitSet", !.next = x]]
    BY <1>7, <2>2 DEF WorkerCommitGet
  <2>4. [worker[n] EXCEPT !.pc = "commitSet", !.next = x] \in Worker
        /\ WorkerAtWork([worker[n] EXCEPT !.pc = "commitSet", !.next = x])
    BY <1>w, <2>1 DEF Worker, WorkerPc, WorkerAtWork
  <2>5. WorkersTyped'
    BY <2>3, <2>4, RestingWorkerTyped, WorkerTyped
  <2> QED BY <1>7, <2>5, TurnTyped, Assembled, Disassembled DEF WorkerCommitGet, HandlersTyped
<1>8. ASSUME WorkerCommitSet(n)
      PROVE  TypeInv'
  <2>1. store' \in [Exchanges -> Exchange]
    BY <1>w, <1>8, StoreTyped DEF WorkerCommitSet, Worker
  <2>2. WorkersTyped'
    BY <1>8, RestingWorkerTyped, WorkerTyped DEF WorkerCommitSet
  <2> QED BY <1>8, <2>1, <2>2, TurnTyped, Assembled, Disassembled DEF WorkerCommitSet, HandlersTyped
<1> QED BY <1>1, <1>2, <1>3, <1>4, <1>5, <1>6, <1>7, <1>8 DEF WorkerStep

LEMMA EnvironmentTyped ==
  ASSUME TypeInv,
         \/ \E e \in Exchanges : CreateExchange(e) \/ DeadlineLapses(e) \/ Expire(e)
         \/ \E h \in Handlers : HandlerStoreFault(h)
         \/ \E n \in Replicas : WorkerStoreFault(n) \/ Crash(n)
  PROVE  TypeInv'
<1>1. ASSUME NEW e \in Exchanges, CreateExchange(e) \/ Expire(e)
      PROVE  TypeInv'
  <2>1. store' \in [Exchanges -> Exchange]
    BY <1>1, ConstantsTyped, StoreTyped, Disassembled DEF CreateExchange, Expire
  <2> QED
    BY <1>1, <2>1, Assembled, Disassembled
       DEF CreateExchange, Expire, HandlersTyped, WorkersTyped
<1>2. ASSUME NEW e \in Exchanges, DeadlineLapses(e)
      PROVE  TypeInv'
  <2>1. lapsed' \subseteq AttemptIds
    BY <1>2, Disassembled DEF DeadlineLapses
  <2> QED BY <1>2, <2>1, Assembled, Disassembled DEF DeadlineLapses, HandlersTyped, WorkersTyped
<1>3. ASSUME faults < MaxFaults, faults' = faults + 1
      PROVE  faults' \in 0..MaxFaults
  BY <1>3, BoundsAssumption, Disassembled
<1>4. ASSUME NEW h \in Handlers, HandlerStoreFault(h)
      PROVE  TypeInv'
  <2>1. store' \in [Exchanges -> Exchange]
    BY <1>4, StoreTyped, Disassembled DEF HandlerStoreFault, HandlersTyped, Handler
  <2> QED
    BY <1>3, <1>4, <2>1, FinishTyped, TurnTyped, Assembled, Disassembled
       DEF HandlerStoreFault, Actors, WorkersTyped
<1>5. ASSUME NEW n \in Replicas, WorkerStoreFault(n)
      PROVE  TypeInv'
  <2>1. store' \in [Exchanges -> Exchange]
    BY <1>5, StoreTyped, Disassembled DEF WorkerStoreFault, WorkersTyped, Worker
  <2>2. WorkersTyped'
    BY <1>5, RestingWorkerTyped, WorkerTyped DEF WorkerStoreFault
  <2> QED
    BY <1>3, <1>5, <2>1, <2>2, TurnTyped, Assembled, Disassembled
       DEF WorkerStoreFault, Actors, HandlersTyped
<1>6. ASSUME NEW n \in Replicas, Crash(n)
      PROVE  TypeInv'
  <2>1. WorkersTyped'
    BY <1>6, RestingWorkerTyped, WorkerTyped DEF Crash
  <2>2. HandlersTyped'
    <3>1. ASSUME NEW pc \in {"idle", "failed"}
          PROVE  RestingHandler(pc) \in Handler /\ HandlerAtWork(RestingHandler(pc))
      BY RestingTyped DEF HandlerPc, HandlerAtWork, RestingHandler
    <3> QED BY <1>6, <3>1, Disassembled DEF Crash, HandlersTyped
  <2>3. turn' \in [Replicas -> Actors \cup {None}]
    BY <1>6, Disassembled DEF Crash, Yield
  <2>4. queue' \in [Replicas -> Seq(Exchanges)] /\ running' \in [Replicas -> BOOLEAN]
    BY <1>6, Disassembled DEF Crash
  <2> QED BY <1>3, <1>6, <2>1, <2>2, <2>3, <2>4, Assembled, Disassembled DEF Crash
<1> QED BY <1>1, <1>2, <1>4, <1>5, <1>6

LEMMA NextTyped == TypeInv /\ [Next]_vars => TypeInv'
<1>1. ASSUME TypeInv, Next
      PROVE  TypeInv'
  BY <1>1, RequestTyped, SweepTyped, EnqueueTyped, WorkerStepTyped, EnvironmentTyped DEF Next
<1>2. ASSUME TypeInv, UNCHANGED vars
      PROVE  TypeInv'
  BY <1>2, Assembled, Disassembled DEF vars, HandlersTyped, WorkersTyped
<1> QED BY <1>1, <1>2

(* Every behaviour keeps every variable in its type: no attempt number goes  *)
(* past verifyTaskMaxAttempts (bumpAttempt, sweepIfTimedOut), and no actor   *)
(* reads or writes an exchange that is not one.                              *)
THEOREM TypeCorrect == Spec => []TypeOK
<1>1. Spec => []TypeInv
  BY InitTyped, NextTyped, PTL DEF Spec
<1>2. TypeInv => TypeOK
  BY DEF TypeInv
<1> QED BY <1>1, <1>2, PTL

-----------------------------------------------------------------------------
(* Coherence of every stored and every carried exchange *)

LEMMA ConstantsCoherent ==
  Coherent(Nothing) /\ Coherent(NewExchange) /\ Coherent(NotStored("expired"))
BY DEF Coherent, Nothing, NewExchange, NotStored, NoTask, NoResults

LEMMA HandlerWritesCoherent ==
  ASSUME NEW x \in Exchange, Coherent(x)
  PROVE  /\ x.state = "pending" => Coherent([x EXCEPT !.state = "active"])
         /\ \A p \in Presentations, v \in BOOLEAN : p.badges = {} =>
              Coherent(ApplyVerificationResults(x, SyncResults(p, v)))
         /\ \A p \in Presentations, v \in BOOLEAN, id \in AttemptIds :
              Coherent(WithSyncResultsAndQueuedVerifyTask(x, SyncResults(p, v), id))
         /\ \A id \in AttemptIds : Pending(x) => Coherent(Bumped(x, id))
         /\ Coherent(GivenUp(x))
         /\ \A g \in AuthRequests : Coherent(EnsureOid4vpState(x, g))
         /\ Coherent(ConsumeOid4vpResponse(x))
<1>1. x.state = "pending" => Coherent([x EXCEPT !.state = "active"])
  BY DEF Coherent, Exchange
<1>2. ASSUME NEW p \in Presentations, NEW v \in BOOLEAN, p.badges = {}
      PROVE  Coherent(ApplyVerificationResults(x, SyncResults(p, v)))
  BY <1>2, PresentationsAssumption
     DEF Coherent, ApplyVerificationResults, SyncResults, NoResults, Outcome, Exchange
<1>3. ASSUME NEW p \in Presentations, NEW v \in BOOLEAN, NEW id \in AttemptIds
      PROVE  Coherent(WithSyncResultsAndQueuedVerifyTask(x, SyncResults(p, v), id))
  BY NoneAssumption, PresentationsAssumption, BadgesAssumption
     DEF Coherent, WithSyncResultsAndQueuedVerifyTask, ApplyVerificationResults,
         NewVerifyTask, SyncResults, NoResults, Exchange
<1>4. ASSUME NEW id \in AttemptIds, Pending(x)
      PROVE  Coherent(Bumped(x, id))
  BY <1>4, NoneAssumption
     DEF Coherent, Bumped, BumpAttempt, WithVerifyTask, Pending, Exchange, Task
<1>5. Coherent(GivenUp(x))
  BY DEF Coherent, GivenUp, MarkGaveUp, AppendTimeout, Exchange, Task, Results
<1>6. /\ \A g \in AuthRequests : Coherent(EnsureOid4vpState(x, g))
      /\ Coherent(ConsumeOid4vpResponse(x))
  BY DEF Coherent, EnsureOid4vpState, ConsumeOid4vpResponse, Exchange
<1> QED BY <1>1, <1>2, <1>3, <1>4, <1>5, <1>6

LEMMA WorkerWritesCoherent ==
  /\ \A x, y \in Exchange :
       /\ Coherent(x) /\ SameTask(x, y) /\ x.task.attemptId = y.task.attemptId
       => /\ Coherent(WithVerifyTask(x, MarkRunning(y.task)))
          /\ Coherent(WithVerifyTask(x, MarkFailed(y.task)))
  /\ \A x \in Exchange, w \in Worker :
       Coherent(x) /\ w.pc = "verify" /\ w.todo = {} /\ PassUnderWay(w)
       => Coherent(Settled(x, w.merged))
<1>1. ASSUME NEW x \in Exchange, NEW y \in Exchange, Coherent(x), SameTask(x, y),
             x.task.attemptId = y.task.attemptId
      PROVE  /\ Coherent(WithVerifyTask(x, MarkRunning(y.task)))
             /\ Coherent(WithVerifyTask(x, MarkFailed(y.task)))
  BY <1>1 DEF Coherent, SameTask, WithVerifyTask, MarkRunning, MarkFailed, Exchange, Task
<1>2. ASSUME NEW x \in Exchange, NEW w \in Worker,
             Coherent(x), w.pc = "verify", w.todo = {}, PassUnderWay(w)
      PROVE  Coherent(Settled(x, w.merged))
  BY <1>2 DEF Coherent, PassUnderWay, Settled, MarkSucceeded, Outcome, Exchange, Task,
              Results, Worker
<1> QED BY <1>1, <1>2

(* What an assignment adds to the records.                                   *)
LEMMA RecordsOfStore ==
  ASSUME TypeInv, NEW e, NEW x, Put(e, x)
  PROVE  StoreRecords' \subseteq StoreRecords \cup {x}
BY DEF TypeInv, TypeOK, Put, StoreRecords

LEMMA RecordsOfHandler ==
  ASSUME TypeInv, NEW h, NEW y, handler' = [handler EXCEPT ![h] = y]
  PROVE  HandlerRecords' \subseteq HandlerRecords \cup {y.snap, y.next}
BY DEF TypeInv, TypeOK, HandlerRecords

LEMMA RecordsOfFinish ==
  ASSUME TypeInv, NEW h, Finish(h) \/ Fail(h)
  PROVE  HandlerRecords' \subseteq HandlerRecords \cup {Nothing}
<1>1. PICK y \in {Answered(h), RestingHandler("failed"), RestingHandler("idle")} :
        handler' = [handler EXCEPT ![h] = y]
  BY DEF Finish, Fail, Over
<1>2. y.snap = Nothing /\ y.next = Nothing
  BY <1>1 DEF Answered, RestingHandler
<1>3. HandlerRecords' \subseteq HandlerRecords \cup {y.snap, y.next}
  BY <1>1, RecordsOfHandler
<1> QED BY <1>2, <1>3

LEMMA RecordsOfWorker ==
  ASSUME TypeInv, NEW n, NEW w, worker' = [worker EXCEPT ![n] = w]
  PROVE  WorkerRecords' \subseteq WorkerRecords \cup {w.snap, w.next}
BY DEF TypeInv, TypeOK, WorkerRecords

LEMMA RecordsUnchanged ==
  /\ store' = store => StoreRecords' = StoreRecords
  /\ handler' = handler => HandlerRecords' = HandlerRecords
  /\ worker' = worker => WorkerRecords' = WorkerRecords
BY DEF StoreRecords, HandlerRecords, WorkerRecords

LEMMA RecordsTyped ==
  ASSUME TypeInv
  PROVE  /\ Records \subseteq Exchange
         /\ \A e \in Exchanges : store[e] \in Records
         /\ \A h \in Handlers : handler[h].snap \in Records /\ handler[h].next \in Records
         /\ \A n \in Replicas : worker[n].snap \in Records /\ worker[n].next \in Records
BY DEF TypeInv, TypeOK, Records, StoreRecords, HandlerRecords, WorkerRecords,
       Handler, Worker

(* A step that adds one coherent record which agrees with those there.       *)
LEMMA OneMoreRecord ==
  ASSUME RecordsCoherent, NEW x, Coherent(x), \A y \in Records : SameTask(x, y),
         Records' \subseteq Records \cup {x, Nothing},
         \A n \in Replicas : PassUnderWay(worker'[n])
  PROVE  RecordsCoherent'
<1>1. Coherent(Nothing) /\ Nothing.task.attemptId = None /\ Nothing.task.badges = {}
      /\ Nothing.task.attempt = 0
  BY ConstantsCoherent DEF Nothing, NotStored, NoTask
<1>2. \A y \in Records \cup {x, Nothing} : Coherent(y)
  BY <1>1 DEF RecordsCoherent
<1>3. \A y \in Records \cup {x, Nothing} :
        y.task.attemptId = None => y.task.badges = {} /\ y.task.attempt = 0
  BY <1>2 DEF Coherent
<1>4. \A y, z \in Records \cup {x, Nothing} : SameTask(y, z)
  BY <1>1, <1>3 DEF RecordsCoherent, SameTask
<1> QED BY <1>2, <1>4 DEF RecordsCoherent

LEMMA PassesKept ==
  ASSUME TypeInv, RecordsCoherent, NEW n, NEW w, PassUnderWay(w),
         worker' = worker \/ worker' = [worker EXCEPT ![n] = w]
  PROVE  \A k \in Replicas : PassUnderWay(worker'[k])
BY DEF TypeInv, TypeOK, RecordsCoherent

LEMMA RestingWorkerCoherent ==
  ASSUME NEW pc \in {"off", "drain"}
  PROVE  /\ PassUnderWay(RestingWorker(pc))
         /\ RestingWorker(pc).snap = Nothing /\ RestingWorker(pc).next = Nothing
BY DEF PassUnderWay, RestingWorker

LEMMA InitCoherent == Init => RecordsCoherent
<1> SUFFICES ASSUME Init PROVE RecordsCoherent
  OBVIOUS
<1>1. Records \subseteq {Nothing}
  BY DEF Init, Records, StoreRecords, HandlerRecords, WorkerRecords, Nothing,
         RestingHandler, RestingWorker
<1>2. \A n \in Replicas : PassUnderWay(worker[n])
  BY RestingWorkerCoherent DEF Init
<1> QED BY <1>1, <1>2, ConstantsCoherent DEF RecordsCoherent, SameTask

LEMMA NoNewRecord ==
  ASSUME RecordsCoherent, Records' \subseteq Records \cup {Nothing},
         \A n \in Replicas : PassUnderWay(worker'[n])
  PROVE  RecordsCoherent'
<1>1. Coherent(Nothing) /\ Nothing.task.attemptId = None /\ Nothing.task.badges = {}
      /\ Nothing.task.attempt = 0
  BY ConstantsCoherent DEF Nothing, NotStored, NoTask
<1>2. \A y \in Records : SameTask(Nothing, y)
  BY <1>1 DEF RecordsCoherent, Coherent, SameTask
<1> QED BY <1>1, <1>2, OneMoreRecord

LEMMA RequestCoherent ==
  ASSUME TypeInv, RecordsCoherent, NEW r \in Requests, RequestStep(r)
  PROVE  RecordsCoherent'
<1> r \in Handlers
  BY DEF Handlers
<1>p. worker' = worker => \A n \in Replicas : PassUnderWay(worker'[n])
  BY DEF RecordsCoherent
<1>1. ASSUME NEW n \in Replicas, NEW e \in Exchanges, PostEmpty(r, n, e)
      PROVE  RecordsCoherent'
  <2> DEFINE x == [store[e] EXCEPT !.state = "active"]
  <2>1. Records' \subseteq Records \cup {x, Nothing}
    <3>1. HandlerRecords' \subseteq HandlerRecords \cup {store[e], x}
      <4> DEFINE y == [pc |-> "save", at |-> n, ex |-> e, snap |-> store[e], next |-> x]
      <4>1. HandlerRecords' \subseteq HandlerRecords \cup {y.snap, y.next}
        BY <1>1, RecordsOfHandler DEF PostEmpty
      <4> QED BY <4>1
    <3> QED BY <1>1, <3>1, RecordsUnchanged, RecordsTyped DEF PostEmpty, Records
  <2>2. store[e] \in Exchange /\ store[e] \in Records /\ Coherent(store[e])
    BY RecordsTyped DEF RecordsCoherent
  <2>3. Coherent(x)
    BY <1>1, <2>2, HandlerWritesCoherent DEF PostEmpty
  <2>4. x.task = store[e].task
    BY <2>2 DEF Exchange
  <2>5. \A y \in Records : SameTask(x, y)
    BY <2>2, <2>4 DEF RecordsCoherent, SameTask
  <2> QED BY <1>1, <1>p, <2>1, <2>3, <2>5, OneMoreRecord DEF PostEmpty
<1>2. ASSUME NEW n \in Replicas, NEW e \in Exchanges,
             PostPresentation(r, n, e) \/ PostDirectPost(r, n, e)
      PROVE  RecordsCoherent'
  <2>1. Records' \subseteq Records \cup {Nothing}
    <3>1. HandlerRecords' \subseteq HandlerRecords \cup {store[e], Nothing}
      <4>1. PICK pc \in {"verify", "body"} : handler' = [handler EXCEPT ![r] =
              [pc |-> pc, at |-> n, ex |-> e, snap |-> store[e], next |-> Nothing]]
        BY <1>2 DEF PostPresentation, PostDirectPost
      <4> DEFINE y == [pc |-> pc, at |-> n, ex |-> e, snap |-> store[e], next |-> Nothing]
      <4>2. HandlerRecords' \subseteq HandlerRecords \cup {y.snap, y.next}
        BY <4>1, RecordsOfHandler
      <4> QED BY <4>2
    <3> QED
      BY <1>2, <3>1, RecordsUnchanged, RecordsTyped
         DEF PostPresentation, PostDirectPost, Records
  <2> QED BY <1>2, <1>p, <2>1, NoNewRecord DEF PostPresentation, PostDirectPost
<1>3. ASSUME PresentationVerified(r)
      PROVE  RecordsCoherent'
  <2> DEFINE s == handler[r].snap
  <2>1. s \in Exchange /\ s \in Records /\ Coherent(s)
    BY RecordsTyped DEF RecordsCoherent
  <2>2. ASSUME NEW x, handler' = [handler EXCEPT ![r] = [@ EXCEPT !.pc = "save", !.next = x]]
        PROVE  Records' \subseteq Records \cup {x, Nothing}
    <3> DEFINE y == [handler[r] EXCEPT !.pc = "save", !.next = x]
    <3>1. y.snap = s /\ y.next = x
      BY DEF TypeInv, TypeOK, Handler
    <3>2. HandlerRecords' \subseteq HandlerRecords \cup {y.snap, y.next}
      BY <2>2, RecordsOfHandler
    <3> QED BY <1>3, <2>1, <3>1, <3>2, RecordsUnchanged DEF PresentationVerified, Records
  <2>3. PICK p \in Presentations, v \in BOOLEAN :
          \/ /\ p.badges = {}
             /\ handler' = [handler EXCEPT ![r] = [@ EXCEPT !.pc = "save",
                  !.next = ApplyVerificationResults(s, SyncResults(p, v))]]
          \/ /\ FreshIds # {}
             /\ handler' = [handler EXCEPT ![r] = [@ EXCEPT !.pc = "save",
                  !.next = WithSyncResultsAndQueuedVerifyTask(s, SyncResults(p, v), FreshId)]]
    BY <1>3 DEF PresentationVerified
  <2>4. CASE /\ p.badges = {}
             /\ handler' = [handler EXCEPT ![r] = [@ EXCEPT !.pc = "save",
                  !.next = ApplyVerificationResults(s, SyncResults(p, v))]]
    <3> DEFINE x == ApplyVerificationResults(s, SyncResults(p, v))
    <3>1. Coherent(x)
      BY <2>1, <2>4, HandlerWritesCoherent
    <3>2. x.task = s.task
      BY <2>1 DEF ApplyVerificationResults, Exchange
    <3>3. \A y \in Records : SameTask(x, y)
      BY <2>1, <3>2 DEF RecordsCoherent, SameTask
    <3>4. Records' \subseteq Records \cup {x, Nothing}
      BY <2>2, <2>4
    <3> QED BY <1>3, <1>p, <3>1, <3>3, <3>4, OneMoreRecord DEF PresentationVerified
  <2>5. CASE /\ FreshIds # {}
             /\ handler' = [handler EXCEPT ![r] = [@ EXCEPT !.pc = "save",
                  !.next = WithSyncResultsAndQueuedVerifyTask(s, SyncResults(p, v), FreshId)]]
    <3> DEFINE x == WithSyncResultsAndQueuedVerifyTask(s, SyncResults(p, v), FreshId)
    <3>1. Coherent(x)
      BY <2>1, <2>5, HandlerWritesCoherent, FreshIdTyped
    <3>2. x.task.attemptId = FreshId
      BY <2>1 DEF WithSyncResultsAndQueuedVerifyTask, ApplyVerificationResults,
                  NewVerifyTask, Exchange
    <3>3. \A y \in Records : SameTask(x, y)
      BY <2>5, <3>2, FreshIdTyped DEF SameTask
    <3>4. Records' \subseteq Records \cup {x, Nothing}
      BY <2>2, <2>5
    <3> QED BY <1>3, <1>p, <3>1, <3>3, <3>4, OneMoreRecord DEF PresentationVerified
  <2> QED BY <2>3, <2>4, <2>5
<1>4. ASSUME PresentationRejected(r)
      PROVE  RecordsCoherent'
  <2>1. Records' \subseteq Records \cup {Nothing}
    BY <1>4, RecordsOfFinish, RecordsUnchanged DEF PresentationRejected, Records
  <2> QED BY <1>4, <1>p, <2>1, NoNewRecord DEF PresentationRejected
<1>5. ASSUME SaveExchange(r)
      PROVE  RecordsCoherent'
  <2>1. StoreRecords' \subseteq Records
    BY <1>5, RecordsOfStore, RecordsTyped DEF SaveExchange, Records
  <2>2. HandlerRecords' \subseteq Records \cup {Nothing}
    <3> DEFINE y == [handler[r] EXCEPT !.pc = "enqueue"]
    <3>1. y.snap \in Records /\ y.next \in Records
      BY RecordsTyped DEF TypeInv, TypeOK, Handler
    <3>2. CASE handler' = [handler EXCEPT ![r] = y]
      BY <3>1, <3>2, RecordsOfHandler DEF Records
    <3> QED BY <1>5, <3>2, RecordsOfFinish DEF SaveExchange, Records
  <2> QED
    BY <1>5, <1>p, <2>1, <2>2, RecordsUnchanged, NoNewRecord DEF SaveExchange, Records
<1>6. ASSUME NEW n \in Replicas, NEW e \in Exchanges, r \in AuthRequests,
             GetAuthorizationRequest(r, n, e)
      PROVE  RecordsCoherent'
  <2> DEFINE s == store[e]
             x == EnsureOid4vpState(s, r)
             y == [pc |-> "save", at |-> n, ex |-> e, snap |-> s, next |-> x]
             z == [RestingHandler("done") EXCEPT !.ex = e]
  <2>1. s \in Exchange /\ s \in Records /\ Coherent(s)
    BY RecordsTyped DEF RecordsCoherent
  <2>2. Coherent(x) /\ x.task = s.task
    BY <1>6, <2>1, HandlerWritesCoherent DEF EnsureOid4vpState, Exchange
  <2>3. \A t \in Records : SameTask(x, t)
    BY <2>1, <2>2 DEF RecordsCoherent, SameTask
  <2>4. HandlerRecords' \subseteq HandlerRecords \cup {s, x, Nothing}
    <3>1. y.snap = s /\ y.next = x /\ z.snap = Nothing /\ z.next = Nothing
      BY DEF RestingHandler
    <3>2. handler' = [handler EXCEPT ![r] = y] \/ handler' = [handler EXCEPT ![r] = z]
      BY <1>6 DEF GetAuthorizationRequest
    <3> HIDE DEF y, z
    <3> QED BY <3>1, <3>2, RecordsOfHandler
  <2>5. Records' \subseteq Records \cup {x, Nothing}
    BY <1>6, <2>1, <2>4, RecordsUnchanged DEF GetAuthorizationRequest, Records
  <2> HIDE DEF x
  <2> QED BY <1>6, <1>p, <2>2, <2>3, <2>5, OneMoreRecord DEF GetAuthorizationRequest
<1>7. ASSUME HandleOid4vpResponse(r)
      PROVE  RecordsCoherent'
  <2> DEFINE s == handler[r].snap
             x == ConsumeOid4vpResponse(s)
             y == [handler[r] EXCEPT !.pc = "verify", !.snap = x]
  <2>1. s \in Exchange /\ s \in Records /\ Coherent(s) /\ handler[r].next \in Records
    BY RecordsTyped DEF RecordsCoherent
  <2>2. Coherent(x) /\ x.task = s.task
    BY <2>1, HandlerWritesCoherent DEF ConsumeOid4vpResponse, Exchange
  <2>3. \A t \in Records : SameTask(x, t)
    BY <2>1, <2>2 DEF RecordsCoherent, SameTask
  <2>4. HandlerRecords' \subseteq Records \cup {x, Nothing}
    <3>1. y.snap = x /\ y.next = handler[r].next
      BY DEF TypeInv, TypeOK, Handler
    <3>2. handler' = [handler EXCEPT ![r] = y] \/ Fail(r)
      BY <1>7 DEF HandleOid4vpResponse
    <3> HIDE DEF y
    <3> QED BY <2>1, <3>1, <3>2, RecordsOfHandler, RecordsOfFinish DEF Records
  <2>5. Records' \subseteq Records \cup {x, Nothing}
    BY <1>7, <2>4, RecordsUnchanged DEF HandleOid4vpResponse, Records
  <2> HIDE DEF x
  <2> QED BY <1>7, <1>p, <2>2, <2>3, <2>5, OneMoreRecord DEF HandleOid4vpResponse
<1> QED BY <1>1, <1>2, <1>3, <1>4, <1>5, <1>6, <1>7 DEF RequestStep, Post

LEMMA SweepCoherent ==
  ASSUME TypeInv, RecordsCoherent, NEW p \in Pollers,
         \/ \E n \in Replicas, e \in Exchanges : SweepRead(p, n, e)
         \/ PollerStep(p)
  PROVE  RecordsCoherent'
<1> p \in Handlers
  BY DEF Handlers
<1>p. worker' = worker => \A n \in Replicas : PassUnderWay(worker'[n])
  BY DEF RecordsCoherent
<1>1. ASSUME NEW n \in Replicas, NEW e \in Exchanges, SweepRead(p, n, e)
      PROVE  RecordsCoherent'
  <2> DEFINE s == store[e]
  <2>1. s \in Exchange /\ s \in Records /\ Coherent(s) /\ Pending(s)
    BY <1>1, RecordsTyped DEF RecordsCoherent, SweepRead
  <2>2. ASSUME NEW x, handler' = [handler EXCEPT ![p] =
                 [pc |-> "casGet", at |-> n, ex |-> e, snap |-> s, next |-> x]]
        PROVE  Records' \subseteq Records \cup {x, Nothing}
    <3> DEFINE y == [pc |-> "casGet", at |-> n, ex |-> e, snap |-> s, next |-> x]
    <3>1. HandlerRecords' \subseteq HandlerRecords \cup {y.snap, y.next}
      BY <2>2, RecordsOfHandler
    <3> QED BY <1>1, <2>1, <3>1, RecordsUnchanged DEF SweepRead, Records
  <2>3. CASE /\ FreshIds # {}
             /\ handler' = [handler EXCEPT ![p] = [pc |-> "casGet", at |-> n, ex |-> e,
                              snap |-> s, next |-> Bumped(s, FreshId)]]
    <3> DEFINE x == Bumped(s, FreshId)
    <3>1. Coherent(x)
      BY <2>1, <2>3, HandlerWritesCoherent, FreshIdTyped
    <3>2. x.task.attemptId = FreshId
      BY <2>1 DEF Bumped, BumpAttempt, WithVerifyTask, Exchange, Task
    <3>3. \A y \in Records : SameTask(x, y)
      BY <2>3, <3>2, FreshIdTyped DEF SameTask
    <3>4. Records' \subseteq Records \cup {x, Nothing}
      BY <2>2, <2>3
    <3> QED BY <1>1, <1>p, <3>1, <3>3, <3>4, OneMoreRecord DEF SweepRead
  <2>4. CASE handler' = [handler EXCEPT ![p] = [pc |-> "casGet", at |-> n, ex |-> e,
                           snap |-> s, next |-> GivenUp(s)]]
    <3> DEFINE x == GivenUp(s)
    <3>1. Coherent(x)
      BY <2>1, HandlerWritesCoherent
    <3>2. /\ x.task.attemptId = s.task.attemptId /\ x.task.badges = s.task.badges
          /\ x.task.attempt = s.task.attempt
      BY <2>1 DEF GivenUp, MarkGaveUp, Exchange, Task
    <3>3. \A y \in Records : SameTask(x, y)
      BY <2>1, <3>2 DEF RecordsCoherent, SameTask
    <3>4. Records' \subseteq Records \cup {x, Nothing}
      BY <2>2, <2>4
    <3> QED BY <1>1, <1>p, <3>1, <3>3, <3>4, OneMoreRecord DEF SweepRead
  <2> QED BY <1>1, <2>3, <2>4 DEF SweepRead
<1>h. ASSUME NEW pc, handler' = [handler EXCEPT ![p] = [handler[p] EXCEPT !.pc = pc]] \/ Finish(p)
      PROVE  HandlerRecords' \subseteq Records \cup {Nothing}
  <2> DEFINE y == [handler[p] EXCEPT !.pc = pc]
  <2>1. y.snap \in Records /\ y.next \in Records
    BY RecordsTyped DEF TypeInv, TypeOK, Handler
  <2>2. CASE handler' = [handler EXCEPT ![p] = y]
    BY <2>1, <2>2, RecordsOfHandler DEF Records
  <2> QED BY <1>h, <2>2, RecordsOfFinish DEF Records
<1>2. ASSUME SweepCasGet(p)
      PROVE  RecordsCoherent'
  <2>1. HandlerRecords' \subseteq Records \cup {Nothing}
    BY <1>2, <1>h DEF SweepCasGet
  <2> QED BY <1>2, <1>p, <2>1, RecordsUnchanged, NoNewRecord DEF SweepCasGet, Records
<1>3. ASSUME SweepCasSet(p)
      PROVE  RecordsCoherent'
  <2>1. HandlerRecords' \subseteq Records \cup {Nothing}
    BY <1>3, <1>h DEF SweepCasSet
  <2>2. StoreRecords' \subseteq Records
    BY <1>3, RecordsOfStore, RecordsTyped DEF SweepCasSet, Records
  <2> QED BY <1>3, <1>p, <2>1, <2>2, RecordsUnchanged, NoNewRecord DEF SweepCasSet, Records
<1> QED BY <1>1, <1>2, <1>3 DEF PollerStep

LEMMA EnqueueCoherent ==
  ASSUME TypeInv, RecordsCoherent, NEW h \in Handlers, EnqueueVerifyTask(h)
  PROVE  RecordsCoherent'
<1> DEFINE w == RestingWorker("drain")
<1>1. worker' = worker \/ worker' = [worker EXCEPT ![handler[h].at] = w]
  BY DEF EnqueueVerifyTask, Enqueued
<1>2. HandlerRecords' \subseteq Records \cup {Nothing}
  BY RecordsOfFinish DEF EnqueueVerifyTask, Records
<1>3. WorkerRecords' \subseteq Records \cup {Nothing}
  BY <1>1, RestingWorkerCoherent, RecordsOfWorker, RecordsUnchanged DEF Records
<1>4. \A k \in Replicas : PassUnderWay(worker'[k])
  BY <1>1, RestingWorkerCoherent, PassesKept
<1> QED
  BY <1>2, <1>3, <1>4, RecordsUnchanged, NoNewRecord DEF EnqueueVerifyTask, Records

(* A worker step whose new worker state carries x and nothing else new.      *)
LEMMA WorkerStepCoherent ==
  ASSUME TypeInv, RecordsCoherent, NEW n \in Replicas, WorkerStep(n)
  PROVE  RecordsCoherent'
<1>w. /\ worker[n] \in Worker /\ WorkerAtWork(worker[n]) /\ PassUnderWay(worker[n])
      /\ worker[n].snap \in Records /\ worker[n].next \in Records
  BY RecordsTyped DEF TypeInv, TypeOK, AtWork, RecordsCoherent
<1>s. worker[n].ex \in Exchanges =>
        store[worker[n].ex] \in Exchange /\ store[worker[n].ex] \in Records
  BY RecordsTyped, Disassembled
(* Workers that only carry records already there.                            *)
<1>k. ASSUME NEW w, worker' = [worker EXCEPT ![n] = w], PassUnderWay(w),
             {w.snap, w.next} \subseteq Records \cup {Nothing},
             handler' = handler, StoreRecords' \subseteq Records
      PROVE  RecordsCoherent'
  <2>1. WorkerRecords' \subseteq Records \cup {Nothing}
    BY <1>k, RecordsOfWorker DEF Records
  <2>2. \A k \in Replicas : PassUnderWay(worker'[k])
    BY <1>k, PassesKept
  <2> QED BY <1>k, <2>1, <2>2, RecordsUnchanged, NoNewRecord DEF Records
(* The update of a compare-and-set: one new record, about the same attempt.  *)
<1>n. ASSUME NEW x, NEW y \in Records, NEW pc \in {"markSet", "commitSet"},
             worker' = [worker EXCEPT ![n] = [worker[n] EXCEPT !.pc = pc, !.next = x]],
             Coherent(x), x.task.attemptId = y.task.attemptId, x.task.badges = y.task.badges,
             x.task.attempt = y.task.attempt,
             handler' = handler, store' = store
      PROVE  RecordsCoherent'
  <2> DEFINE w == [worker[n] EXCEPT !.pc = pc, !.next = x]
  <2>1. w.snap = worker[n].snap /\ w.next = x /\ PassUnderWay(w)
    BY <1>w DEF Worker, PassUnderWay
  <2>2. Records' \subseteq Records \cup {x, Nothing}
    <3>1. WorkerRecords' \subseteq WorkerRecords \cup {w.snap, w.next}
      BY <1>n, RecordsOfWorker
    <3> QED BY <1>w, <1>n, <2>1, <3>1, RecordsUnchanged DEF Records
  <2>3. \A k \in Replicas : PassUnderWay(worker'[k])
    BY <1>n, <2>1, PassesKept
  <2>4. \A z \in Records : SameTask(x, z)
    BY <1>n DEF RecordsCoherent, SameTask
  <2> QED BY <1>n, <2>2, <2>3, <2>4, OneMoreRecord
<1>1. ASSUME DrainNext(n)
      PROVE  RecordsCoherent'
  <2> DEFINE w == [worker[n] EXCEPT !.pc = "load", !.ex = Head(queue[n])]
  <2>1. w.snap = worker[n].snap /\ w.next = worker[n].next /\ PassUnderWay(w)
    BY <1>w DEF Worker, PassUnderWay
  <2> QED BY <1>w, <1>1, <1>k, <2>1, RecordsUnchanged DEF DrainNext, Records
<1>2. ASSUME DrainStop(n)
      PROVE  RecordsCoherent'
  BY <1>2, <1>k, RestingWorkerCoherent, RecordsUnchanged DEF DrainStop, Records
<1>3. ASSUME WorkerLoad(n)
      PROVE  RecordsCoherent'
  <2> DEFINE w == [worker[n] EXCEPT !.pc = "mark", !.snap = store[worker[n].ex]]
  <2>1. store[worker[n].ex] \in Records
    BY <1>w, <1>s, <1>3 DEF WorkerAtWork, WorkerLoad
  <2>2. w.snap = store[worker[n].ex] /\ w.next = worker[n].next /\ PassUnderWay(w)
    BY <1>w DEF Worker, PassUnderWay
  <2>3. CASE worker' = [worker EXCEPT ![n] = w]
    <3>1. handler' = handler /\ StoreRecords' \subseteq Records
      BY <1>3, RecordsUnchanged DEF WorkerLoad, Records
    <3>2. {w.snap, w.next} \subseteq Records \cup {Nothing}
      BY <1>w, <2>1, <2>2
    <3> HIDE DEF w
    <3> QED BY <1>k, <2>2, <2>3, <3>1, <3>2
  <2>4. CASE worker' = [worker EXCEPT ![n] = RestingWorker("drain")]
    BY <1>3, <1>k, <2>4, RestingWorkerCoherent, RecordsUnchanged DEF WorkerLoad, Records
  <2> QED BY <1>3, <2>3, <2>4 DEF WorkerLoad
<1>v. /\ Verifying(worker[n]).snap \in Records /\ Verifying(worker[n]).next = Nothing
      /\ PassUnderWay(Verifying(worker[n]))
  <2>1. Coherent(worker[n].snap)
    BY <1>w DEF RecordsCoherent
  <2> QED BY <1>w, <2>1 DEF Verifying, Worker, PassUnderWay, Coherent
<1>m. ASSUME worker[n].ex \in Exchanges, CasMatches(worker[n].ex, worker[n].snap.task.attemptId)
      PROVE  LET s == worker[n].snap
                 c == store[worker[n].ex]
             IN /\ s \in Exchange /\ c \in Exchange /\ c \in Records
                /\ Coherent(s) /\ Coherent(c) /\ SameTask(c, s)
                /\ c.task.attemptId = s.task.attemptId
  BY <1>w, <1>s, <1>m DEF CasMatches, RecordsCoherent, Worker
<1>4. ASSUME WorkerMarkGet(n)
      PROVE  RecordsCoherent'
  <2> DEFINE s == worker[n].snap
             x == WithVerifyTask(store[worker[n].ex], MarkRunning(s.task))
  <2>1. worker[n].ex \in Exchanges
    BY <1>w, <1>4 DEF WorkerAtWork, WorkerMarkGet
  <2>2. CASE CasMatches(worker[n].ex, s.task.attemptId)
    <3>1. Coherent(x)
      BY <1>m, <2>1, <2>2, WorkerWritesCoherent
    <3>2. /\ x.task.attemptId = s.task.attemptId /\ x.task.badges = s.task.badges
          /\ x.task.attempt = s.task.attempt
      BY <1>m, <2>1, <2>2 DEF WithVerifyTask, MarkRunning, Exchange, Task
    <3> QED BY <1>w, <1>4, <1>n, <2>2, <3>1, <3>2 DEF WorkerMarkGet
  <2>3. CASE ~CasMatches(worker[n].ex, s.task.attemptId)
    BY <1>4, <1>k, <1>v, <2>3, RecordsUnchanged DEF WorkerMarkGet, Records
  <2> QED BY <2>2, <2>3
<1>5. ASSUME WorkerMarkSet(n)
      PROVE  RecordsCoherent'
  <2>1. StoreRecords' \subseteq Records
    BY <1>w, <1>5, RecordsOfStore DEF WorkerMarkSet, Records
  <2> QED BY <1>5, <1>k, <1>v, <2>1 DEF WorkerMarkSet
<1>6. ASSUME WorkerVerify(n)
      PROVE  RecordsCoherent'
  <2>1. PICK i \in worker[n].todo :
          \/ \E v \in BOOLEAN : worker' = [worker EXCEPT ![n] =
               [worker[n] EXCEPT !.todo = @ \ {i},
                  !.merged = MergeOpenBadgesResultsAt(worker[n].merged, i, v)]]
          \/ worker' = [worker EXCEPT ![n] = [worker[n] EXCEPT !.pc = "failing"]]
    BY <1>6 DEF WorkerVerify
  <2>2. worker[n].pc = "verify"
    BY <1>6 DEF WorkerVerify
  <2>3. ASSUME NEW v \in BOOLEAN
        PROVE  LET w == [worker[n] EXCEPT !.todo = @ \ {i},
                           !.merged = MergeOpenBadgesResultsAt(worker[n].merged, i, v)]
               IN w.snap = worker[n].snap /\ w.next = worker[n].next /\ PassUnderWay(w)
    BY <1>w, <2>2 DEF Worker, Results, PassUnderWay, MergeOpenBadgesResultsAt
  <2>4. LET w == [worker[n] EXCEPT !.pc = "failing"]
        IN w.snap = worker[n].snap /\ w.next = worker[n].next /\ PassUnderWay(w)
    BY <1>w, <2>2 DEF Worker, PassUnderWay
  <2>5. PICK w : /\ worker' = [worker EXCEPT ![n] = w] /\ PassUnderWay(w)
                 /\ w.snap = worker[n].snap /\ w.next = worker[n].next
    BY <2>1, <2>3, <2>4
  <2>6. handler' = handler /\ StoreRecords' \subseteq Records
    BY <1>6, RecordsUnchanged DEF WorkerVerify, Records
  <2> QED BY <1>w, <1>k, <2>5, <2>6
<1>7. ASSUME WorkerCommitGet(n)
      PROVE  RecordsCoherent'
  <2> DEFINE s == worker[n].snap
  <2>1. worker[n].ex \in Exchanges
    BY <1>w, <1>7 DEF WorkerAtWork, WorkerCommitGet
  <2>2. CASE ~CasMatches(worker[n].ex, s.task.attemptId)
    BY <1>7, <1>k, <2>2, RestingWorkerCoherent, RecordsUnchanged DEF WorkerCommitGet, Records
  <2>3. CASE CasMatches(worker[n].ex, s.task.attemptId) /\ worker[n].pc = "failing"
    <3> DEFINE x == WithVerifyTask(store[worker[n].ex], MarkFailed(s.task))
    <3>1. Coherent(x)
      BY <1>m, <2>1, <2>3, WorkerWritesCoherent
    <3>2. /\ x.task.attemptId = s.task.attemptId /\ x.task.badges = s.task.badges
          /\ x.task.attempt = s.task.attempt
      BY <1>m, <2>1, <2>3 DEF WithVerifyTask, MarkFailed, Exchange, Task
    <3> QED BY <1>w, <1>7, <1>n, <2>3, <3>1, <3>2 DEF WorkerCommitGet
  <2>4. CASE CasMatches(worker[n].ex, s.task.attemptId) /\ worker[n].pc # "failing"
    <3> DEFINE x == Settled(s, worker[n].merged)
    <3>1. Coherent(x)
      BY <1>w, <1>m, <1>7, <2>1, <2>4, WorkerWritesCoherent DEF WorkerCommitGet
    <3>2. /\ x.task.attemptId = s.task.attemptId /\ x.task.badges = s.task.badges
          /\ x.task.attempt = s.task.attempt
      BY <1>m, <2>1, <2>4 DEF Settled, MarkSucceeded, Exchange, Task
    <3> QED BY <1>w, <1>7, <1>n, <2>4, <3>1, <3>2 DEF WorkerCommitGet
  <2> QED BY <2>2, <2>3, <2>4
<1>8. ASSUME WorkerCommitSet(n)
      PROVE  RecordsCoherent'
  <2>1. StoreRecords' \subseteq Records
    BY <1>w, <1>8, RecordsOfStore DEF WorkerCommitSet, Records
  <2> QED BY <1>8, <1>k, <2>1, RestingWorkerCoherent DEF WorkerCommitSet
<1> QED BY <1>1, <1>2, <1>3, <1>4, <1>5, <1>6, <1>7, <1>8 DEF WorkerStep

LEMMA EnvironmentCoherent ==
  ASSUME TypeInv, RecordsCoherent,
         \/ \E e \in Exchanges : CreateExchange(e) \/ DeadlineLapses(e) \/ Expire(e)
         \/ \E h \in Handlers : HandlerStoreFault(h)
         \/ \E n \in Replicas : WorkerStoreFault(n) \/ Crash(n)
  PROVE  RecordsCoherent'
<1>p. worker' = worker => \A n \in Replicas : PassUnderWay(worker'[n])
  BY DEF RecordsCoherent
<1>1. ASSUME NEW e \in Exchanges, NEW x \in {NewExchange, NotStored("expired")},
             StoreRecords' \subseteq StoreRecords \cup {x},
             handler' = handler, worker' = worker
      PROVE  RecordsCoherent'
  <2>1. Coherent(x) /\ x.task = NoTask
    BY ConstantsCoherent DEF NewExchange, NotStored
  <2>2. \A y \in Records : SameTask(x, y)
    BY <2>1 DEF RecordsCoherent, Coherent, SameTask, NoTask
  <2> QED BY <1>1, <1>p, <2>1, <2>2, RecordsUnchanged, OneMoreRecord DEF Records
<1>2. ASSUME NEW e \in Exchanges, CreateExchange(e)
      PROVE  RecordsCoherent'
  BY <1>1, <1>2, RecordsOfStore DEF CreateExchange
<1>3. ASSUME NEW e \in Exchanges, Expire(e)
      PROVE  RecordsCoherent'
  <2>1. StoreRecords' \subseteq StoreRecords \cup {NotStored("expired")}
    BY <1>3 DEF Expire, StoreRecords, TypeInv, TypeOK
  <2> QED BY <1>1, <1>3, <2>1 DEF Expire
<1>4. ASSUME NEW e \in Exchanges, DeadlineLapses(e)
      PROVE  RecordsCoherent'
  BY <1>4, <1>p, RecordsUnchanged, NoNewRecord DEF DeadlineLapses, Records
<1>5. ASSUME NEW h \in Handlers, HandlerStoreFault(h)
      PROVE  RecordsCoherent'
  <2>1. Records' \subseteq Records \cup {Nothing}
    <3>1. StoreRecords' \subseteq Records
      BY <1>5, RecordsOfStore, RecordsTyped, RecordsUnchanged DEF HandlerStoreFault, Records
    <3> QED BY <1>5, <3>1, RecordsOfFinish, RecordsUnchanged DEF HandlerStoreFault, Records
  <2> QED BY <1>5, <1>p, <2>1, NoNewRecord DEF HandlerStoreFault
<1>6. ASSUME NEW n \in Replicas, NEW pc \in {"off", "drain"}, StoreRecords' \subseteq Records,
             HandlerRecords' \subseteq HandlerRecords \cup {Nothing},
             worker' = [worker EXCEPT ![n] = RestingWorker(pc)]
      PROVE  RecordsCoherent'
  <2>1. Records' \subseteq Records \cup {Nothing}
    BY <1>6, RestingWorkerCoherent, RecordsOfWorker, RecordsUnchanged DEF Records
  <2>2. \A k \in Replicas : PassUnderWay(worker'[k])
    BY <1>6, RestingWorkerCoherent, PassesKept
  <2> QED BY <2>1, <2>2, NoNewRecord
<1>7. ASSUME NEW n \in Replicas, WorkerStoreFault(n)
      PROVE  RecordsCoherent'
  <2>1. StoreRecords' \subseteq Records
    BY <1>7, RecordsOfStore, RecordsTyped, RecordsUnchanged DEF WorkerStoreFault, Records
  <2> QED BY <1>6, <1>7, <2>1, RecordsUnchanged DEF WorkerStoreFault
<1>8. ASSUME NEW n \in Replicas, Crash(n)
      PROVE  RecordsCoherent'
  <2>1. HandlerRecords' \subseteq HandlerRecords \cup {Nothing}
    BY <1>8 DEF Crash, HandlerRecords, RestingHandler
  <2> QED BY <1>6, <1>8, <2>1, RecordsUnchanged DEF Crash, Records
<1> QED BY <1>2, <1>3, <1>4, <1>5, <1>7, <1>8

LEMMA NextCoherent == TypeInv /\ RecordsCoherent /\ [Next]_vars => RecordsCoherent'
<1>1. ASSUME TypeInv, RecordsCoherent, Next
      PROVE  RecordsCoherent'
  BY <1>1, RequestCoherent, SweepCoherent, EnqueueCoherent, WorkerStepCoherent,
     EnvironmentCoherent DEF Next
<1>2. ASSUME RecordsCoherent, UNCHANGED vars
      PROVE  RecordsCoherent'
  BY <1>2, RecordsUnchanged, NoNewRecord DEF vars, Records, RecordsCoherent
<1> QED BY <1>1, <1>2

(* Whatever the interleaving, the store and the faults, every record stored  *)
(* or about to be saved is coherent: an attempt id names one list of badges, *)
(* and a badge shown is rechecked or still the task's (saveExchange,         *)
(* saveExchangeWithCAS, processVerifyTask).                                  *)
THEOREM CoherenceInvariant == Spec => []RecordsCoherent
<1>1. Init => TypeInv /\ RecordsCoherent
  BY InitTyped, InitCoherent
<1>2. TypeInv /\ RecordsCoherent /\ [Next]_vars => (TypeInv /\ RecordsCoherent)'
  BY NextTyped, NextCoherent
<1> QED BY <1>1, <1>2, PTL DEF Spec

(* No exchange is complete unless verification passed and the Open Badges    *)
(* suite has checked, and not refuted, every badge it shows                  *)
(* (participateInVerifyExchange, processVerifyTask, sweepIfTimedOut).        *)
THEOREM CompleteMeansRechecked == Spec => []CompleteIsRechecked
<1>1. TypeInv /\ RecordsCoherent => CompleteIsRechecked
  BY RecordsTyped DEF RecordsCoherent, Coherent, CompleteIsRechecked
<1>2. Spec => []TypeInv
  BY InitTyped, NextTyped, PTL DEF Spec
<1> QED BY <1>1, <1>2, CoherenceInvariant, PTL


-----------------------------------------------------------------------------
(* What one step does to one handler or one worker *)

(* The verdict on a presentation, or the task that will give it.             *)
Verdict(x, y) ==
  \E p \in Presentations, v \in BOOLEAN :
    \/ p.badges = {} /\ y = ApplyVerificationResults(x, SyncResults(p, v))
    \/ p.badges # {} /\ \E id \in AttemptIds :
         y = WithSyncResultsAndQueuedVerifyTask(x, SyncResults(p, v), id)

Swept(x, y) ==
  /\ Pending(x)
  /\ \/ MayRetry(x) /\ \E id \in AttemptIds : y = Bumped(x, id)
     \/ ~MayRetry(x) /\ y = GivenUp(x)

(* What is about to be written, by a request that does not present.          *)
Reread(h, y) ==
  \/ h \in Openers /\ y.snap.state = "pending" /\ y.next = [y.snap EXCEPT !.state = "active"]
  \/ h \in AuthRequests /\ NeedsOid4vpState(y.snap) /\ y.next = EnsureOid4vpState(y.snap, h)
  \/ h \in Pollers /\ Swept(y.snap, y.next)

InTurn(n, a) == n \in Replicas /\ HasTurn(n, a) /\ Continue(n, a)

Arrived(h, y) ==
  /\ handler[h].pc = "idle"
  /\ y.ex \in Exchanges /\ y.at \in Replicas /\ y.snap = store[y.ex] /\ Readable(y.snap)
  /\ \/ h \in Presenters /\ y.pc = "verify"
     \/ h \in DirectPosts /\ y.pc = "body"
     \/ h \in Openers \cup AuthRequests /\ y.pc = "save" /\ Reread(h, y) /\ InTurn(y.at, h)
     \/ h \in Pollers /\ y.pc = "casGet" /\ Reread(h, y) /\ InTurn(y.at, h)

Taken(h, y) ==
  /\ handler[h].pc = "body"
  /\ \E presented \in AuthRequests : AcceptsOid4vpResponse(handler[h].snap, presented)
  /\ y = [handler[h] EXCEPT !.pc = "verify", !.snap = ConsumeOid4vpResponse(handler[h].snap)]

Judged(h, y) ==
  /\ handler[h].pc = "verify" /\ InTurn(handler[h].at, h)
  /\ Verdict(handler[h].snap, y.next)
  /\ y = [handler[h] EXCEPT !.pc = "save", !.next = y.next]

Compared(h, y) ==
  /\ handler[h].pc = "casGet" /\ InTurn(handler[h].at, h)
  /\ CasMatches(handler[h].ex, handler[h].snap.task.attemptId)
  /\ y = [handler[h] EXCEPT !.pc = "casSet"]

(* The handler has written, and has no more to do than to queue the task.    *)
Wrote(h, y) ==
  /\ handler[h].pc \in {"save", "casSet"} /\ HasTurn(handler[h].at, h)
  /\ Put(handler[h].ex, handler[h].next)
  /\ y.pc \in {"enqueue", "done"} /\ y.ex = handler[h].ex

HandlerGoes(h) ==
  LET y == handler'[h] IN
  \/ y = handler[h]
  \/ y.pc = "failed" \/ (y.pc = "idle" /\ h \notin Requests)
  \/ y.pc = "done" /\ h \in AuthRequests
  \/ y.pc = "done" /\ handler[h].pc = "enqueue" /\ y.ex = handler[h].ex /\ UNCHANGED store
  \/ Wrote(h, y)
  \/ UNCHANGED store /\ (Arrived(h, y) \/ Taken(h, y) \/ Judged(h, y) \/ Compared(h, y))

LEMMA HandlerOver ==
  ASSUME TypeInv, NEW k \in Handlers, Finish(k) \/ Fail(k)
  PROVE  \A h \in Handlers :
           \/ handler'[h] = handler[h]
           \/ handler'[h].pc = "failed" \/ (handler'[h].pc = "idle" /\ h \notin Requests)
           \/ h = k /\ Finish(k) /\ handler'[h].pc = "done" /\ handler'[h].ex = handler[h].ex
              /\ k \in Requests
<1>1. handler \in [Handlers -> Handler]
  BY DEF TypeInv, TypeOK
<1>2. \A pc : RestingHandler(pc).pc = pc
  BY DEF RestingHandler
<1>3. Answered(k).pc = "done" /\ Answered(k).ex = handler[k].ex
  BY DEF Answered, RestingHandler
<1>4. CASE Fail(k)
  BY <1>1, <1>2, <1>4 DEF Fail, Over
<1>5. CASE Finish(k)
  BY <1>1, <1>2, <1>3, <1>5 DEF Finish, Over
<1> QED BY <1>4, <1>5

LEMMA RequestGoes ==
  ASSUME TypeInv, NEW r \in Requests, RequestStep(r)
  PROVE  \A h \in Handlers : HandlerGoes(h)
<1>r. r \in Handlers /\ handler \in [Handlers -> Handler] /\ HandlerAtWork(handler[r])
  BY DEF Handlers, TypeInv, TypeOK, AtWork
<1>1. ASSUME NEW y, handler' = [handler EXCEPT ![r] = y],
             \/ UNCHANGED store /\ (Arrived(r, y) \/ Taken(r, y) \/ Judged(r, y))
             \/ Wrote(r, y)
      PROVE  \A h \in Handlers : HandlerGoes(h)
  BY <1>r, <1>1 DEF HandlerGoes
<1>2. ASSUME NEW n \in Replicas, NEW e \in Exchanges, r \in Openers, PostEmpty(r, n, e)
      PROVE  \A h \in Handlers : HandlerGoes(h)
  <2> DEFINE y == [pc |-> "save", at |-> n, ex |-> e, snap |-> store[e],
                   next |-> [store[e] EXCEPT !.state = "active"]]
  <2>1. Arrived(r, y)
    BY <1>2 DEF PostEmpty, Arrives, Arrived, Reread, InTurn
  <2> QED BY <1>1, <1>2, <2>1 DEF PostEmpty
<1>3. ASSUME NEW n \in Replicas, NEW e \in Exchanges, r \in AuthRequests,
             GetAuthorizationRequest(r, n, e)
      PROVE  \A h \in Handlers : HandlerGoes(h)
  <2> DEFINE y == [pc |-> "save", at |-> n, ex |-> e, snap |-> store[e],
                   next |-> EnsureOid4vpState(store[e], r)]
             z == [RestingHandler("done") EXCEPT !.ex = e]
  <2>1. CASE handler' = [handler EXCEPT ![r] = z]
    <3>1. z.pc = "done"
      BY DEF RestingHandler
    <3> QED BY <1>r, <1>3, <2>1, <3>1 DEF HandlerGoes
  <2>2. CASE /\ handler' = [handler EXCEPT ![r] = y]
             /\ NeedsOid4vpState(store[e]) /\ Continue(n, r)
    <3>1. Arrived(r, y)
      BY <1>3, <2>2 DEF GetAuthorizationRequest, Arrived, Reread, InTurn
    <3> QED BY <1>1, <1>3, <2>2, <3>1 DEF GetAuthorizationRequest
  <2> QED BY <1>3, <2>1, <2>2 DEF GetAuthorizationRequest
<1>4. ASSUME NEW n \in Replicas, NEW e \in Exchanges,
             \/ r \in Presenters /\ PostPresentation(r, n, e)
             \/ r \in DirectPosts /\ PostDirectPost(r, n, e)
      PROVE  \A h \in Handlers : HandlerGoes(h)
  <2>1. PICK pc : /\ handler' = [handler EXCEPT ![r] =
                       [pc |-> pc, at |-> n, ex |-> e, snap |-> store[e], next |-> Nothing]]
                  /\ \/ r \in Presenters /\ pc = "verify"
                     \/ r \in DirectPosts /\ pc = "body"
    <3>1. CASE r \in Presenters /\ PostPresentation(r, n, e)
      BY <3>1 DEF PostPresentation
    <3>2. CASE r \in DirectPosts /\ PostDirectPost(r, n, e)
      BY <3>2 DEF PostDirectPost
    <3> QED BY <1>4, <3>1, <3>2
  <2> DEFINE y == [pc |-> pc, at |-> n, ex |-> e, snap |-> store[e], next |-> Nothing]
  <2>2. Arrived(r, y)
    BY <1>4, <2>1 DEF PostPresentation, PostDirectPost, Arrives, Arrived
  <2> QED BY <1>1, <1>4, <2>1, <2>2 DEF PostPresentation, PostDirectPost
<1>5. ASSUME HandleOid4vpResponse(r)
      PROVE  \A h \in Handlers : HandlerGoes(h)
  <2>1. CASE Fail(r)
    <3>1. RestingHandler("failed").pc = "failed"
      BY DEF RestingHandler
    <3> QED BY <1>r, <2>1, <3>1 DEF Fail, Over, HandlerGoes
  <2>2. CASE ~Fail(r)
    BY <1>1, <1>5, <2>2 DEF HandleOid4vpResponse, Taken
  <2> QED BY <2>1, <2>2
<1>6. ASSUME PresentationVerified(r)
      PROVE  \A h \in Handlers : HandlerGoes(h)
  <2>1. PICK x : Verdict(handler[r].snap, x) /\
                 handler' = [handler EXCEPT ![r] = [@ EXCEPT !.pc = "save", !.next = x]]
    <3>1. FreshIds # {} => FreshId \in AttemptIds
      BY FreshIdTyped
    <3> QED BY <1>6, <3>1 DEF PresentationVerified, Verdict
  <2> DEFINE y == [handler[r] EXCEPT !.pc = "save", !.next = x]
  <2>2. y.next = x
    BY <1>r DEF Handler
  <2>3. Judged(r, y)
    BY <1>r, <1>6, <2>1, <2>2 DEF PresentationVerified, Judged, InTurn, HandlerAtWork
  <2> QED BY <1>1, <1>6, <2>1, <2>3 DEF PresentationVerified
<1>7. ASSUME PresentationRejected(r)
      PROVE  \A h \in Handlers : HandlerGoes(h)
  <2>1. RestingHandler("failed").pc = "failed"
    BY DEF RestingHandler
  <2> QED BY <1>r, <1>7, <2>1 DEF PresentationRejected, HandlerGoes, Fail, Over
<1>8. ASSUME SaveExchange(r)
      PROVE  \A h \in Handlers : HandlerGoes(h)
  <2>1. PICK y \in {Answered(r), [handler[r] EXCEPT !.pc = "enqueue"]} :
          handler' = [handler EXCEPT ![r] = y]
    BY <1>8 DEF SaveExchange, Finish, Over
  <2>2. y.pc \in {"enqueue", "done"} /\ y.ex = handler[r].ex
    BY <1>r, <2>1 DEF Answered, RestingHandler, Handler
  <2>3. Wrote(r, y)
    BY <1>8, <2>2 DEF SaveExchange, Wrote
  <2> QED BY <1>1, <2>1, <2>3
<1> QED BY <1>2, <1>3, <1>4, <1>5, <1>6, <1>7, <1>8 DEF RequestStep, Post

LEMMA PollerGoes ==
  ASSUME TypeInv, NEW p \in Pollers,
         (\E n \in Replicas, e \in Exchanges : SweepRead(p, n, e)) \/ PollerStep(p)
  PROVE  \A h \in Handlers : HandlerGoes(h)
<1>p. p \in Handlers /\ p \notin Requests /\ handler \in [Handlers -> Handler]
      /\ HandlerAtWork(handler[p])
  BY ActorsAssumption DEF Handlers, Requests, TypeInv, TypeOK, AtWork
<1>1. ASSUME NEW n \in Replicas, NEW e \in Exchanges, SweepRead(p, n, e)
      PROVE  \A h \in Handlers : HandlerGoes(h)
  <2>1. PICK x : Swept(store[e], x) /\ handler' = [handler EXCEPT ![p] =
          [pc |-> "casGet", at |-> n, ex |-> e, snap |-> store[e], next |-> x]]
    BY <1>1, FreshIdTyped DEF SweepRead, Swept
  <2> DEFINE y == [pc |-> "casGet", at |-> n, ex |-> e, snap |-> store[e], next |-> x]
  <2>2. Arrived(p, y)
    BY <1>1, <2>1 DEF SweepRead, Arrived, Reread, InTurn, Pending, Readable
  <2> QED BY <1>p, <1>1, <2>1, <2>2 DEF HandlerGoes, SweepRead
<1>2. ASSUME PollerStep(p), Finish(p)
      PROVE  \A h \in Handlers : HandlerGoes(h)
  <2>1. RestingHandler("idle").pc = "idle"
    BY DEF RestingHandler
  <2> QED BY <1>p, <1>2, <2>1 DEF Finish, Over, HandlerGoes
<1>3. ASSUME SweepCasGet(p), ~Finish(p)
      PROVE  \A h \in Handlers : HandlerGoes(h)
  BY <1>p, <1>3 DEF SweepCasGet, HandlerGoes, Compared, InTurn, HandlerAtWork
<1>4. ASSUME SweepCasSet(p), ~Finish(p)
      PROVE  \A h \in Handlers : HandlerGoes(h)
  <2> DEFINE y == [handler[p] EXCEPT !.pc = "enqueue"]
  <2>1. y.pc = "enqueue" /\ y.ex = handler[p].ex
    BY <1>p DEF Handler
  <2>2. Wrote(p, y)
    BY <1>4, <2>1 DEF SweepCasSet, Wrote
  <2> QED BY <1>p, <1>4, <2>2 DEF SweepCasSet, HandlerGoes
<1> QED BY <1>1, <1>2, <1>3, <1>4 DEF PollerStep

(* Every step takes each handler one step on its way, or leaves it alone.    *)
LEMMA HandlerSteps == TypeInv /\ [Next]_vars => \A h \in Handlers : HandlerGoes(h)
<1> SUFFICES ASSUME TypeInv, [Next]_vars PROVE \A h \in Handlers : HandlerGoes(h)
  OBVIOUS
<1>1. ASSUME NEW k \in Handlers, EnqueueVerifyTask(k) \/ HandlerStoreFault(k)
      PROVE  \A h \in Handlers : HandlerGoes(h)
  <2>1. EnqueueVerifyTask(k) => handler[k].pc = "enqueue" /\ UNCHANGED store
    BY DEF EnqueueVerifyTask
  <2>2. CASE Fail(k)
    <3>1. RestingHandler("failed").pc = "failed" /\ RestingHandler("idle").pc = "idle"
      BY DEF RestingHandler
    <3> QED BY <2>2, <3>1 DEF TypeInv, TypeOK, Fail, Over, HandlerGoes
  <2>3. CASE EnqueueVerifyTask(k)
    BY <2>1, <2>3, HandlerOver DEF EnqueueVerifyTask, HandlerGoes
  <2> QED BY <1>1, <2>2, <2>3 DEF HandlerStoreFault
<1>2. ASSUME NEW n \in Replicas, Crash(n)
      PROVE  \A h \in Handlers : HandlerGoes(h)
  BY <1>2 DEF Crash, HandlerGoes, RestingHandler
<1>3. CASE handler' = handler
  BY <1>3 DEF HandlerGoes
<1> QED
  BY <1>1, <1>2, <1>3, RequestGoes, PollerGoes
     DEF Next, vars, CreateExchange, DeadlineLapses, Expire, WorkerStep, DrainNext, DrainStop,
         WorkerLoad, WorkerMarkGet, WorkerMarkSet, WorkerVerify, WorkerCommitGet,
         WorkerCommitSet, WorkerStoreFault

-----------------------------------------------------------------------------
(* Which kind of request waits where *)

Presenting == Presenters \cup DirectPosts

KindFits(h, pc) ==
  /\ pc = "body" => h \in DirectPosts
  /\ pc = "verify" => h \in Presenting
  /\ pc = "save" => h \in Requests
  /\ pc \in {"casGet", "casSet"} => h \in Pollers

KindsFit == \A h \in Handlers : KindFits(h, handler[h].pc)

LEMMA InitKinds == Init => KindsFit
BY DEF Init, KindsFit, KindFits, RestingHandler

LEMMA NextKinds == TypeInv /\ KindsFit /\ [Next]_vars => KindsFit'
<1> SUFFICES ASSUME TypeInv, KindsFit, [Next]_vars, NEW h \in Handlers
             PROVE  KindFits(h, handler'[h].pc)
  BY DEF KindsFit
<1>1. handler[h] \in Handler /\ KindFits(h, handler[h].pc)
  BY DEF TypeInv, TypeOK, KindsFit
<1>2. HandlerGoes(h)
  BY HandlerSteps
<1> DEFINE y == handler'[h]
<1>3. CASE Taken(h, y) \/ Judged(h, y) \/ Compared(h, y)
  <2>1. \/ handler[h].pc = "body" /\ y.pc = "verify"
        \/ handler[h].pc = "verify" /\ y.pc = "save"
        \/ handler[h].pc = "casGet" /\ y.pc = "casSet"
    BY <1>1, <1>3 DEF Taken, Judged, Compared, Handler
  <2> QED BY <1>1, <2>1 DEF KindFits, Presenting, Requests
<1>4. CASE Arrived(h, y)
  BY <1>4 DEF Arrived, KindFits, Presenting, Requests
<1>5. CASE y.pc \in {"idle", "failed", "done", "enqueue"} \/ y = handler[h]
  BY <1>1, <1>5 DEF KindFits
<1> QED BY <1>2, <1>3, <1>4, <1>5 DEF HandlerGoes, Wrote

-----------------------------------------------------------------------------
(* Where the records come from *)

(* A record that a presentation is written to: the copy that its handler     *)
(* marks, and what it makes of the verifier's answer.                        *)
ByPresenting(x, y) ==
  \E r \in Presenting :
    /\ y = handler[r].snap
    /\ \/ /\ r \in DirectPosts /\ handler[r].pc = "body"
          /\ \E presented \in AuthRequests : AcceptsOid4vpResponse(y, presented)
          /\ x = ConsumeOid4vpResponse(y)
       \/ handler[r].pc = "verify" /\ Verdict(y, x)

(* A record that is read and written back: by the empty POST, by the GET of  *)
(* the authorization request, by the sweep.                                  *)
ByReading(x, y) ==
  \/ y.state = "pending" /\ x = [y EXCEPT !.state = "active"]
  \/ NeedsOid4vpState(y) /\ \E g \in AuthRequests : x = EnsureOid4vpState(y, g)
  \/ Swept(y, x)

(* A record that the worker on n marks, fails or settles.                    *)
ByWorker(x, y, n) ==
  LET w == worker[n] IN
  \/ /\ w.pc \in {"mark", "failing"} /\ CasMatches(w.ex, w.snap.task.attemptId)
     /\ y = store[w.ex]
     /\ x \in {WithVerifyTask(y, MarkRunning(w.snap.task)),
               WithVerifyTask(y, MarkFailed(w.snap.task))}
  \/ w.pc = "verify" /\ w.todo = {} /\ y = w.snap /\ x = Settled(y, w.merged)

Written(x) ==
  \/ x \in {NewExchange, NotStored("expired")}
  \/ \E y \in Records : ByPresenting(x, y) \/ ByReading(x, y)
  \/ \E y \in Records, n \in Replicas : ByWorker(x, y, n)

OneWritten ==
  \E x : (x \in Records \/ Written(x)) /\ Records' \subseteq Records \cup {x, Nothing}

(* Assignments that only move records about.                                 *)
LEMMA NothingWritten ==
  ASSUME Records' \subseteq Records \cup {Nothing}
  PROVE  OneWritten
<1>1. Written(NewExchange)
  BY DEF Written
<1> QED BY <1>1 DEF OneWritten

LEMMA RequestWrites ==
  ASSUME TypeInv, KindsFit, NEW r \in Requests, RequestStep(r)
  PROVE  OneWritten
<1> r \in Handlers /\ KindFits(r, handler[r].pc)
  BY DEF Handlers, KindsFit
<1>w. worker' = worker
  BY DEF RequestStep, Post, PostEmpty, PostPresentation, PostDirectPost, SaveExchange,
         GetAuthorizationRequest, HandleOid4vpResponse, PresentationVerified,
         PresentationRejected
<1>r. handler[r].snap \in Records /\ handler[r].next \in Records
  BY RecordsTyped
(* A handler that goes on with one record more.                              *)
<1>n. ASSUME NEW y, handler' = [handler EXCEPT ![r] = y], store' = store,
             NEW x, x \in Records \/ Written(x),
             {y.snap, y.next} \subseteq Records \cup {x, Nothing}
      PROVE  OneWritten
  <2>1. Records' \subseteq Records \cup {x, Nothing}
    BY <1>n, <1>w, RecordsOfHandler, RecordsUnchanged DEF Records
  <2> QED BY <1>n, <2>1 DEF OneWritten
<1>o. ASSUME Finish(r) \/ Fail(r), StoreRecords' \subseteq Records
      PROVE  OneWritten
  BY <1>o, <1>w, RecordsOfFinish, RecordsUnchanged, NothingWritten DEF Records
<1>1. ASSUME NEW n \in Replicas, NEW e \in Exchanges, PostEmpty(r, n, e)
      PROVE  OneWritten
  <2> DEFINE x == [store[e] EXCEPT !.state = "active"]
             y == [pc |-> "save", at |-> n, ex |-> e, snap |-> store[e], next |-> x]
  <2>1. store[e] \in Records /\ Written(x)
    BY <1>1, RecordsTyped DEF PostEmpty, Written, ByReading
  <2>2. {y.snap, y.next} \subseteq Records \cup {x, Nothing}
    BY <2>1
  <2> QED BY <1>1, <1>n, <2>1, <2>2 DEF PostEmpty
<1>2. ASSUME NEW n \in Replicas, NEW e \in Exchanges,
             PostPresentation(r, n, e) \/ PostDirectPost(r, n, e)
      PROVE  OneWritten
  <2>1. PICK pc : handler' = [handler EXCEPT ![r] =
          [pc |-> pc, at |-> n, ex |-> e, snap |-> store[e], next |-> Nothing]]
    BY <1>2 DEF PostPresentation, PostDirectPost
  <2> DEFINE y == [pc |-> pc, at |-> n, ex |-> e, snap |-> store[e], next |-> Nothing]
  <2>2. store[e] \in Records /\ {y.snap, y.next} \subseteq Records \cup {store[e], Nothing}
    BY RecordsTyped
  <2> QED BY <1>2, <1>n, <2>1, <2>2 DEF PostPresentation, PostDirectPost
<1>3. ASSUME NEW n \in Replicas, NEW e \in Exchanges, r \in AuthRequests,
             GetAuthorizationRequest(r, n, e)
      PROVE  OneWritten
  <2> DEFINE x == EnsureOid4vpState(store[e], r)
             y == [pc |-> "save", at |-> n, ex |-> e, snap |-> store[e], next |-> x]
             z == [RestingHandler("done") EXCEPT !.ex = e]
  <2>1. store[e] \in Records
    BY RecordsTyped
  <2>2. CASE handler' = [handler EXCEPT ![r] = z]
    <3>1. {z.snap, z.next} \subseteq Records \cup {store[e], Nothing}
      BY DEF RestingHandler
    <3> QED BY <1>3, <1>n, <2>1, <2>2, <3>1 DEF GetAuthorizationRequest
  <2>3. CASE NeedsOid4vpState(store[e]) /\ handler' = [handler EXCEPT ![r] = y]
    <3>1. Written(x)
      BY <1>3, <2>1, <2>3 DEF Written, ByReading
    <3>2. {y.snap, y.next} \subseteq Records \cup {x, Nothing}
      BY <2>1
    <3> QED BY <1>3, <1>n, <2>3, <3>1, <3>2 DEF GetAuthorizationRequest
  <2> QED BY <1>3, <2>2, <2>3 DEF GetAuthorizationRequest
<1>4. ASSUME HandleOid4vpResponse(r)
      PROVE  OneWritten
  <2> DEFINE x == ConsumeOid4vpResponse(handler[r].snap)
             y == [handler[r] EXCEPT !.pc = "verify", !.snap = x]
  <2>1. CASE Fail(r)
    BY <1>4, <1>o, <2>1, RecordsUnchanged DEF HandleOid4vpResponse, Records
  <2>2. CASE ~Fail(r)
    <3>1. Written(x) /\ handler' = [handler EXCEPT ![r] = y]
      <4>1. ByPresenting(x, handler[r].snap)
        BY <1>4, <2>2 DEF HandleOid4vpResponse, ByPresenting, Presenting, KindFits
      <4>2. handler' = [handler EXCEPT ![r] = y]
        BY <1>4, <2>2 DEF HandleOid4vpResponse
      <4> QED BY <1>r, <4>1, <4>2 DEF Written
    <3>2. {y.snap, y.next} \subseteq Records \cup {x, Nothing}
      BY <1>r DEF TypeInv, TypeOK, Handler
    <3> QED BY <1>4, <1>n, <3>1, <3>2 DEF HandleOid4vpResponse
  <2> QED BY <2>1, <2>2
<1>5. ASSUME PresentationVerified(r)
      PROVE  OneWritten
  <2>1. PICK x : ByPresenting(x, handler[r].snap) /\
                 handler' = [handler EXCEPT ![r] = [@ EXCEPT !.pc = "save", !.next = x]]
    <3>1. FreshIds # {} => FreshId \in AttemptIds
      BY FreshIdTyped
    <3> QED BY <1>5, <3>1 DEF PresentationVerified, ByPresenting, Verdict, KindFits
  <2> DEFINE y == [handler[r] EXCEPT !.pc = "save", !.next = x]
  <2>2. Written(x)
    BY <1>r, <2>1 DEF Written
  <2>3. {y.snap, y.next} \subseteq Records \cup {x, Nothing}
    BY <1>r DEF TypeInv, TypeOK, Handler
  <2> QED BY <1>5, <1>n, <2>1, <2>2, <2>3 DEF PresentationVerified
<1>6. ASSUME PresentationRejected(r)
      PROVE  OneWritten
  BY <1>6, <1>o, RecordsUnchanged DEF PresentationRejected, Records
<1>7. ASSUME SaveExchange(r)
      PROVE  OneWritten
  <2>1. StoreRecords' \subseteq Records
    BY <1>7, <1>r, RecordsOfStore DEF SaveExchange, Records
  <2>2. CASE Finish(r)
    BY <1>o, <2>1, <2>2
  <2>3. CASE handler' = [handler EXCEPT ![r] = [handler[r] EXCEPT !.pc = "enqueue"]]
    <3> DEFINE y == [handler[r] EXCEPT !.pc = "enqueue"]
    <3>1. {y.snap, y.next} \subseteq Records
      BY <1>r DEF TypeInv, TypeOK, Handler
    <3>2. HandlerRecords' \subseteq HandlerRecords \cup {y.snap, y.next}
      BY <2>3, RecordsOfHandler
    <3> QED BY <1>w, <2>1, <3>1, <3>2, RecordsUnchanged, NothingWritten DEF Records
  <2> QED BY <1>7, <2>2, <2>3 DEF SaveExchange
<1> QED BY <1>1, <1>2, <1>3, <1>4, <1>5, <1>6, <1>7 DEF RequestStep, Post

LEMMA PollerWrites ==
  ASSUME TypeInv, NEW p \in Pollers,
         (\E n \in Replicas, e \in Exchanges : SweepRead(p, n, e)) \/ PollerStep(p)
  PROVE  OneWritten
<1>p. p \in Handlers /\ handler[p] \in Handler
  BY DEF Handlers, TypeInv, TypeOK
<1>r. handler[p].snap \in Records /\ handler[p].next \in Records
  BY <1>p, RecordsTyped
<1>1. ASSUME NEW n \in Replicas, NEW e \in Exchanges, SweepRead(p, n, e)
      PROVE  OneWritten
  <2>1. PICK x : ByReading(x, store[e]) /\ handler' = [handler EXCEPT ![p] =
          [pc |-> "casGet", at |-> n, ex |-> e, snap |-> store[e], next |-> x]]
    BY <1>1, FreshIdTyped DEF SweepRead, ByReading, Swept
  <2> DEFINE y == [pc |-> "casGet", at |-> n, ex |-> e, snap |-> store[e], next |-> x]
  <2>2. store[e] \in Records /\ Written(x)
    BY <2>1, RecordsTyped DEF Written
  <2>3. HandlerRecords' \subseteq HandlerRecords \cup {y.snap, y.next}
    BY <2>1, RecordsOfHandler
  <2>4. Records' \subseteq Records \cup {x, Nothing}
    BY <1>1, <2>2, <2>3, RecordsUnchanged DEF SweepRead, Records
  <2> QED BY <2>2, <2>4 DEF OneWritten
<1>2. ASSUME PollerStep(p)
      PROVE  OneWritten
  <2>1. StoreRecords' \subseteq Records /\ worker' = worker
    BY <1>2, <1>r, RecordsOfStore, RecordsUnchanged
       DEF PollerStep, SweepCasGet, SweepCasSet, Records
  <2>2. CASE Finish(p)
    BY <2>1, <2>2, RecordsOfFinish, RecordsUnchanged, NothingWritten DEF Records
  <2>3. CASE ~Finish(p)
    <3>1. PICK pc : handler' = [handler EXCEPT ![p] = [handler[p] EXCEPT !.pc = pc]]
      BY <1>2, <2>3 DEF PollerStep, SweepCasGet, SweepCasSet
    <3> DEFINE y == [handler[p] EXCEPT !.pc = pc]
    <3>2. {y.snap, y.next} \subseteq Records
      BY <1>p, <1>r DEF Handler
    <3>3. HandlerRecords' \subseteq HandlerRecords \cup {y.snap, y.next}
      BY <3>1, RecordsOfHandler
    <3> QED BY <2>1, <3>2, <3>3, RecordsUnchanged, NothingWritten DEF Records
  <2> QED BY <2>2, <2>3
<1> QED BY <1>1, <1>2

LEMMA WorkerWrites ==
  ASSUME TypeInv, NEW n \in Replicas, WorkerStep(n)
  PROVE  OneWritten
<1>w. /\ worker[n] \in Worker /\ WorkerAtWork(worker[n]) /\ handler' = handler
      /\ worker[n].snap \in Records /\ worker[n].next \in Records
  BY RecordsTyped
     DEF TypeInv, TypeOK, AtWork, WorkerStep, DrainNext, DrainStop, WorkerLoad, WorkerMarkGet,
         WorkerMarkSet, WorkerVerify, WorkerCommitGet, WorkerCommitSet
<1>n. ASSUME NEW y, worker' = [worker EXCEPT ![n] = y], StoreRecords' \subseteq Records,
             NEW x, x \in Records \/ Written(x),
             {y.snap, y.next} \subseteq Records \cup {x, Nothing}
      PROVE  OneWritten
  <2>1. WorkerRecords' \subseteq WorkerRecords \cup {y.snap, y.next}
    BY <1>n, RecordsOfWorker
  <2>2. Records' \subseteq Records \cup {x, Nothing}
    BY <1>n, <1>w, <2>1, RecordsUnchanged DEF Records
  <2> QED BY <1>n, <2>2 DEF OneWritten
<1>s. store' = store => StoreRecords' \subseteq Records
  BY RecordsUnchanged DEF Records
<1>o. ASSUME NEW y, worker' = [worker EXCEPT ![n] = y], StoreRecords' \subseteq Records,
             {y.snap, y.next} \subseteq Records \cup {Nothing}
      PROVE  OneWritten
  BY <1>n, <1>o, <1>w
<1>q. \A pc : RestingWorker(pc).snap = Nothing /\ RestingWorker(pc).next = Nothing
  BY DEF RestingWorker
<1>1. ASSUME DrainNext(n) \/ DrainStop(n)
      PROVE  OneWritten
  <2> DEFINE y == [worker[n] EXCEPT !.pc = "load", !.ex = Head(queue[n])]
  <2>1. {y.snap, y.next} \subseteq Records
    BY <1>w DEF Worker
  <2> QED BY <1>1, <1>o, <1>q, <1>s, <2>1 DEF DrainNext, DrainStop
<1>2. ASSUME WorkerLoad(n)
      PROVE  OneWritten
  <2> DEFINE y == [worker[n] EXCEPT !.pc = "mark", !.snap = store[worker[n].ex]]
  <2>1. {y.snap, y.next} \subseteq Records
    BY <1>2, <1>w, RecordsTyped DEF Worker, WorkerLoad, WorkerAtWork
  <2>2. worker' = [worker EXCEPT ![n] = y] \/ worker' = [worker EXCEPT ![n] = RestingWorker("drain")]
    BY <1>2 DEF WorkerLoad
  <2> QED BY <1>2, <1>o, <1>q, <1>s, <2>1, <2>2 DEF WorkerLoad
<1>v. {Verifying(worker[n]).snap, Verifying(worker[n]).next} \subseteq Records \cup {Nothing}
  BY <1>w DEF Verifying, Worker
<1>3. ASSUME WorkerMarkGet(n)
      PROVE  OneWritten
  <2> DEFINE w == worker[n]
             x == WithVerifyTask(store[w.ex], MarkRunning(w.snap.task))
             y == [w EXCEPT !.pc = "markSet", !.next = x]
  <2>1. CASE worker' = [worker EXCEPT ![n] = Verifying(w)]
    BY <1>3, <1>o, <1>s, <1>v, <2>1 DEF WorkerMarkGet
  <2>2. CASE CasMatches(w.ex, w.snap.task.attemptId) /\ worker' = [worker EXCEPT ![n] = y]
    <3>1. store[w.ex] \in Records
      BY <1>3, <1>w, RecordsTyped DEF WorkerMarkGet, WorkerAtWork
    <3>2. Written(x)
      BY <1>3, <2>2, <3>1 DEF Written, ByWorker, WorkerMarkGet
    <3>3. {y.snap, y.next} \subseteq Records \cup {x, Nothing}
      BY <1>w DEF Worker
    <3> HIDE DEF x, y
    <3> QED BY <1>3, <1>n, <1>s, <2>2, <3>2, <3>3 DEF WorkerMarkGet
  <2> QED BY <1>3, <2>1, <2>2 DEF WorkerMarkGet
<1>4. ASSUME WorkerMarkSet(n) \/ WorkerCommitSet(n)
      PROVE  OneWritten
  <2>1. StoreRecords' \subseteq Records
    BY <1>4, <1>w, RecordsOfStore DEF WorkerMarkSet, WorkerCommitSet, Records
  <2> QED BY <1>4, <1>o, <1>q, <1>v, <2>1 DEF WorkerMarkSet, WorkerCommitSet
<1>5. ASSUME WorkerVerify(n)
      PROVE  OneWritten
  <2> DEFINE w == worker[n]
  <2>1. StoreRecords' \subseteq Records
    BY <1>5, <1>s DEF WorkerVerify
  <2>2. CASE worker' = [worker EXCEPT ![n] = [w EXCEPT !.pc = "failing"]]
    <3> DEFINE y == [w EXCEPT !.pc = "failing"]
    <3>1. {y.snap, y.next} \subseteq Records
      BY <1>w DEF Worker
    <3> QED BY <1>o, <2>1, <2>2, <3>1
  <2>3. ASSUME NEW i \in w.todo, NEW v \in BOOLEAN,
               worker' = [worker EXCEPT ![n] = [w EXCEPT !.todo = @ \ {i},
                            !.merged = MergeOpenBadgesResultsAt(w.merged, i, v)]]
        PROVE  OneWritten
    <3> DEFINE y == [w EXCEPT !.todo = @ \ {i},
                       !.merged = MergeOpenBadgesResultsAt(w.merged, i, v)]
    <3>1. {y.snap, y.next} \subseteq Records
      BY <1>w DEF Worker
    <3> HIDE DEF y
    <3> QED BY <1>o, <2>1, <2>3, <3>1 DEF y
  <2> QED BY <1>5, <2>2, <2>3 DEF WorkerVerify
<1>6. ASSUME WorkerCommitGet(n)
      PROVE  OneWritten
  <2> DEFINE w == worker[n]
             x == IF w.pc = "failing" THEN WithVerifyTask(store[w.ex], MarkFailed(w.snap.task))
                                      ELSE Settled(w.snap, w.merged)
             y == [w EXCEPT !.pc = "commitSet", !.next = x]
  <2>1. CASE worker' = [worker EXCEPT ![n] = RestingWorker("drain")]
    BY <1>6, <1>o, <1>q, <1>s, <2>1 DEF WorkerCommitGet
  <2>2. CASE CasMatches(w.ex, w.snap.task.attemptId) /\ worker' = [worker EXCEPT ![n] = y]
    <3>1. store[w.ex] \in Records
      BY <1>6, <1>w, RecordsTyped DEF WorkerCommitGet, WorkerAtWork
    <3>2. Written(x)
      BY <1>6, <1>w, <2>2, <3>1 DEF Written, ByWorker, WorkerCommitGet
    <3>3. {y.snap, y.next} \subseteq Records \cup {x, Nothing}
      BY <1>w DEF Worker
    <3> HIDE DEF x, y
    <3> QED BY <1>6, <1>n, <1>s, <2>2, <3>2, <3>3 DEF WorkerCommitGet
  <2> QED BY <1>6, <2>1, <2>2 DEF WorkerCommitGet
<1> QED BY <1>1, <1>2, <1>3, <1>4, <1>5, <1>6 DEF WorkerStep

LEMMA EnvironmentWrites ==
  ASSUME TypeInv,
         \/ \E e \in Exchanges : CreateExchange(e) \/ DeadlineLapses(e) \/ Expire(e)
         \/ \E h \in Handlers : EnqueueVerifyTask(h) \/ HandlerStoreFault(h)
         \/ \E n \in Replicas : WorkerStoreFault(n) \/ Crash(n)
  PROVE  OneWritten
<1>1. ASSUME NEW e \in Exchanges, CreateExchange(e) \/ Expire(e)
      PROVE  OneWritten
  <2>1. PICK x \in {NewExchange, NotStored("expired")} :
          StoreRecords' \subseteq StoreRecords \cup {x}
    <3>1. ASSUME Expire(e)
          PROVE  StoreRecords' \subseteq StoreRecords \cup {NotStored("expired")}
      BY <3>1 DEF Expire, StoreRecords, TypeInv, TypeOK
    <3> QED BY <1>1, <3>1, RecordsOfStore DEF CreateExchange
  <2>2. Records' \subseteq Records \cup {x, Nothing}
    BY <1>1, <2>1, RecordsUnchanged DEF CreateExchange, Expire, Records
  <2> QED BY <2>2 DEF OneWritten, Written
<1>2. ASSUME NEW e \in Exchanges, DeadlineLapses(e)
      PROVE  OneWritten
  BY <1>2, RecordsUnchanged, NothingWritten DEF DeadlineLapses, Records
<1>q. \A pc : RestingWorker(pc).snap = Nothing /\ RestingWorker(pc).next = Nothing
  BY DEF RestingWorker
<1>w. ASSUME NEW n \in Replicas, NEW pc, worker' = [worker EXCEPT ![n] = RestingWorker(pc)]
      PROVE  WorkerRecords' \subseteq WorkerRecords \cup {Nothing}
  BY <1>q, <1>w, RecordsOfWorker
<1>3. ASSUME NEW h \in Handlers, EnqueueVerifyTask(h) \/ HandlerStoreFault(h)
      PROVE  OneWritten
  <2>1. HandlerRecords' \subseteq HandlerRecords \cup {Nothing}
    BY <1>3, RecordsOfFinish DEF EnqueueVerifyTask, HandlerStoreFault
  <2>2. WorkerRecords' \subseteq WorkerRecords \cup {Nothing}
    <3>1. EnqueueVerifyTask(h) => handler[h].at \in Replicas
      BY <1>3 DEF TypeInv, AtWork, HandlerAtWork, EnqueueVerifyTask
    <3> QED BY <1>3, <1>w, <3>1, RecordsUnchanged DEF EnqueueVerifyTask, Enqueued, HandlerStoreFault
  <2>3. StoreRecords' \subseteq Records
    BY <1>3, RecordsOfStore, RecordsTyped, RecordsUnchanged
       DEF EnqueueVerifyTask, HandlerStoreFault, Records
  <2> QED BY <2>1, <2>2, <2>3, NothingWritten DEF Records
<1>4. ASSUME NEW n \in Replicas, WorkerStoreFault(n) \/ Crash(n)
      PROVE  OneWritten
  <2>1. HandlerRecords' \subseteq HandlerRecords \cup {Nothing}
    BY <1>4, RecordsUnchanged DEF WorkerStoreFault, Crash, HandlerRecords, RestingHandler
  <2>2. WorkerRecords' \subseteq WorkerRecords \cup {Nothing}
    BY <1>4, <1>w DEF WorkerStoreFault, Crash
  <2>3. StoreRecords' \subseteq Records
    BY <1>4, RecordsOfStore, RecordsTyped, RecordsUnchanged DEF WorkerStoreFault, Crash, Records
  <2> QED BY <2>1, <2>2, <2>3, NothingWritten DEF Records
<1> QED BY <1>1, <1>2, <1>3, <1>4

(* Every step writes at most one record that was not there, and makes it out *)
(* of one that was.                                                          *)
LEMMA OneWrittenAtATime == TypeInv /\ KindsFit /\ [Next]_vars => OneWritten
<1>1. ASSUME UNCHANGED vars
      PROVE  OneWritten
  BY <1>1, RecordsUnchanged, NothingWritten DEF vars, Records
<1> QED BY <1>1, RequestWrites, PollerWrites, WorkerWrites, EnvironmentWrites DEF Next

-----------------------------------------------------------------------------
(* Giving up, on any store and any number of replicas                        *)

(* Nobody presents to an exchange that was given up.                         *)
GivenUpLeftAlone ==
  \A r \in Presenting : handler[r].pc = "idle" /\ handler'[r].pc # "idle" =>
    store[handler'[r].ex].task.status # "gave-up"

GaveUp(x) == x.task.status = "gave-up"

GaveUpInv ==
  /\ \A x \in Records : GaveUp(x) => x.state = "invalid" /\ x.results.timedOut
  /\ \A r \in Presenting : handler[r].pc \in {"body", "verify"} => ~GaveUp(handler[r].snap)

LEMMA WrittenGivenUp ==
  ASSUME TypeInv, GaveUpInv, NEW x, Written(x)
  PROVE  GaveUp(x) => x.state = "invalid" /\ x.results.timedOut
<1>1. CASE x \in {NewExchange, NotStored("expired")}
  BY <1>1 DEF NewExchange, NotStored, NoTask, GaveUp
<1>t. Records \subseteq Exchange
  BY RecordsTyped
<1>2. ASSUME NEW y \in Records, ByPresenting(x, y)
      PROVE  ~GaveUp(x)
  <2>1. PICK r \in Presenting : handler[r].pc \in {"body", "verify"} /\ y = handler[r].snap
    BY <1>2 DEF ByPresenting
  <2>2. y.task.status # "gave-up" /\ y \in Exchange
    BY <1>t, <2>1 DEF GaveUpInv, GaveUp
  <2>3. \/ x = ConsumeOid4vpResponse(y)
        \/ \E res : x = ApplyVerificationResults(y, res)
        \/ \E res : \E id \in AttemptIds : x = WithSyncResultsAndQueuedVerifyTask(y, res, id)
    BY <1>2 DEF ByPresenting, Verdict
  <2>4. CASE x = ConsumeOid4vpResponse(y)
    BY <2>2, <2>4 DEF ConsumeOid4vpResponse, Exchange, GaveUp
  <2>5. ASSUME NEW res, x = ApplyVerificationResults(y, res)
        PROVE  x.task = y.task
    BY <2>2, <2>5 DEF ApplyVerificationResults, Exchange
  <2>6. ASSUME NEW res, NEW id \in AttemptIds, x = WithSyncResultsAndQueuedVerifyTask(y, res, id)
        PROVE  x.task.status = "queued"
    BY <2>2, <2>6 DEF WithSyncResultsAndQueuedVerifyTask, ApplyVerificationResults,
                      NewVerifyTask, Exchange
  <2> QED BY <2>2, <2>3, <2>4, <2>5, <2>6 DEF GaveUp
<1>3. ASSUME NEW y \in Records, ByReading(x, y)
      PROVE  GaveUp(x) => x.state = "invalid" /\ x.results.timedOut
  <2>1. y \in Exchange /\ (GaveUp(y) => y.state = "invalid" /\ y.results.timedOut)
    BY <1>t DEF GaveUpInv
  <2>2. CASE y.state = "pending" /\ x = [y EXCEPT !.state = "active"]
    BY <2>1, <2>2 DEF GaveUp, Exchange
  <2>3. ASSUME NEW g, x = EnsureOid4vpState(y, g)
        PROVE  GaveUp(x) => x.state = "invalid" /\ x.results.timedOut
    BY <2>1, <2>3 DEF GaveUp, EnsureOid4vpState, Exchange
  <2>4. ASSUME NEW id, x = Bumped(y, id)
        PROVE  ~GaveUp(x)
    BY <2>1, <2>4 DEF GaveUp, Bumped, WithVerifyTask, BumpAttempt, Exchange, Task
  <2>5. CASE x = GivenUp(y)
    BY <2>1, <2>5 DEF GivenUp, AppendTimeout, Exchange, Results
  <2> QED BY <1>3, <2>2, <2>3, <2>4, <2>5 DEF ByReading, Swept
<1>4. ASSUME NEW y \in Records, NEW n \in Replicas, ByWorker(x, y, n)
      PROVE  ~GaveUp(x)
  <2>1. y \in Exchange /\ worker[n].snap \in Exchange
    BY <1>t, RecordsTyped
  <2>2. ASSUME NEW t \in Task, x = WithVerifyTask(y, MarkRunning(t)) \/ x = WithVerifyTask(y, MarkFailed(t))
        PROVE  ~GaveUp(x)
    BY <2>1, <2>2 DEF WithVerifyTask, MarkRunning, MarkFailed, Exchange, Task, GaveUp
  <2>3. ASSUME NEW m, x = Settled(y, m)
        PROVE  ~GaveUp(x)
    BY <2>1, <2>3 DEF Settled, MarkSucceeded, Exchange, Task, GaveUp
  <2> QED BY <1>4, <2>1, <2>2, <2>3 DEF ByWorker, Exchange
<1> QED BY <1>1, <1>2, <1>3, <1>4 DEF Written

(* What a handler goes on with is the record it read, or the copy it had.    *)
LEMMA CopiesGivenUp ==
  ASSUME TypeInv, KindsFit, GaveUpInv, [Next]_vars, GivenUpLeftAlone \/ UNCHANGED vars,
         NEW r \in Presenting, handler'[r].pc \in {"body", "verify"}
  PROVE  ~GaveUp(handler'[r].snap)
<1> DEFINE y == handler'[r]
<1>1. r \in Handlers /\ handler[r] \in Handler /\ HandlerGoes(r)
  <2>1. r \in Handlers
    BY DEF Presenting, Handlers, Requests
  <2> QED BY <2>1, HandlerSteps DEF TypeInv, TypeOK
<1>2. \/ y = handler[r]
      \/ Arrived(r, y)
      \/ Taken(r, y)
  BY <1>1 DEF HandlerGoes, Wrote, Judged, Compared, Handler
<1>3. CASE y = handler[r]
  BY <1>3 DEF GaveUpInv
<1>4. CASE Arrived(r, y)
  <2>1. GivenUpLeftAlone
    BY <1>4 DEF Arrived, vars
  <2> QED BY <1>4, <2>1 DEF Arrived, GivenUpLeftAlone, GaveUp
<1>5. CASE Taken(r, y)
  <2>1. y.snap.task = handler[r].snap.task
    BY <1>1, <1>5 DEF Taken, ConsumeOid4vpResponse, Handler, Exchange
  <2> QED BY <1>5, <2>1 DEF Taken, GaveUpInv, GaveUp
<1> QED BY <1>2, <1>3, <1>4, <1>5

LEMMA InitGivenUp == Init => GaveUpInv
<1> SUFFICES ASSUME Init PROVE GaveUpInv
  OBVIOUS
<1>1. Records \subseteq {Nothing}
  BY DEF Init, Records, StoreRecords, HandlerRecords, WorkerRecords, Nothing,
         RestingHandler, RestingWorker
<1>2. ~GaveUp(Nothing)
  BY DEF GaveUp, Nothing, NotStored, NoTask
<1>3. \A r \in Presenting : handler[r].pc = "idle"
  BY DEF Init, RestingHandler, Presenting, Handlers, Requests
<1> QED BY <1>1, <1>2, <1>3 DEF GaveUpInv

LEMMA NextGivenUp ==
  TypeInv /\ KindsFit /\ GaveUpInv /\ [Next]_vars /\ [GivenUpLeftAlone]_vars => GaveUpInv'
<1> SUFFICES ASSUME TypeInv, KindsFit, GaveUpInv, [Next]_vars, [GivenUpLeftAlone]_vars
             PROVE  GaveUpInv'
  OBVIOUS
<1>1. PICK x : (x \in Records \/ Written(x)) /\ Records' \subseteq Records \cup {x, Nothing}
  BY OneWrittenAtATime DEF OneWritten
<1>2. GaveUp(x) => x.state = "invalid" /\ x.results.timedOut
  BY <1>1, WrittenGivenUp DEF GaveUpInv
<1>3. ~GaveUp(Nothing)
  BY DEF GaveUp, Nothing, NotStored, NoTask
<1>4. \A y \in Records' : GaveUp(y) => y.state = "invalid" /\ y.results.timedOut
  BY <1>1, <1>2, <1>3 DEF GaveUpInv
<1>5. \A r \in Presenting : handler'[r].pc \in {"body", "verify"} => ~GaveUp(handler'[r].snap)
  BY CopiesGivenUp
<1> QED BY <1>4, <1>5 DEF GaveUpInv, GaveUp

(* README: 'gave-up' pairs with state 'invalid'.  It does, on any store, on  *)
(* any number of replicas and through every fault, unless somebody presents  *)
(* to an exchange that was given up already: the one way to a record that    *)
(* says otherwise (giveUp, applyVerificationResults, saveExchange).          *)
THEOREM GaveUpPairsWithInvalid ==
  Spec /\ [][GivenUpLeftAlone]_vars => []GaveUpMeansInvalid
<1>1. Init => TypeInv /\ KindsFit /\ GaveUpInv
  BY InitTyped, InitKinds, InitGivenUp
<1>2. TypeInv /\ KindsFit /\ GaveUpInv /\ [Next]_vars /\ [GivenUpLeftAlone]_vars
        => (TypeInv /\ KindsFit /\ GaveUpInv)'
  BY NextTyped, NextKinds, NextGivenUp
<1>3. TypeInv /\ GaveUpInv => GaveUpMeansInvalid
  BY RecordsTyped DEF GaveUpInv, GaveUp, GaveUpMeansInvalid
<1> QED BY <1>1, <1>2, <1>3, PTL DEF Spec
=============================================================================
