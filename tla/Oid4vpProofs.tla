---------------------------- MODULE Oid4vpProofs ----------------------------
(***************************************************************************)
(* The replay guard of the OpenID4VP binding. Its mark is only ever stored *)
(* with the verdict of a verification, or with the task that will give     *)
(* one, and a state that is in every copy of a record stays: for any       *)
(* number of exchanges, replicas and requests, for both kinds of store,    *)
(* whatever is lost, retried or saved over. In process an answered         *)
(* response is remembered as long as nobody presents through VC-API, and   *)
(* one that begins after it is refused.                                    *)
(***************************************************************************)
EXTENDS InProcessProofs

(* What has been saved and what is about to be: every record but the copies  *)
(* the handlers read, of which the one that is being verified bears a mark   *)
(* and no verdict yet.                                                       *)
NextRecords  == {handler[h].next : h \in Handlers}
SavedRecords == StoreRecords \cup NextRecords \cup WorkerRecords

Spent(x) == x.oid4vp.received => VerdictOrTask(x)

SpentInv == \A x \in SavedRecords : Spent(x)

-----------------------------------------------------------------------------
LEMMA UnmarkedSpent ==
  /\ Spent(Nothing) /\ Spent(NewExchange) /\ Spent(NotStored("expired"))
  /\ \A x \in Exchange, g \in AuthRequests : Spent(EnsureOid4vpState(x, g))
BY DEF Spent, Nothing, NewExchange, NotStored, NoOid4vp, EnsureOid4vpState, Exchange

LEMMA DecidedSpent ==
  /\ \A x \in Exchange, r \in Results :
       Spent(ApplyVerificationResults(x, r)) /\ Spent(Settled(x, r))
  /\ \A x \in Exchange, r \in Results, id \in AttemptIds :
       Spent(WithSyncResultsAndQueuedVerifyTask(x, r, id))
  /\ \A x \in Exchange : Spent(GivenUp(x))
BY NoneAssumption
   DEF Spent, VerdictOrTask, ApplyVerificationResults, Settled, GivenUp, Outcome,
       WithSyncResultsAndQueuedVerifyTask, NewVerifyTask, Exchange

LEMMA CarriedSpent ==
  /\ \A x \in Exchange : Spent(x) /\ x.state = "pending" => Spent([x EXCEPT !.state = "active"])
  /\ \A x \in Exchange, id \in AttemptIds : Spent(x) => Spent(Bumped(x, id))
  /\ \A x \in Exchange, t \in Task :
       Spent(x) /\ t.attemptId = x.task.attemptId => Spent(WithVerifyTask(x, t))
BY NoneAssumption
   DEF Spent, VerdictOrTask, Bumped, BumpAttempt, WithVerifyTask, Exchange, Task

(* What an assignment adds.                                                  *)
LEMMA SavedOfHandler ==
  ASSUME TypeInv, NEW h, NEW y, handler' = [handler EXCEPT ![h] = y]
  PROVE  NextRecords' \subseteq NextRecords \cup {y.next}
BY DEF TypeInv, TypeOK, NextRecords

LEMMA SavedOfOver ==
  ASSUME TypeInv, NEW h, Finish(h) \/ Fail(h)
  PROVE  NextRecords' \subseteq NextRecords \cup {Nothing}
<1>1. PICK y \in {Answered(h), RestingHandler("failed"), RestingHandler("idle")} :
        handler' = [handler EXCEPT ![h] = y]
  BY DEF Finish, Fail, Over
<1>2. y.next = Nothing
  BY <1>1 DEF Answered, RestingHandler
<1> QED BY <1>1, <1>2, SavedOfHandler

LEMMA SavedUnchanged ==
  /\ store' = store => StoreRecords' = StoreRecords
  /\ handler' = handler => NextRecords' = NextRecords
  /\ worker' = worker => WorkerRecords' = WorkerRecords
BY DEF StoreRecords, NextRecords, WorkerRecords

LEMMA SavedTyped ==
  ASSUME TypeInv, SpentInv
  PROVE  /\ \A e \in Exchanges : store[e] \in Exchange /\ Spent(store[e])
         /\ \A h \in Handlers : /\ handler[h].snap \in Exchange
                                /\ handler[h].next \in SavedRecords
         /\ \A n \in Replicas : /\ {worker[n].snap, worker[n].next} \subseteq SavedRecords
                                /\ worker[n].snap \in Exchange /\ Spent(worker[n].snap)
BY DEF TypeInv, TypeOK, SpentInv, SavedRecords, StoreRecords, NextRecords, WorkerRecords,
       Handler, Worker

LEMMA OneMoreSaved ==
  ASSUME SpentInv, NEW x, Spent(x), SavedRecords' \subseteq SavedRecords \cup {x, Nothing}
  PROVE  SpentInv'
<1>1. \A y \in SavedRecords \cup {x, Nothing} : Spent(y)
  BY UnmarkedSpent DEF SpentInv
<1> QED BY <1>1 DEF SpentInv

LEMMA InitSpent == Init => SpentInv
<1> SUFFICES ASSUME Init PROVE SpentInv
  OBVIOUS
<1>1. SavedRecords \subseteq {Nothing}
  BY DEF Init, SavedRecords, StoreRecords, NextRecords, WorkerRecords, Nothing,
         RestingHandler, RestingWorker
<1> QED BY <1>1, UnmarkedSpent DEF SpentInv

LEMMA RequestSpent ==
  ASSUME TypeInv, SpentInv, NEW r \in Requests, RequestStep(r)
  PROVE  SpentInv'
<1> r \in Handlers
  BY DEF Handlers
(* A request that is given a new `next`, and nothing else is written.        *)
<1>n. ASSUME NEW x, NextRecords' \subseteq NextRecords \cup {x}, Spent(x),
             store' = store, worker' = worker
      PROVE  SpentInv'
  <2>1. SavedRecords' \subseteq SavedRecords \cup {x, Nothing}
    BY <1>n, SavedUnchanged DEF SavedRecords
  <2> QED BY <1>n, <2>1, OneMoreSaved
<1>1. ASSUME NEW n \in Replicas, NEW e \in Exchanges, PostEmpty(r, n, e)
      PROVE  SpentInv'
  <2> DEFINE x == [store[e] EXCEPT !.state = "active"]
             y == [pc |-> "save", at |-> n, ex |-> e, snap |-> store[e], next |-> x]
  <2>1. Spent(x)
    BY <1>1, SavedTyped, CarriedSpent DEF PostEmpty
  <2>2. NextRecords' \subseteq NextRecords \cup {y.next}
    BY <1>1, SavedOfHandler DEF PostEmpty
  <2> QED BY <1>1, <1>n, <2>1, <2>2 DEF PostEmpty
<1>2. ASSUME NEW n \in Replicas, NEW e \in Exchanges,
             PostPresentation(r, n, e) \/ PostDirectPost(r, n, e)
      PROVE  SpentInv'
  <2>1. PICK pc \in {"verify", "body"} : handler' = [handler EXCEPT ![r] =
          [pc |-> pc, at |-> n, ex |-> e, snap |-> store[e], next |-> Nothing]]
    BY <1>2 DEF PostPresentation, PostDirectPost
  <2> DEFINE y == [pc |-> pc, at |-> n, ex |-> e, snap |-> store[e], next |-> Nothing]
  <2>2. NextRecords' \subseteq NextRecords \cup {y.next}
    BY <2>1, SavedOfHandler
  <2> QED BY <1>2, <1>n, <2>2, UnmarkedSpent DEF PostPresentation, PostDirectPost
<1>3. ASSUME NEW n \in Replicas, NEW e \in Exchanges, r \in AuthRequests,
             GetAuthorizationRequest(r, n, e)
      PROVE  SpentInv'
  <2> DEFINE y == [pc |-> "save", at |-> n, ex |-> e, snap |-> store[e],
                   next |-> EnsureOid4vpState(store[e], r)]
             z == [RestingHandler("done") EXCEPT !.ex = e]
  <2>1. Spent(y.next) /\ z.next = Nothing
    BY <1>3, SavedTyped, UnmarkedSpent DEF RestingHandler
  <2>2. handler' = [handler EXCEPT ![r] = y] \/ handler' = [handler EXCEPT ![r] = z]
    BY <1>3 DEF GetAuthorizationRequest
  <2>3. store' = store /\ worker' = worker
    BY <1>3 DEF GetAuthorizationRequest
  <2> HIDE DEF y, z
  <2> QED BY <1>n, <2>1, <2>2, <2>3, SavedOfHandler, UnmarkedSpent
<1>4. ASSUME HandleOid4vpResponse(r)
      PROVE  SpentInv'
  <2> DEFINE y == [handler[r] EXCEPT !.pc = "verify",
                                     !.snap = ConsumeOid4vpResponse(handler[r].snap)]
  <2>1. y.next = handler[r].next
    BY DEF TypeInv, TypeOK, Handler
  <2>2. handler' = [handler EXCEPT ![r] = y] \/ Fail(r)
    BY <1>4 DEF HandleOid4vpResponse
  <2>3. NextRecords' \subseteq NextRecords \cup {Nothing}
    <3> HIDE DEF y
    <3>1. handler[r].next \in NextRecords
      BY DEF NextRecords
    <3> QED BY <2>1, <2>2, <3>1, SavedOfHandler, SavedOfOver
  <2> QED BY <1>4, <1>n, <2>3, UnmarkedSpent DEF HandleOid4vpResponse
<1>5. ASSUME PresentationVerified(r)
      PROVE  SpentInv'
  <2>1. PICK x : Spent(x) /\ handler' = [handler EXCEPT ![r] =
          [handler[r] EXCEPT !.pc = "save", !.next = x]]
    BY <1>5, SavedTyped, DecidedSpent, ResultsTyped, FreshIdTyped DEF PresentationVerified
  <2> DEFINE y == [handler[r] EXCEPT !.pc = "save", !.next = x]
  <2>2. y.next = x
    BY DEF TypeInv, TypeOK, Handler
  <2>3. NextRecords' \subseteq NextRecords \cup {x}
    BY <2>1, <2>2, SavedOfHandler
  <2> QED BY <1>5, <1>n, <2>1, <2>3 DEF PresentationVerified
<1>6. ASSUME PresentationRejected(r)
      PROVE  SpentInv'
  BY <1>6, <1>n, SavedOfOver, UnmarkedSpent DEF PresentationRejected
<1>7. ASSUME SaveExchange(r)
      PROVE  SpentInv'
  <2> DEFINE y == [handler[r] EXCEPT !.pc = "enqueue"]
  <2>1. y.next = handler[r].next /\ handler[r].next \in NextRecords
    BY DEF TypeInv, TypeOK, Handler, NextRecords
  <2>2. handler' = [handler EXCEPT ![r] = y] \/ Finish(r)
    BY <1>7 DEF SaveExchange
  <2>3. NextRecords' \subseteq NextRecords \cup {Nothing}
    <3> HIDE DEF y
    <3> QED BY <2>1, <2>2, SavedOfHandler, SavedOfOver
  <2>4. StoreRecords' \subseteq StoreRecords \cup NextRecords
    BY <1>7, <2>1, RecordsOfStore DEF SaveExchange
  <2>5. SavedRecords' \subseteq SavedRecords \cup {Nothing}
    BY <1>7, <2>3, <2>4, SavedUnchanged DEF SaveExchange, SavedRecords
  <2> QED BY <2>5, UnmarkedSpent, OneMoreSaved
<1> QED BY <1>1, <1>2, <1>3, <1>4, <1>5, <1>6, <1>7 DEF RequestStep, Post

LEMMA SweepSpent ==
  ASSUME TypeInv, SpentInv, NEW p \in Pollers,
         \/ \E n \in Replicas, e \in Exchanges : SweepRead(p, n, e)
         \/ PollerStep(p)
  PROVE  SpentInv'
<1> p \in Handlers
  BY DEF Handlers
<1>1. ASSUME NEW n \in Replicas, NEW e \in Exchanges, SweepRead(p, n, e)
      PROVE  SpentInv'
  <2>1. store[e] \in Exchange /\ Spent(store[e])
    BY SavedTyped
  <2>2. PICK x \in {Bumped(store[e], FreshId), GivenUp(store[e])} :
          /\ Spent(x)
          /\ handler' = [handler EXCEPT ![p] =
               [pc |-> "casGet", at |-> n, ex |-> e, snap |-> store[e], next |-> x]]
    BY <1>1, <2>1, DecidedSpent, CarriedSpent, FreshIdTyped DEF SweepRead
  <2> DEFINE y == [pc |-> "casGet", at |-> n, ex |-> e, snap |-> store[e], next |-> x]
  <2>3. NextRecords' \subseteq NextRecords \cup {y.next}
    BY <2>2, SavedOfHandler
  <2>4. SavedRecords' \subseteq SavedRecords \cup {x, Nothing}
    BY <1>1, <2>3, SavedUnchanged DEF SweepRead, SavedRecords
  <2> QED BY <2>2, <2>4, OneMoreSaved
<1>h. ASSUME NEW pc, \/ handler' = [handler EXCEPT ![p] = [handler[p] EXCEPT !.pc = pc]]
                     \/ Finish(p)
      PROVE  NextRecords' \subseteq NextRecords \cup {Nothing}
  <2> DEFINE y == [handler[p] EXCEPT !.pc = pc]
  <2>1. y.next = handler[p].next /\ handler[p].next \in NextRecords
    BY DEF TypeInv, TypeOK, Handler, NextRecords
  <2> HIDE DEF y
  <2>2. CASE handler' = [handler EXCEPT ![p] = y]
    BY <2>1, <2>2, SavedOfHandler
  <2> QED BY <1>h, <2>2, SavedOfOver DEF y
<1>2. ASSUME SweepCasGet(p) \/ SweepCasSet(p)
      PROVE  SpentInv'
  <2>1. NextRecords' \subseteq NextRecords \cup {Nothing}
    BY <1>2, <1>h DEF SweepCasGet, SweepCasSet
  <2>2. StoreRecords' \subseteq StoreRecords \cup NextRecords
    BY <1>2, RecordsOfStore, SavedUnchanged DEF SweepCasGet, SweepCasSet, NextRecords
  <2>3. SavedRecords' \subseteq SavedRecords \cup {Nothing}
    BY <1>2, <2>1, <2>2, SavedUnchanged DEF SweepCasGet, SweepCasSet, SavedRecords
  <2> QED BY <2>3, UnmarkedSpent, OneMoreSaved
<1> QED BY <1>1, <1>2 DEF PollerStep

LEMMA WorkerStepSpent ==
  ASSUME TypeInv, SpentInv, NEW n \in Replicas, WorkerStep(n)
  PROVE  SpentInv'
<1>w. /\ worker[n] \in Worker /\ WorkerAtWork(worker[n])
      /\ worker[n].snap \in SavedRecords /\ worker[n].next \in SavedRecords
      /\ worker[n].snap \in Exchange /\ Spent(worker[n].snap)
  BY SavedTyped DEF TypeInv, TypeOK, AtWork
(* A worker that carries at most one new record; the store gains nothing.    *)
<1>c. ASSUME NEW w, NEW x, worker' = [worker EXCEPT ![n] = w], Spent(x),
             {w.snap, w.next} \subseteq SavedRecords \cup {x, Nothing},
             handler' = handler, StoreRecords' \subseteq SavedRecords
      PROVE  SpentInv'
  <2>1. SavedRecords' \subseteq SavedRecords \cup {x, Nothing}
    BY <1>c, RecordsOfWorker, SavedUnchanged DEF SavedRecords
  <2> QED BY <1>c, <2>1, OneMoreSaved
<1>1. ASSUME DrainNext(n) \/ WorkerVerify(n)
      PROVE  SpentInv'
  <2>1. PICK w : /\ worker' = [worker EXCEPT ![n] = w]
                 /\ w.snap = worker[n].snap /\ w.next = worker[n].next
    BY <1>w, <1>1 DEF DrainNext, WorkerVerify, Worker
  <2>2. handler' = handler /\ StoreRecords' \subseteq SavedRecords
    BY <1>1, SavedUnchanged DEF DrainNext, WorkerVerify, SavedRecords
  <2> QED BY <1>w, <1>c, <2>1, <2>2, UnmarkedSpent
<1>2. ASSUME DrainStop(n)
      PROVE  SpentInv'
  BY <1>2, <1>c, RestingWorkerCoherent, SavedUnchanged, UnmarkedSpent
     DEF DrainStop, SavedRecords
<1>3. ASSUME WorkerLoad(n)
      PROVE  SpentInv'
  <2> DEFINE y == [worker[n] EXCEPT !.pc = "mark", !.snap = store[worker[n].ex]]
  <2>1. store[worker[n].ex] \in SavedRecords
    BY <1>w, <1>3 DEF WorkerAtWork, WorkerLoad, SavedRecords, StoreRecords
  <2>2. y.snap = store[worker[n].ex] /\ y.next = worker[n].next
    BY <1>w DEF Worker
  <2>3. handler' = handler /\ StoreRecords' \subseteq SavedRecords
    BY <1>3, SavedUnchanged DEF WorkerLoad, SavedRecords
  <2>4. worker' = [worker EXCEPT ![n] = y] \/ worker' = [worker EXCEPT ![n] = RestingWorker("drain")]
    BY <1>3 DEF WorkerLoad
  <2> HIDE DEF y
  <2> QED BY <1>w, <1>c, <2>1, <2>2, <2>3, <2>4, RestingWorkerCoherent, UnmarkedSpent
<1>v. Verifying(worker[n]).snap = worker[n].snap /\ Verifying(worker[n]).next = Nothing
  BY <1>w DEF Verifying, Worker
<1>4. ASSUME WorkerMarkGet(n)
      PROVE  SpentInv'
  <2> DEFINE x == WithVerifyTask(store[worker[n].ex], MarkRunning(worker[n].snap.task))
             y == [worker[n] EXCEPT !.pc = "markSet", !.next = x]
  <2>1. store[worker[n].ex] \in Exchange /\ Spent(store[worker[n].ex])
    BY <1>w, <1>4, SavedTyped DEF WorkerAtWork, WorkerMarkGet
  <2>2. CASE CasMatches(worker[n].ex, worker[n].snap.task.attemptId)
    <3>1. /\ MarkRunning(worker[n].snap.task) \in Task
          /\ MarkRunning(worker[n].snap.task).attemptId = worker[n].snap.task.attemptId
      BY <1>w, TasksTyped DEF Exchange, Task, MarkRunning
    <3>2. Spent(x)
      BY <2>1, <2>2, <3>1, CarriedSpent DEF CasMatches
    <3>3. y.snap = worker[n].snap /\ y.next = x
      BY <1>w DEF Worker
    <3>4. worker' = [worker EXCEPT ![n] = y] /\ handler' = handler
          /\ StoreRecords' \subseteq SavedRecords
      BY <1>4, <2>2, SavedUnchanged DEF WorkerMarkGet, SavedRecords
    <3> HIDE DEF x, y
    <3> QED BY <1>w, <1>c, <3>2, <3>3, <3>4
  <2>3. CASE ~CasMatches(worker[n].ex, worker[n].snap.task.attemptId)
    <3>1. worker' = [worker EXCEPT ![n] = Verifying(worker[n])] /\ handler' = handler
          /\ StoreRecords' \subseteq SavedRecords
      BY <1>4, <2>3, SavedUnchanged DEF WorkerMarkGet, SavedRecords
    <3> QED BY <1>w, <1>c, <1>v, <3>1, UnmarkedSpent
  <2> QED BY <2>2, <2>3
<1>s. ASSUME Put(worker[n].ex, worker[n].next)
      PROVE  StoreRecords' \subseteq SavedRecords
  BY <1>w, <1>s, RecordsOfStore DEF SavedRecords
<1>5. ASSUME WorkerMarkSet(n)
      PROVE  SpentInv'
  BY <1>w, <1>c, <1>v, <1>s, <1>5, UnmarkedSpent DEF WorkerMarkSet
<1>6. ASSUME WorkerCommitGet(n)
      PROVE  SpentInv'
  <2> DEFINE failed == WithVerifyTask(store[worker[n].ex], MarkFailed(worker[n].snap.task))
             settled == Settled(worker[n].snap, worker[n].merged)
  <2>1. store[worker[n].ex] \in Exchange /\ Spent(store[worker[n].ex])
    BY <1>w, <1>6, SavedTyped DEF WorkerAtWork, WorkerCommitGet
  <2>2. handler' = handler /\ StoreRecords' \subseteq SavedRecords
    BY <1>6, SavedUnchanged DEF WorkerCommitGet, SavedRecords
  <2>3. CASE CasMatches(worker[n].ex, worker[n].snap.task.attemptId)
    <3>1. /\ MarkFailed(worker[n].snap.task) \in Task
          /\ MarkFailed(worker[n].snap.task).attemptId = worker[n].snap.task.attemptId
      BY <1>w, TasksTyped DEF Exchange, Task, MarkFailed
    <3>2. Spent(failed)
      BY <2>1, <2>3, <3>1, CarriedSpent DEF CasMatches
    <3>3. Spent(settled)
      BY <1>w, DecidedSpent DEF Worker
    <3>4. PICK x \in {failed, settled} :
            worker' = [worker EXCEPT ![n] = [worker[n] EXCEPT !.pc = "commitSet", !.next = x]]
      BY <1>6, <2>3 DEF WorkerCommitGet
    <3> DEFINE y == [worker[n] EXCEPT !.pc = "commitSet", !.next = x]
    <3>5. y.snap = worker[n].snap /\ y.next = x
      BY <1>w DEF Worker
    <3>6. Spent(x) /\ worker' = [worker EXCEPT ![n] = y]
      BY <3>2, <3>3, <3>4
    <3> HIDE DEF failed, settled, y
    <3> QED BY <1>w, <1>c, <2>2, <3>5, <3>6
  <2>4. CASE ~CasMatches(worker[n].ex, worker[n].snap.task.attemptId)
    <3>1. worker' = [worker EXCEPT ![n] = RestingWorker("drain")]
      BY <1>6, <2>4 DEF WorkerCommitGet
    <3> QED BY <1>c, <2>2, <3>1, RestingWorkerCoherent, UnmarkedSpent
  <2> QED BY <2>3, <2>4
<1>7. ASSUME WorkerCommitSet(n)
      PROVE  SpentInv'
  BY <1>c, <1>s, <1>7, RestingWorkerCoherent, UnmarkedSpent DEF WorkerCommitSet
<1> QED BY <1>1, <1>2, <1>3, <1>4, <1>5, <1>6, <1>7 DEF WorkerStep

LEMMA OthersSpent ==
  ASSUME TypeInv, SpentInv,
         \/ \E e \in Exchanges : CreateExchange(e) \/ DeadlineLapses(e) \/ Expire(e)
         \/ \E h \in Handlers : EnqueueVerifyTask(h) \/ HandlerStoreFault(h)
         \/ \E n \in Replicas : WorkerStoreFault(n) \/ Crash(n)
         \/ UNCHANGED vars
  PROVE  SpentInv'
<1>1. StoreRecords' \subseteq SavedRecords \cup {NewExchange, NotStored("expired")}
  <2>1. ASSUME NEW e \in Exchanges, CreateExchange(e)
        PROVE  StoreRecords' \subseteq StoreRecords \cup {NewExchange}
    BY <2>1, RecordsOfStore DEF CreateExchange
  <2>2. ASSUME NEW e \in Exchanges, Expire(e)
        PROVE  StoreRecords' \subseteq StoreRecords \cup {NotStored("expired")}
    BY <2>2 DEF Expire, StoreRecords, TypeInv, TypeOK
  <2>3. ASSUME store' = store
        PROVE  StoreRecords' = StoreRecords
    BY <2>3, SavedUnchanged
  <2>4. ASSUME NEW h \in Handlers, HandlerStoreFault(h)
        PROVE  StoreRecords' \subseteq StoreRecords \cup NextRecords
    BY <2>3, <2>4, RecordsOfStore DEF HandlerStoreFault, NextRecords
  <2>5. ASSUME NEW n \in Replicas, WorkerStoreFault(n)
        PROVE  StoreRecords' \subseteq StoreRecords \cup WorkerRecords
    BY <2>3, <2>5, RecordsOfStore DEF WorkerStoreFault, WorkerRecords
  <2> QED
    BY <2>1, <2>2, <2>3, <2>4, <2>5
       DEF SavedRecords, DeadlineLapses, EnqueueVerifyTask, Crash, vars
<1>2. NextRecords' \subseteq NextRecords \cup {Nothing}
  <2>1. ASSUME NEW n \in Replicas, Crash(n)
        PROVE  NextRecords' \subseteq NextRecords \cup {Nothing}
    BY <2>1 DEF Crash, NextRecords, RestingHandler
  <2>2. ASSUME NEW h \in Handlers, EnqueueVerifyTask(h) \/ HandlerStoreFault(h)
        PROVE  NextRecords' \subseteq NextRecords \cup {Nothing}
    BY <2>2, SavedOfOver DEF EnqueueVerifyTask, HandlerStoreFault
  <2> QED
    BY <2>1, <2>2, SavedUnchanged
       DEF CreateExchange, DeadlineLapses, Expire, WorkerStoreFault, vars
<1>3. WorkerRecords' \subseteq WorkerRecords \cup {Nothing}
  <2>1. CASE worker' = worker
    BY <2>1, SavedUnchanged
  <2>2. ASSUME NEW n, NEW pc \in {"off", "drain"},
               worker' = [worker EXCEPT ![n] = RestingWorker(pc)]
        PROVE  WorkerRecords' \subseteq WorkerRecords \cup {Nothing}
    BY <2>2, RestingWorkerCoherent, RecordsOfWorker
  <2>3. ASSUME NEW h \in Handlers, EnqueueVerifyTask(h)
        PROVE  WorkerRecords' \subseteq WorkerRecords \cup {Nothing}
    <3> DEFINE at == handler[h].at
    <3>1. worker' = worker \/ worker' = [worker EXCEPT ![at] = RestingWorker("drain")]
      BY <2>3 DEF EnqueueVerifyTask, Enqueued
    <3> HIDE DEF at
    <3> QED BY <2>1, <2>2, <3>1
  <2>4. ASSUME NEW n \in Replicas, WorkerStoreFault(n) \/ Crash(n)
        PROVE  WorkerRecords' \subseteq WorkerRecords \cup {Nothing}
    <3>1. \/ worker' = [worker EXCEPT ![n] = RestingWorker("drain")]
          \/ worker' = [worker EXCEPT ![n] = RestingWorker("off")]
      BY <2>4 DEF WorkerStoreFault, Crash
    <3> QED BY <2>2, <3>1
  <2>5. CASE \/ \E e \in Exchanges : CreateExchange(e) \/ DeadlineLapses(e) \/ Expire(e)
             \/ \E h \in Handlers : HandlerStoreFault(h)
             \/ UNCHANGED vars
    BY <2>1, <2>5 DEF CreateExchange, DeadlineLapses, Expire, HandlerStoreFault, vars
  <2> QED BY <2>3, <2>4, <2>5
<1>4. \A x \in SavedRecords' : Spent(x)
  BY <1>1, <1>2, <1>3, UnmarkedSpent DEF SavedRecords, SpentInv
<1> QED BY <1>4 DEF SpentInv

(* No failed, refused or lost OpenID4VP response uses up the wallet's one    *)
(* chance to answer: a received mark in the store always comes with the      *)
(* verdict or the task of the pipeline (handleOid4vpResponse,                *)
(* participateInVerifyExchange).                                             *)
THEOREM SpentOnlyByVerdict == Spec => []SpentMeansVerified
<1>1. TypeInv /\ SpentInv /\ [Next]_vars => (TypeInv /\ SpentInv)'
  BY NextTyped, RequestSpent, SweepSpent, WorkerStepSpent, OthersSpent DEF Next
<1>2. Init => TypeInv /\ SpentInv
  BY InitTyped, InitSpent
<1>3. TypeInv /\ SpentInv => SpentMeansVerified
  BY SavedTyped DEF Spent, SpentMeansVerified
<1> QED BY <1>1, <1>2, <1>3, PTL DEF Spec

-----------------------------------------------------------------------------
(***************************************************************************)
(* One process: as long as nobody has presented through VC-API, the mark of *)
(* an answered response stays; and from then on it is too late for a       *)
(* VC-API presentation, or a second response, to undo it.  A presentation  *)
(* that is already under way, and another replica, save a copy without the *)
(* mark over it.                                                           *)
(***************************************************************************)

(* A response has a request, and a task has a response.                      *)
Marked(x) ==
  /\ x.state = "none" => x.oid4vp = NoOid4vp
  /\ x.oid4vp.received => x.oid4vp.state # None
  /\ x.task.status # "none" => x.oid4vp.received

SameRequest(x, y) == x.oid4vp.state # None => y.oid4vp.state = x.oid4vp.state
Carried(x, y)     == SameRequest(x, y) /\ (x.oid4vp.received => y.oid4vp.received)

(* The response that d brought, from the body to the answer.                 *)
ResponseKept(d) ==
  LET y == handler[d] IN
  /\ y.pc \in {"body", "verify", "save"} =>
       Marked(y.snap) /\ (Gone(store[y.ex]) \/ SameRequest(y.snap, store[y.ex]))
  /\ y.pc \in {"verify", "save"} => y.snap.oid4vp.received
  /\ y.pc \in {"enqueue", "done"} =>
       y.ex \in Exchanges /\ (Gone(store[y.ex]) \/ store[y.ex].oid4vp.received)

(* The copy that the worker of n will commit.                                *)
LoadKept(n) ==
  LET w == worker[n] IN
  w.pc \notin {"off", "drain", "load"} =>
    Marked(w.snap) /\ (Gone(store[w.ex]) \/ Carried(w.snap, store[w.ex]))

GuardInv ==
  /\ \A e \in Exchanges : Marked(store[e])
  /\ \A d \in DirectPosts : ResponseKept(d)
  /\ \A n \in Replicas : LoadKept(n)

LEMMA InitGuard == Init => GuardInv
<1> SUFFICES ASSUME Init PROVE GuardInv
  OBVIOUS
<1>1. Marked(NotStored("none"))
  BY DEF Marked, NotStored, NoOid4vp, NoTask
<1>2. \A h \in Handlers : handler[h].pc = "idle"
  BY DEF Init, RestingHandler
<1>3. \A n \in Replicas : worker[n].pc = "off"
  BY DEF Init, RestingWorker
<1>4. DirectPosts \subseteq Handlers
  BY DEF Handlers, Requests
<1> QED BY <1>1, <1>2, <1>3, <1>4 DEF Init, GuardInv, ResponseKept, LoadKept

(* What the updates do to the request and its mark.                          *)
LEMMA VerdictKeepsMark ==
  ASSUME NEW x \in Exchange, NEW y, Verdict(x, y)
  PROVE  y.oid4vp = x.oid4vp /\ y.state # "none"
<1>1. ASSUME NEW r, y = ApplyVerificationResults(x, r)
      PROVE  y.oid4vp = x.oid4vp /\ y.state # "none"
  BY <1>1 DEF ApplyVerificationResults, Outcome, Exchange
<1>2. ASSUME NEW r, NEW id, y = WithSyncResultsAndQueuedVerifyTask(x, r, id)
      PROVE  y.oid4vp = x.oid4vp /\ y.state # "none"
  BY <1>2 DEF WithSyncResultsAndQueuedVerifyTask, ApplyVerificationResults, Exchange
<1> QED BY <1>1, <1>2 DEF Verdict

LEMMA SweptKeepsMark ==
  ASSUME NEW x \in Exchange, NEW y, Swept(x, y)
  PROVE  y.oid4vp = x.oid4vp /\ y.state # "none" /\ x.task.status # "none"
BY DEF Swept, Pending, Bumped, WithVerifyTask, GivenUp, Exchange

LEMMA GuardMoves ==
  ASSUME OneProcess, NobodyPresented, ProcessInv, GuardInv, [Next]_vars, NEW e \in Exchanges
  PROVE  Marked(store'[e]) /\ (Gone(store'[e]) \/ Carried(store[e], store'[e]))
<1> DEFINE x == store[e]
           y == store'[e]
<1>t. x \in Exchange /\ Marked(x)
  BY RecordsTyped DEF ProcessInv, GuardInv
<1>1. CASE y = x
  BY <1>1, <1>t DEF Carried, SameRequest
<1>2. CASE Created(x, y)
  BY <1>2, <1>t DEF Created, NewExchange, NotStored, NoTask, NoOid4vp, Marked, Carried, SameRequest
<1>3. CASE Expired(x, y)
  BY <1>3 DEF Expired, NotStored, NoTask, NoOid4vp, Marked, Gone
<1>4. CASE Opened(x, y)
  <2>1. y.oid4vp = x.oid4vp /\ y.task = x.task /\ y.state = "active"
    BY <1>4, <1>t DEF Opened, Exchange
  <2> QED BY <1>t, <2>1 DEF Marked, Carried, SameRequest
<1>5. CASE Readable(x) /\ Minted(x, y)
  <2>1. PICK g \in AuthRequests : y = EnsureOid4vpState(x, g)
    BY <1>5 DEF Minted
  <2>2. /\ y.oid4vp = [state |-> g, received |-> FALSE]
        /\ y.task = x.task /\ y.state = x.state /\ x.oid4vp.state = None
    BY <1>5, <1>t, <2>1 DEF Minted, NeedsOid4vpState, EnsureOid4vpState, Exchange
  <2>3. x.oid4vp.state = None /\ ~x.oid4vp.received /\ x.task.status = "none"
    BY <1>t, <2>2 DEF Marked
  <2>4. ~y.oid4vp.received
    BY <2>2
  <2> QED BY <1>5, <2>2, <2>3, <2>4 DEF Marked, Carried, SameRequest, Readable
<1>6. CASE Swept(x, y)
  BY <1>6, <1>t, SweptKeepsMark DEF Marked, Carried, SameRequest
<1>7. ASSUME NEW r \in Presenting, SavedBy(r, e)
      PROVE  Marked(y) /\ Carried(x, y)
  <2> DEFINE s == handler[r].snap
  <2>1. r \in DirectPosts /\ s \in Exchange /\ Verdict(s, y) /\ ~Gone(x)
        /\ handler[r].pc = "save" /\ handler[r].ex = e
    BY <1>7, RecordsTyped
       DEF ProcessInv, NobodyPresented, Presenting, Handlers, Requests, SavedBy
  <2>2. Marked(s) /\ SameRequest(s, x) /\ s.oid4vp.received
    BY <2>1 DEF GuardInv, ResponseKept
  <2>3. y.oid4vp = s.oid4vp /\ y.state # "none"
    BY <2>1, VerdictKeepsMark
  <2>4. s.oid4vp.state # None /\ x.oid4vp.state = s.oid4vp.state
    BY <2>2 DEF Marked, SameRequest
  <2> QED BY <2>2, <2>3, <2>4 DEF Marked, Carried, SameRequest
<1>8. ASSUME NEW n \in Replicas, MarkedBy(n, e) \/ SettledBy(n, e), ~Gone(x)
      PROVE  Marked(y) /\ Carried(x, y)
  <2> DEFINE w == worker[n]
             s == w.snap
  <2>1. /\ w.pc \in {"markSet", "commitSet"} /\ w.ex = e /\ s \in Exchange
        /\ Processable(s) /\ Readable(x)
    BY <1>8, RecordsTyped DEF ProcessInv, MarkedBy, SettledBy, CasMatches
  <2>2. Marked(s) /\ Carried(s, x) /\ s.oid4vp.received
    BY <1>8, <2>1 DEF GuardInv, LoadKept, Processable, Marked
  <2>3. s.oid4vp.state # None /\ x.oid4vp.state = s.oid4vp.state /\ x.oid4vp.received
    BY <2>2 DEF Marked, Carried, SameRequest
  <2>4. CASE MarkedBy(n, e)
    <3>1. y.oid4vp = x.oid4vp /\ y.state = x.state
      BY <1>t, <2>4 DEF MarkedBy, WithVerifyTask, Exchange
    <3> QED BY <2>1, <2>3, <3>1 DEF Marked, Carried, SameRequest, Readable
  <2>5. CASE SettledBy(n, e)
    <3>1. y.oid4vp = s.oid4vp /\ y.state # "none"
      BY <2>1, <2>5 DEF SettledBy, Settled, Outcome, Exchange
    <3> QED BY <2>2, <2>3, <3>1 DEF Marked, Carried, SameRequest
  <2> QED BY <1>8, <2>4, <2>5
<1>9. StoreMoves(e)
  BY NextMoves DEF ProcessInv
<1>10. ASSUME NEW n \in Replicas, MarkedBy(n, e) \/ SettledBy(n, e) PROVE ~Gone(x)
  BY <1>10 DEF MarkedBy, SettledBy, CasMatches, Readable, Gone
<1> QED BY <1>1, <1>2, <1>3, <1>4, <1>5, <1>6, <1>7, <1>8, <1>9, <1>10 DEF StoreMoves

LEMMA NextResponses ==
  ASSUME OneProcess, NobodyPresented, ProcessInv, GuardInv, [Next]_vars, NEW d \in DirectPosts
  PROVE  ResponseKept(d)'
<1> DEFINE h == handler[d]
           y == handler'[d]
<1>d. /\ d \in Handlers /\ d \in Presenting
      /\ d \notin Openers \cup Presenters \cup AuthRequests \cup Pollers
      /\ h \in Handler /\ HandlerAtWork(h) /\ KindFits(d, h.pc) /\ HandlerCurrent(d)
  BY ActorsAssumption, KindsAssumption
     DEF Handlers, Requests, Presenting, ProcessInv, TypeInv, TypeOK, AtWork, KindsFit, Current
<1>k. ResponseKept(d)
  BY DEF GuardInv
<1>g. \A e \in Exchanges : Marked(store[e]) /\ store[e] \in Exchange
  BY RecordsTyped DEF GuardInv, ProcessInv
<1>m. \A e \in Exchanges : Gone(store'[e]) \/ Carried(store[e], store'[e])
  BY GuardMoves
<1>e. \A e \in Exchanges : Gone(store[e]) => Gone(store'[e])
  <2> SUFFICES ASSUME NEW e \in Exchanges, Gone(store[e]) PROVE Gone(store'[e])
    OBVIOUS
  <2>1. StoreGoes(e)
    BY StoreSteps DEF ProcessInv
  <2> QED BY <2>1 DEF StoreGoes, Gone, Readable
<1>s. ASSUME NEW e \in Exchanges, NEW s, Gone(store[e]) \/ SameRequest(s, store[e])
      PROVE  Gone(store'[e]) \/ SameRequest(s, store'[e])
  BY <1>s, <1>m, <1>e DEF Carried, SameRequest
<1>0. HandlerGoes(d)
  BY <1>d, HandlerSteps DEF ProcessInv
<1>1. CASE y = h
  <2>1. h.pc \in {"body", "verify", "save", "enqueue", "done"} => h.ex \in Exchanges
    BY <1>d, <1>k DEF HandlerAtWork, ResponseKept
  <2> QED BY <1>1, <1>k, <1>m, <1>e, <1>s, <2>1 DEF ResponseKept, Carried
<1>2. CASE y.pc \in {"idle", "failed"}
  BY <1>2 DEF ResponseKept
<1>3. CASE y.pc = "done" /\ h.pc = "enqueue" /\ y.ex = h.ex /\ UNCHANGED store
  BY <1>3, <1>k DEF ResponseKept
<1>4. CASE Wrote(d, y)
  <2>1. h.pc = "save" /\ h.ex \in Exchanges /\ Put(h.ex, h.next)
        /\ y.pc \in {"enqueue", "done"} /\ y.ex = h.ex
    BY <1>4, <1>d DEF Wrote, KindFits, HandlerAtWork
  <2>2. h.next.oid4vp = h.snap.oid4vp /\ h.snap.oid4vp.received
    BY <1>d, <1>k, <2>1, VerdictKeepsMark DEF HandlerCurrent, ResponseKept, Handler
  <2>3. Gone(store'[h.ex]) \/ store'[h.ex] = h.next
    BY <2>1 DEF Put, Gone, ProcessInv, TypeInv, TypeOK
  <2> QED BY <2>1, <2>2, <2>3 DEF ResponseKept
<1>5. CASE UNCHANGED store /\ Arrived(d, y)
  <2>1. y.pc = "body" /\ y.ex \in Exchanges /\ y.snap = store[y.ex]
    BY <1>5, <1>d DEF Arrived
  <2> QED BY <1>5, <1>g, <2>1 DEF ResponseKept, SameRequest
<1>6. CASE UNCHANGED store /\ Taken(d, y)
  <2>1. h.pc = "body" /\ y.pc = "verify" /\ y.ex = h.ex
        /\ y.snap = ConsumeOid4vpResponse(h.snap)
    BY <1>6, <1>d DEF Taken, Handler
  <2>2. /\ y.snap.state = h.snap.state /\ y.snap.task = h.snap.task
        /\ y.snap.oid4vp.state = h.snap.oid4vp.state /\ y.snap.oid4vp.received
    BY <1>d, <2>1 DEF ConsumeOid4vpResponse, Handler, Exchange, Oid4vp
  <2>3. h.snap.oid4vp.state # None
    BY <1>6 DEF Taken, AcceptsOid4vpResponse
  <2>4. h.snap.state # "none"
    BY <1>k, <2>1, <2>3 DEF ResponseKept, Marked, NoOid4vp
  <2>5. Marked(y.snap)
    BY <2>2, <2>3, <2>4 DEF Marked
  <2> QED BY <1>6, <1>k, <2>1, <2>2, <2>5 DEF ResponseKept, SameRequest
<1>7. CASE UNCHANGED store /\ Judged(d, y)
  <2>1. h.pc = "verify" /\ y.pc = "save" /\ y.ex = h.ex /\ y.snap = h.snap
    BY <1>7, <1>d DEF Judged, Handler
  <2> QED BY <1>7, <1>k, <2>1 DEF ResponseKept
<1>8. ~Compared(d, y)
  BY <1>d DEF Compared, KindFits
<1> QED BY <1>0, <1>1, <1>2, <1>3, <1>4, <1>5, <1>6, <1>7, <1>8, <1>d DEF HandlerGoes

LEMMA NextLoads ==
  ASSUME OneProcess, NobodyPresented, ProcessInv, GuardInv, [Next]_vars, NEW n \in Replicas
  PROVE  LoadKept(n)'
<1> DEFINE v == worker[n]
           w == worker'[n]
<1>t. v \in Worker /\ WorkerAtWork(v)
  BY DEF ProcessInv, TypeInv, TypeOK, AtWork
<1>k. LoadKept(n)
  BY DEF GuardInv
<1>m. \A e \in Exchanges : Gone(store'[e]) \/ Carried(store[e], store'[e])
  BY GuardMoves
<1>e. \A e \in Exchanges : Gone(store[e]) => Gone(store'[e])
  <2> SUFFICES ASSUME NEW e \in Exchanges, Gone(store[e]) PROVE Gone(store'[e])
    OBVIOUS
  <2>1. StoreGoes(e)
    BY StoreSteps DEF ProcessInv
  <2> QED BY <2>1 DEF StoreGoes, Gone, Readable
<1>s. ASSUME v.pc \notin {"off", "drain", "load"}, w.snap = v.snap, w.ex = v.ex
      PROVE  LoadKept(n)'
  <2>1. v.ex \in Exchanges
    BY <1>s, <1>t DEF WorkerAtWork
  <2>2. Marked(v.snap) /\ (Gone(store[v.ex]) \/ Carried(v.snap, store[v.ex]))
    BY <1>s, <1>k DEF LoadKept
  <2>3. Gone(store'[v.ex]) \/ Carried(v.snap, store'[v.ex])
    BY <1>m, <1>e, <2>1, <2>2 DEF Carried, SameRequest
  <2> QED BY <1>s, <2>2, <2>3 DEF LoadKept
<1>0. WorkerGoes(n)
  BY WorkerSteps DEF ProcessInv
<1>1. CASE w = v
  <2>1. v.pc \in {"off", "drain", "load"} => LoadKept(n)'
    BY <1>1 DEF LoadKept
  <2> QED BY <1>1, <1>s, <2>1
<1>2. CASE w.pc \in {"off", "drain", "load"}
  BY <1>2 DEF LoadKept
<1>3. CASE UNCHANGED store /\ Loaded(n, w)
  <2>1. w.snap = store[v.ex] /\ w.ex = v.ex /\ v.ex \in Exchanges
    BY <1>3, <1>t DEF Loaded, Worker, WorkerAtWork
  <2> QED BY <1>3, <2>1 DEF LoadKept, GuardInv, Carried, SameRequest
<1>4. CASE Marking(n, w) \/ Checked(n, w) \/ Committing(n, w)
  <2>1. v.pc \notin {"off", "drain", "load"} /\ w.snap = v.snap /\ w.ex = v.ex
    BY <1>4, <1>t DEF Marking, Checked, Committing, Worker
  <2> QED BY <1>s, <2>1
<1>5. CASE v.pc \in {"mark", "markSet"} /\ w = Verifying(v)
  <2>1. w.snap = v.snap /\ w.ex = v.ex
    BY <1>5, <1>t DEF Verifying, Worker
  <2> QED BY <1>5, <1>s, <2>1
<1> QED BY <1>0, <1>1, <1>2, <1>3, <1>4, <1>5 DEF WorkerGoes

LEMMA NextGuard ==
  OneProcess /\ NobodyPresented /\ ProcessInv /\ GuardInv /\ [Next]_vars => GuardInv'
<1> SUFFICES ASSUME OneProcess, NobodyPresented, ProcessInv, GuardInv, [Next]_vars
             PROVE  GuardInv'
  OBVIOUS
<1>1. \A e \in Exchanges : Marked(store'[e])
  BY GuardMoves
<1>2. (\A d \in DirectPosts : ResponseKept(d))'
  BY NextResponses
<1>3. (\A n \in Replicas : LoadKept(n))'
  BY NextLoads
<1> QED BY <1>1, <1>2, <1>3 DEF GuardInv

(* A presenter that has begun never comes back to the start.                 *)
LEMMA NobodyBefore == TypeInv /\ [Next]_vars /\ NobodyPresented' => NobodyPresented
<1> SUFFICES ASSUME TypeInv, [Next]_vars, NobodyPresented', NEW r \in Presenters
             PROVE  handler[r].pc = "idle"
  BY DEF NobodyPresented
<1>1. r \in Handlers /\ r \in Requests /\ handler[r] \in Handler /\ handler'[r].pc = "idle"
  BY DEF Handlers, Requests, TypeInv, TypeOK, NobodyPresented
<1>2. HandlerGoes(r)
  BY <1>1, HandlerSteps
<1> QED BY <1>1, <1>2 DEF HandlerGoes, Wrote, Arrived, Taken, Judged, Compared, Handler

ReplayInv == ProcessInv /\ (NobodyPresented => GuardInv)

LEMMA InitReplay == Init => ReplayInv
BY InitProcess, InitGuard DEF ReplayInv

LEMMA NextReplay == OneProcess /\ ReplayInv /\ [Next]_vars => ReplayInv'
BY NextProcess, NextGuard, NobodyBefore DEF ReplayInv, ProcessInv

(* In process, a wallet's answered response is never forgotten while the     *)
(* exchange lives and nobody presents through VC-API: whatever sweep, worker *)
(* or further response saves after it carries its mark                       *)
(* (consumeOid4vpResponse, handleOid4vpResponse, saveExchange).              *)
THEOREM ResponseIsRemembered ==
  ASSUME OneProcess
  PROVE  Spec => [](NobodyPresented => ReplayGuardHolds)
<1>1. NobodyPresented /\ ReplayInv => ReplayGuardHolds
  BY DEF ReplayInv, GuardInv, ResponseKept, Gone, ReplayGuardHolds
<1> QED BY <1>1, InitReplay, NextReplay, PTL DEF Spec

-----------------------------------------------------------------------------
(* What keeps a further response out once one was answered, whoever presents *)
(* from then on: each copy that will be saved whole says that the token is   *)
(* consumed, and d has read such a copy or none.                             *)
Consumed(x) == x.oid4vp.received /\ x.oid4vp.state # None

Remembered(e) ==
  /\ Readable(store[e]) /\ Consumed(store[e])
  /\ \A r \in Presenting : handler[r].ex = e /\ handler[r].pc \in {"verify", "save"}
       => Consumed(handler[r].snap)
  /\ \A n \in Replicas : worker[n].ex = e /\ worker[n].pc \notin {"off", "drain", "load"}
       => Consumed(worker[n].snap)

LeftOut(d, e) ==
  LET y == handler[d] IN
  \/ y.pc \in {"idle", "failed"}
  \/ y.ex # e
  \/ y.pc = "body" /\ y.snap.oid4vp.received

LEMMA AnsweredRemembered ==
  ASSUME ReplayInv, NobodyPresented, NEW e \in Exchanges, NEW d \in DirectPosts, AnsweredFor(d, e)
  PROVE  Gone(store[e]) \/ Remembered(e)
<1> SUFFICES ASSUME ~Gone(store[e]) PROVE Remembered(e)
  OBVIOUS
<1>1. GuardInv /\ Current /\ Marked(store[e])
  BY DEF ReplayInv, ProcessInv, GuardInv
<1>2. Readable(store[e]) /\ Consumed(store[e])
  BY <1>1 DEF GuardInv, ResponseKept, AnsweredFor, Marked, NoOid4vp, Consumed, Readable, Gone
<1>3. ASSUME NEW r \in Presenting, handler[r].pc \in {"verify", "save"}
      PROVE  Consumed(handler[r].snap)
  <2>1. r \in DirectPosts
    BY <1>3 DEF Presenting, NobodyPresented
  <2> QED BY <1>1, <1>3, <2>1 DEF GuardInv, ResponseKept, Marked, Consumed
<1>4. ASSUME NEW n \in Replicas, worker[n].pc \notin {"off", "drain", "load"}
      PROVE  Consumed(worker[n].snap)
  BY <1>1, <1>4 DEF GuardInv, LoadKept, Current, WorkerCurrent, Processable, Marked, Consumed
<1> QED BY <1>2, <1>3, <1>4 DEF Remembered

LEMMA StoreRemembers ==
  ASSUME OneProcess, ProcessInv, [Next]_vars, NEW e \in Exchanges, Remembered(e)
  PROVE  Gone(store'[e]) \/ (Readable(store'[e]) /\ Consumed(store'[e]))
<1> DEFINE x == store[e]
           y == store'[e]
<1>t. x \in Exchange /\ Readable(x) /\ Consumed(x)
  BY RecordsTyped DEF ProcessInv, Remembered
<1>1. CASE y = x \/ Created(x, y) \/ Expired(x, y)
  BY <1>1, <1>t DEF Created, Expired, NotStored, Readable, Gone
<1>2. CASE Opened(x, y) \/ Minted(x, y)
  BY <1>2, <1>t DEF Opened, Minted, NeedsOid4vpState, Consumed, Readable, Exchange
<1>3. CASE Swept(x, y)
  <2>1. y.oid4vp = x.oid4vp /\ y.state # "none"
    BY <1>3, <1>t, SweptKeepsMark
  <2> QED BY <1>t, <2>1 DEF Consumed, Readable, Gone
<1>4. ASSUME NEW r \in Presenting, SavedBy(r, e)
      PROVE  Gone(y) \/ (Readable(y) /\ Consumed(y))
  <2>1. handler[r].snap \in Exchange /\ Verdict(handler[r].snap, y) /\ Consumed(handler[r].snap)
    BY <1>4, RecordsTyped
       DEF ProcessInv, Presenting, Handlers, Requests, SavedBy, Remembered
  <2>2. y.oid4vp = handler[r].snap.oid4vp /\ y.state # "none"
    BY <2>1, VerdictKeepsMark
  <2> QED BY <2>1, <2>2 DEF Consumed, Readable, Gone
<1>5. ASSUME NEW n \in Replicas, MarkedBy(n, e)
      PROVE  Readable(y) /\ Consumed(y)
  BY <1>5, <1>t DEF MarkedBy, WithVerifyTask, Consumed, Readable, Exchange
<1>6. ASSUME NEW n \in Replicas, SettledBy(n, e)
      PROVE  Readable(y) /\ Consumed(y)
  <2>1. worker[n].snap \in Exchange /\ Consumed(worker[n].snap)
    BY <1>6, RecordsTyped DEF ProcessInv, SettledBy, Remembered
  <2> QED BY <1>6, <2>1 DEF SettledBy, Settled, Outcome, Consumed, Readable, Exchange
<1>7. StoreMoves(e)
  BY NextMoves DEF ProcessInv
<1> QED BY <1>1, <1>2, <1>3, <1>4, <1>5, <1>6, <1>7 DEF StoreMoves

LEMMA NextRemembered ==
  ASSUME OneProcess, ProcessInv, [Next]_vars, NEW e \in Exchanges, Remembered(e)
  PROVE  Gone(store'[e]) \/ Remembered(e)'
<1>1. ASSUME NEW r \in Presenting, handler'[r].ex = e, handler'[r].pc \in {"verify", "save"}
      PROVE  Consumed(handler'[r].snap)
  <2> DEFINE h == handler[r]
             y == handler'[r]
  <2>1. r \in Handlers /\ r \notin AuthRequests /\ h \in Handler /\ HandlerGoes(r)
        /\ KindFits(r, h.pc)
    BY HandlerSteps, KindsAssumption
       DEF ProcessInv, TypeInv, TypeOK, KindsFit, Presenting, Handlers, Requests
  <2>2. \/ y = h
        \/ Arrived(r, y) /\ y.snap = store[e]
        \/ Taken(r, y)
        \/ Judged(r, y)
    BY <1>1, <2>1 DEF HandlerGoes, Wrote, Arrived, Compared, Handler
  <2>3. CASE Taken(r, y)
    <3>1. h.snap.oid4vp.state # None /\ y.snap = ConsumeOid4vpResponse(h.snap)
      BY <2>1, <2>3 DEF Taken, AcceptsOid4vpResponse, Handler
    <3> QED BY <2>1, <3>1 DEF ConsumeOid4vpResponse, Consumed, Handler, Exchange, Oid4vp
  <2>4. CASE Judged(r, y)
    <3>1. h.pc = "verify" /\ y.ex = h.ex /\ y.snap = h.snap
      BY <2>1, <2>4 DEF Judged, Handler
    <3> QED BY <1>1, <3>1 DEF Remembered
  <2> QED BY <1>1, <2>2, <2>3, <2>4 DEF Remembered
<1>2. ASSUME NEW n \in Replicas, worker'[n].ex = e, worker'[n].pc \notin {"off", "drain", "load"}
      PROVE  Consumed(worker'[n].snap)
  <2> DEFINE v == worker[n]
             w == worker'[n]
  <2>1. v \in Worker /\ WorkerGoes(n)
    BY WorkerSteps DEF ProcessInv, TypeInv, TypeOK
  <2>2. CASE Loaded(n, w)
    <3>1. w.ex = v.ex /\ w.snap = store[v.ex]
      BY <2>1, <2>2 DEF Loaded, Worker
    <3> QED BY <1>2, <3>1 DEF Remembered
  <2>3. CASE ~Loaded(n, w)
    <3>1. v.pc \notin {"off", "drain", "load"} /\ w.ex = v.ex /\ w.snap = v.snap
      BY <1>2, <2>1, <2>3 DEF WorkerGoes, Marking, Checked, Committing, Verifying, Worker
    <3> QED BY <1>2, <3>1 DEF Remembered
  <2> QED BY <2>2, <2>3
<1> QED BY <1>1, <1>2, StoreRemembers DEF Remembered

LEMMA NextLeftOut ==
  ASSUME ProcessInv, [Next]_vars, NEW e \in Exchanges, NEW d \in DirectPosts,
         Gone(store[e]) \/ Remembered(e), LeftOut(d, e)
  PROVE  LeftOut(d, e)'
<1> DEFINE h == handler[d]
           y == handler'[d]
<1>1. /\ d \in Handlers /\ d \notin Openers \cup Presenters \cup AuthRequests \cup Pollers
      /\ h \in Handler /\ KindFits(d, h.pc) /\ HandlerGoes(d)
  BY HandlerSteps, ActorsAssumption, KindsAssumption
     DEF ProcessInv, TypeInv, TypeOK, KindsFit, Handlers, Requests
<1>2. CASE y = h \/ y.pc \in {"idle", "failed"}
  BY <1>2 DEF LeftOut
<1>3. CASE Arrived(d, y)
  <2>1. y.pc = "body" /\ y.snap = store[y.ex] /\ Readable(y.snap)
    BY <1>1, <1>3 DEF Arrived
  <2> QED BY <2>1 DEF LeftOut, Remembered, Consumed, Readable, Gone
<1>4. CASE \/ Taken(d, y) \/ Judged(d, y)
           \/ Wrote(d, y)
           \/ y.pc = "done" /\ h.pc = "enqueue" /\ y.ex = h.ex
  <2>1. y.ex = h.ex /\ h.pc \notin {"idle", "failed"}
    BY <1>1, <1>4 DEF Taken, Judged, Wrote, Handler
  <2>2. ~(h.pc = "body" /\ h.snap.oid4vp.received)
    BY <1>4 DEF Taken, Judged, Wrote, AcceptsOid4vpResponse
  <2> QED BY <2>1, <2>2 DEF LeftOut
<1>5. ~Compared(d, y)
  BY <1>1 DEF Compared, KindFits
<1> QED BY <1>1, <1>2, <1>3, <1>4, <1>5 DEF HandlerGoes

(* In process, whoever presents from then on and whatever is lost: once a    *)
(* response was answered, one that begins later is refused, until the        *)
(* exchange expires and after (consumeOid4vpResponse, handleOid4vpResponse,  *)
(* saveExchange, processVerifyTask).                                         *)
THEOREM ReplaysRefused ==
  ASSUME OneProcess
  PROVE  Spec => ReplaysAreRefused
<1> SUFFICES ASSUME NEW e \in Exchanges, NEW d1 \in DirectPosts, NEW d2 \in DirectPosts
             PROVE  Spec => [](AnsweredFor(d1, e) /\ handler[d2].pc = "idle" /\ NobodyPresented
                                 => []~AnsweredFor(d2, e))
  BY DEF ReplaysAreRefused
<1> DEFINE Kept == (Gone(store[e]) \/ Remembered(e)) /\ LeftOut(d2, e)
<1>1. ReplayInv /\ AnsweredFor(d1, e) /\ handler[d2].pc = "idle" /\ NobodyPresented => Kept
  BY AnsweredRemembered DEF LeftOut
<1>2. ReplayInv /\ Kept /\ [Next]_vars => Kept'
  <2> SUFFICES ASSUME ReplayInv, Kept, [Next]_vars PROVE Kept'
    OBVIOUS
  <2>1. LeftOut(d2, e)'
    BY NextLeftOut DEF ReplayInv
  <2>2. CASE Gone(store[e])
    <3>1. StoreGoes(e)
      BY StoreSteps DEF ReplayInv, ProcessInv
    <3> QED BY <2>1, <2>2, <3>1 DEF StoreGoes, Gone, Readable
  <2>3. CASE Remembered(e)
    BY <2>1, <2>3, NextRemembered DEF ReplayInv
  <2> QED BY <2>2, <2>3
<1>3. Kept => ~AnsweredFor(d2, e)
  BY DEF LeftOut, AnsweredFor
<1> HIDE DEF Kept
<1> QED BY <1>1, <1>2, <1>3, InitReplay, NextReplay, PTL DEF Spec

-----------------------------------------------------------------------------
(***************************************************************************)
(* The state token stands, on any store and any number of replicas.        *)
(***************************************************************************)

Bears(x, g) == Readable(x) /\ x.oid4vp.state = g

(* What the updates do to the token of a record that can be read.            *)
LEMMA UpdatesKeepToken ==
  ASSUME NEW g \in AuthRequests, NEW x \in Exchange, Bears(x, g)
  PROVE  /\ \A y : Verdict(x, y) \/ Swept(x, y) => Bears(y, g)
         /\ Bears([x EXCEPT !.state = "active"], g) /\ Bears(ConsumeOid4vpResponse(x), g)
         /\ \A t : Bears(WithVerifyTask(x, t), g)
         /\ \A r : Bears(Settled(x, r), g)
         /\ ~NeedsOid4vpState(x)
<1>1. ASSUME NEW y, Verdict(x, y)
      PROVE  Bears(y, g)
  <2>1. ASSUME NEW r, y = ApplyVerificationResults(x, r)
        PROVE  Bears(y, g)
    BY <2>1 DEF ApplyVerificationResults, Outcome, Exchange, Bears, Readable
  <2>2. ASSUME NEW r, NEW id, y = WithSyncResultsAndQueuedVerifyTask(x, r, id)
        PROVE  Bears(y, g)
    BY <2>2 DEF WithSyncResultsAndQueuedVerifyTask, ApplyVerificationResults, Exchange,
                Bears, Readable
  <2> QED BY <1>1, <2>1, <2>2 DEF Verdict
<1>2. ASSUME NEW y, Swept(x, y)
      PROVE  Bears(y, g)
  BY <1>2 DEF Swept, Pending, Bumped, WithVerifyTask, GivenUp, Exchange, Bears, Readable
<1>3. Bears([x EXCEPT !.state = "active"], g) /\ Bears(ConsumeOid4vpResponse(x), g)
  BY DEF ConsumeOid4vpResponse, Exchange, Oid4vp, Bears, Readable
<1>4. (\A t : Bears(WithVerifyTask(x, t), g)) /\ \A r : Bears(Settled(x, r), g)
  BY DEF WithVerifyTask, Settled, Outcome, Exchange, Bears, Readable
<1>5. ~NeedsOid4vpState(x)
  BY NoneAssumption DEF NeedsOid4vpState, Bears
<1> QED BY <1>1, <1>2, <1>3, <1>4, <1>5

LEMMA CopiesBear ==
  ASSUME NEW e, NEW g, Standing(e, g)
  PROVE  /\ Bears(store[e], g)
         /\ \A h \in Handlers : handler[h].ex = e =>
              /\ handler[h].pc \in {"body", "verify", "save", "casGet", "casSet"} =>
                   Bears(handler[h].snap, g)
              /\ handler[h].pc \in {"save", "casGet", "casSet"} => Bears(handler[h].next, g)
         /\ \A n \in Replicas : worker[n].ex = e =>
              /\ worker[n].pc \in {"mark", "markSet", "verify", "failing", "commitSet"} =>
                   Bears(worker[n].snap, g)
              /\ worker[n].pc \in {"markSet", "commitSet"} => Bears(worker[n].next, g)
BY DEF Standing, Copies, Bears

LEMMA NextBears ==
  ASSUME TypeInv, [Next]_vars, NEW e \in Exchanges, NEW g \in AuthRequests, Standing(e, g)
  PROVE  Standing(e, g)' \/ Gone(store'[e])
<1> SUFFICES ASSUME ~Gone(store'[e]) PROVE Standing(e, g)'
  OBVIOUS
<1>s. Bears(store[e], g) /\ store[e] \in Exchange
  BY CopiesBear DEF TypeInv, TypeOK
<1>1. Bears(store'[e], g)
  <2>1. StoreGoes(e)
    BY StoreSteps
  <2> QED BY <1>s, <2>1, CopiesBear DEF StoreGoes, NotStored, Gone, Bears, Readable
<1>2. ASSUME NEW h \in Handlers, handler'[h].ex = e,
             handler'[h].pc \in {"body", "verify", "save", "casGet", "casSet"}
      PROVE  /\ Bears(handler'[h].snap, g)
             /\ handler'[h].pc \in {"save", "casGet", "casSet"} => Bears(handler'[h].next, g)
  <2> DEFINE x == handler[h]
             y == handler'[h]
  <2>1. x \in Handler /\ x.snap \in Exchange /\ HandlerGoes(h)
    BY HandlerSteps DEF TypeInv, TypeOK, Handler
  <2>2. y = x \/ Arrived(h, y) \/ Taken(h, y) \/ Judged(h, y) \/ Compared(h, y)
    BY <1>2, <2>1 DEF HandlerGoes, Wrote
  <2>3. CASE Arrived(h, y)
    <3>1. y.snap = store[e]
      BY <1>2, <2>3 DEF Arrived
    <3>2. y.pc \in {"save", "casGet", "casSet"} => Reread(h, y)
      BY <2>3 DEF Arrived
    <3> QED BY <1>s, <3>1, <3>2, UpdatesKeepToken DEF Reread
  <2>4. CASE Taken(h, y)
    <3>1. x.ex = e /\ x.pc = "body" /\ y.pc = "verify" /\ y.snap = ConsumeOid4vpResponse(x.snap)
      BY <1>2, <2>1, <2>4 DEF Taken, Handler
    <3>2. Bears(x.snap, g)
      BY <3>1, CopiesBear
    <3> QED BY <2>1, <3>1, <3>2, UpdatesKeepToken
  <2>5. CASE Judged(h, y)
    <3>1. x.ex = e /\ x.pc = "verify" /\ y.snap = x.snap /\ Verdict(x.snap, y.next)
      BY <1>2, <2>1, <2>5 DEF Judged, Handler
    <3>2. Bears(x.snap, g)
      BY <3>1, CopiesBear
    <3> QED BY <2>1, <3>1, <3>2, UpdatesKeepToken
  <2>6. CASE Compared(h, y)
    <3>1. x.ex = e /\ x.pc = "casGet" /\ y.snap = x.snap /\ y.next = x.next
      BY <1>2, <2>1, <2>6 DEF Compared, Handler
    <3> QED BY <3>1, CopiesBear
  <2>7. CASE y = x
    BY <1>2, <2>7, CopiesBear
  <2> QED BY <2>2, <2>3, <2>4, <2>5, <2>6, <2>7
<1>3. ASSUME NEW n \in Replicas, worker'[n].ex = e,
             worker'[n].pc \in {"mark", "markSet", "verify", "failing", "commitSet"}
      PROVE  /\ Bears(worker'[n].snap, g)
             /\ worker'[n].pc \in {"markSet", "commitSet"} => Bears(worker'[n].next, g)
  <2> DEFINE v == worker[n]
             w == worker'[n]
  <2>1. v \in Worker /\ v.snap \in Exchange /\ WorkerGoes(n)
    BY WorkerSteps DEF TypeInv, TypeOK, Worker
  <2>2. CASE Loaded(n, w)
    <3>1. w.pc = "mark" /\ w.snap = store[e]
      BY <1>3, <2>1, <2>2 DEF Loaded, Worker
    <3> QED BY <1>s, <3>1
  <2>3. CASE ~Loaded(n, w)
    <3>1. /\ v.pc \in {"mark", "markSet", "verify", "failing", "commitSet"}
          /\ v.ex = e /\ w.snap = v.snap
      BY <1>3, <2>1, <2>3 DEF WorkerGoes, Marking, Checked, Committing, Verifying, Worker
    <3>2. Bears(v.snap, g)
      BY <3>1, CopiesBear
    <3>3. ASSUME w.pc \in {"markSet", "commitSet"}
          PROVE  \/ w = v
                 \/ \E t : w.next = WithVerifyTask(store[e], t)
                 \/ w.next = Settled(v.snap, v.merged)
      BY <2>1, <2>3, <3>1, <3>3
         DEF WorkerGoes, Marking, Checked, Committing, Verifying, Worker
    <3> QED BY <1>s, <2>1, <3>1, <3>2, <3>3, UpdatesKeepToken, CopiesBear
  <2> QED BY <2>2, <2>3
<1> QED
  <2>1. /\ (\A h \in Handlers : handler[h].ex = e =>
              /\ handler[h].pc \in {"body", "verify", "save", "casGet", "casSet"} =>
                   Bears(handler[h].snap, g)
              /\ handler[h].pc \in {"save", "casGet", "casSet"} => Bears(handler[h].next, g))'
        /\ (\A n \in Replicas : worker[n].ex = e =>
              /\ worker[n].pc \in {"mark", "markSet", "verify", "failing", "commitSet"} =>
                   Bears(worker[n].snap, g)
              /\ worker[n].pc \in {"markSet", "commitSet"} => Bears(worker[n].next, g))'
    BY <1>2, <1>3
  <2> QED BY <1>1, <2>1 DEF Standing, Copies, Bears

(* Once every copy that somebody will still save bears the state token that  *)
(* a GET minted, the token stands until the exchange expires: whoever        *)
(* presents by whichever protocol, sweeps, verifies, fails or restarts, in   *)
(* process or over Redis (ensureOid4vpState, saveExchange,                   *)
(* saveExchangeWithCAS, processVerifyTask).                                  *)
THEOREM RequestStands == Spec => AuthorizationRequestStands
<1>1. TypeInv /\ [Next]_vars =>
        [\A e \in Exchanges, g \in AuthRequests :
           Standing(e, g) => Standing(e, g)' \/ store'[e].state = "expired"]_vars
  BY NextBears DEF Gone
<1> QED BY <1>1, InitTyped, NextTyped, PTL DEF Spec, AuthorizationRequestStands
=============================================================================
