--------------------------- MODULE InProcessProofs ---------------------------
(***************************************************************************)
(* Proofs about one process and a store that answers within the turn (the  *)
(* memory and file backends, no Redis): nothing comes between a get and    *)
(* the set that follows it, so a sweep and a worker write what they        *)
(* compared.  What is left to chance is who saves over whom across the     *)
(* awaits of the verifier, the faults and the expiry; with one             *)
(* presentation to an exchange the record goes through the phases that     *)
(* VerifyPromise describes.                                                *)
(***************************************************************************)
EXTENDS VerifyExchangeProofs

OneProcess == StoreYields = FALSE /\ \A m, n \in Replicas : m = n

Gone(x) == x.state = "expired"

-----------------------------------------------------------------------------
(* What one step does to a worker, to a record and to the event loop *)

(* The worker of n goes from v to the step after.                            *)
Loaded(n, w) ==
  LET v == worker[n] IN
  /\ v.pc = "load" /\ InTurn(n, n)
  /\ Processable(store[v.ex])
  /\ w = [v EXCEPT !.pc = "mark", !.snap = store[v.ex]]

Marking(n, w) ==
  LET v == worker[n] IN
  /\ v.pc = "mark" /\ InTurn(n, n)
  /\ CasMatches(v.ex, v.snap.task.attemptId)
  /\ w = [v EXCEPT !.pc = "markSet",
            !.next = WithVerifyTask(store[v.ex], MarkRunning(v.snap.task))]

Checked(n, w) ==
  LET v == worker[n] IN
  /\ v.pc = "verify"
  /\ \/ w = [v EXCEPT !.pc = "failing"]
     \/ \E i \in v.todo, verified \in BOOLEAN :
          w = [v EXCEPT !.todo = @ \ {i},
                 !.merged = MergeOpenBadgesResultsAt(v.merged, i, verified)]

Committing(n, w) ==
  LET v == worker[n] IN
  /\ InTurn(n, n) /\ CasMatches(v.ex, v.snap.task.attemptId)
  /\ \/ v.pc = "failing" /\ w = [v EXCEPT !.pc = "commitSet",
          !.next = WithVerifyTask(store[v.ex], MarkFailed(v.snap.task))]
     \/ v.pc = "verify" /\ v.todo = {} /\ w = [v EXCEPT !.pc = "commitSet",
          !.next = Settled(v.snap, v.merged)]

WorkerGoes(n) ==
  LET v == worker[n]
      w == worker'[n]
  IN
  \/ w = v
  \/ w.pc \in {"off", "drain"}
  \/ w.pc = "load" /\ v.pc = "drain" /\ InTurn(n, n)
  \/ UNCHANGED store /\ (Loaded(n, w) \/ Marking(n, w) \/ Checked(n, w) \/ Committing(n, w))
  \/ UNCHANGED store /\ v.pc = "mark" /\ w = Verifying(v)
  \/ Put(v.ex, v.next) /\ v.pc = "markSet" /\ w = Verifying(v)

(* Every step takes each worker one step on its way, or leaves it alone.     *)
LEMMA WorkerSteps == TypeInv /\ [Next]_vars => \A n \in Replicas : WorkerGoes(n)
<1> SUFFICES ASSUME TypeInv, [Next]_vars PROVE \A n \in Replicas : WorkerGoes(n)
  OBVIOUS
<1>t. worker \in [Replicas -> Worker]
  BY DEF TypeInv, TypeOK
<1>q. \A pc : RestingWorker(pc).pc = pc
  BY DEF RestingWorker
<1>o. ASSUME NEW m \in Replicas, NEW y, worker' = [worker EXCEPT ![m] = y],
             NEW n \in Replicas, n # m
      PROVE  WorkerGoes(n)
  BY <1>t, <1>o DEF WorkerGoes
<1>r. ASSUME NEW m \in Replicas, NEW pc \in {"off", "drain"},
             worker' = [worker EXCEPT ![m] = RestingWorker(pc)]
      PROVE  \A n \in Replicas : WorkerGoes(n)
  BY <1>t, <1>q, <1>r DEF WorkerGoes
<1>1. ASSUME NEW n \in Replicas, WorkerStep(n)
      PROVE  WorkerGoes(n)
  <2> DEFINE v == worker[n]
             w == worker'[n]
  <2>t. v \in Worker
    BY <1>t
  <2>1. CASE DrainNext(n)
    <3>1. w.pc = "load"
      BY <1>t, <2>1 DEF DrainNext, Worker
    <3> QED BY <2>1, <3>1 DEF DrainNext, WorkerGoes, InTurn
  <2>2. CASE DrainStop(n)
    BY <1>r, <2>2 DEF DrainStop
  <2>3. CASE WorkerLoad(n)
    BY <1>t, <1>q, <2>3 DEF WorkerLoad, WorkerGoes, Loaded, InTurn
  <2>4. CASE WorkerMarkGet(n)
    BY <1>t, <2>4 DEF WorkerMarkGet, WorkerGoes, Marking, InTurn
  <2>5. CASE WorkerMarkSet(n)
    BY <1>t, <2>5 DEF WorkerMarkSet, WorkerGoes
  <2>6. CASE WorkerVerify(n)
    BY <1>t, <2>6 DEF WorkerVerify, WorkerGoes, Checked
  <2>7. CASE WorkerCommitGet(n)
    BY <1>t, <1>q, <2>7 DEF WorkerCommitGet, WorkerGoes, Committing, InTurn
  <2>8. CASE WorkerCommitSet(n)
    BY <1>r, <2>8 DEF WorkerCommitSet
  <2> QED BY <1>1, <2>1, <2>2, <2>3, <2>4, <2>5, <2>6, <2>7, <2>8 DEF WorkerStep
<1>2. ASSUME NEW m \in Replicas, WorkerStep(m)
      PROVE  \A n \in Replicas : WorkerGoes(n)
  <2>1. \E y : worker' = [worker EXCEPT ![m] = y]
    BY <1>2 DEF WorkerStep, DrainNext, DrainStop, WorkerLoad, WorkerMarkGet, WorkerMarkSet,
                WorkerVerify, WorkerCommitGet, WorkerCommitSet
  <2> QED BY <1>o, <1>1, <1>2, <2>1
<1>3. ASSUME NEW m \in Replicas, WorkerStoreFault(m) \/ Crash(m)
      PROVE  \A n \in Replicas : WorkerGoes(n)
  BY <1>r, <1>3 DEF WorkerStoreFault, Crash
<1>4. ASSUME NEW h \in Handlers, EnqueueVerifyTask(h)
      PROVE  \A n \in Replicas : WorkerGoes(n)
  <2>1. handler[h].at \in Replicas
    BY <1>4 DEF EnqueueVerifyTask, TypeInv, AtWork, HandlerAtWork
  <2> QED BY <1>r, <1>4, <2>1 DEF EnqueueVerifyTask, Enqueued, WorkerGoes
<1>5. CASE worker' = worker
  BY <1>5 DEF WorkerGoes
<1>6. ASSUME NEW r \in Requests, RequestStep(r)
      PROVE  worker' = worker
  BY <1>6 DEF RequestStep, Post, PostEmpty, GetAuthorizationRequest, PostPresentation,
              PostDirectPost, HandleOid4vpResponse, PresentationVerified,
              PresentationRejected, SaveExchange
<1>7. ASSUME NEW p \in Pollers,
             (\E n \in Replicas, e \in Exchanges : SweepRead(p, n, e)) \/ PollerStep(p)
      PROVE  worker' = worker
  BY <1>7 DEF SweepRead, PollerStep, SweepCasGet, SweepCasSet
<1> QED
  BY <1>2, <1>3, <1>4, <1>5, <1>6, <1>7
     DEF Next, vars, CreateExchange, DeadlineLapses, Expire, HandlerStoreFault

(* Who writes the record of e, and what.                                     *)
StoreGoes(e) ==
  LET x == store[e]
      y == store'[e]
  IN
  \/ y = x
  \/ x.state = "none" /\ y = NewExchange /\ UNCHANGED <<handler, worker, turn>>
  \/ Readable(x) /\ y = NotStored("expired") /\ UNCHANGED <<handler, worker, turn>>
  \/ /\ x.state # "expired"
     /\ \/ \E h \in Handlers :
             /\ handler[h].pc \in {"save", "casSet"} /\ HasTurn(handler[h].at, h)
             /\ e = handler[h].ex /\ y = handler[h].next
             /\ handler'[h].pc \notin {"body", "verify", "save", "casGet", "casSet"}
        \/ \E n \in Replicas :
             /\ worker[n].pc \in {"markSet", "commitSet"} /\ HasTurn(n, n)
             /\ e = worker[n].ex /\ y = worker[n].next
             /\ worker'[n].pc \in {"verify", "drain"}

LEMMA StoreSteps == TypeInv /\ [Next]_vars => \A e \in Exchanges : StoreGoes(e)
<1> SUFFICES ASSUME TypeInv, [Next]_vars, NEW e \in Exchanges PROVE StoreGoes(e)
  OBVIOUS
<1>t. /\ store \in [Exchanges -> Exchange] /\ handler \in [Handlers -> Handler]
      /\ worker \in [Replicas -> Worker]
  BY DEF TypeInv, TypeOK
<1>p. ASSUME NEW f, NEW x, Put(f, x)
      PROVE  \/ store'[e] = store[e]
             \/ e = f /\ store[e].state # "expired" /\ store'[e] = x
  BY <1>t, <1>p DEF Put
<1>1. ASSUME NEW r \in Requests, SaveExchange(r)
      PROVE  StoreGoes(e)
  <2>1. r \in Handlers
    BY DEF Handlers
  <2>2. handler'[r].pc \in {"enqueue", "done"}
    <3>1. Answered(r).pc = "done" /\ [handler[r] EXCEPT !.pc = "enqueue"].pc = "enqueue"
      BY <1>t, <2>1 DEF Answered, RestingHandler, Handler
    <3> QED BY <1>t, <1>1, <2>1, <3>1 DEF SaveExchange, Finish, Over
  <2> QED BY <1>1, <1>p, <2>1, <2>2 DEF SaveExchange, StoreGoes
<1>2. ASSUME NEW p \in Pollers, SweepCasSet(p)
      PROVE  StoreGoes(e)
  <2>1. p \in Handlers /\ p \notin Requests
    BY ActorsAssumption DEF Handlers, Requests
  <2>2. handler'[p].pc \in {"enqueue", "idle"}
    <3>1. RestingHandler("idle").pc = "idle" /\ [handler[p] EXCEPT !.pc = "enqueue"].pc = "enqueue"
      BY <1>t, <2>1 DEF RestingHandler, Handler
    <3> QED BY <1>t, <1>2, <2>1, <3>1 DEF SweepCasSet, Finish, Over
  <2> QED BY <1>2, <1>p, <2>1, <2>2 DEF SweepCasSet, StoreGoes
<1>3. ASSUME NEW n \in Replicas, WorkerMarkSet(n) \/ WorkerCommitSet(n)
      PROVE  StoreGoes(e)
  <2>1. Verifying(worker[n]).pc = "verify" /\ RestingWorker("drain").pc = "drain"
    BY <1>t DEF Verifying, RestingWorker, Worker
  <2>2. worker'[n].pc \in {"verify", "drain"}
    BY <1>t, <1>3, <2>1 DEF WorkerMarkSet, WorkerCommitSet
  <2> QED BY <1>3, <1>p, <2>2 DEF WorkerMarkSet, WorkerCommitSet, StoreGoes
<1>4. ASSUME NEW f \in Exchanges, CreateExchange(f) \/ Expire(f)
      PROVE  StoreGoes(e)
  BY <1>4, <1>t, <1>p DEF CreateExchange, Expire, StoreGoes
<1>5. CASE store' = store
  BY <1>5 DEF StoreGoes
<1>6. ASSUME NEW r \in Requests, RequestStep(r), ~SaveExchange(r)
      PROVE  store' = store
  BY <1>6 DEF RequestStep, Post, PostEmpty, GetAuthorizationRequest, PostPresentation,
              PostDirectPost, HandleOid4vpResponse, PresentationVerified,
              PresentationRejected
<1>7. ASSUME NEW p \in Pollers, ~SweepCasSet(p),
             (\E n \in Replicas, f \in Exchanges : SweepRead(p, n, f)) \/ PollerStep(p)
      PROVE  store' = store
  BY <1>7 DEF SweepRead, PollerStep, SweepCasGet
<1>8. ASSUME NEW n \in Replicas, WorkerStep(n), ~(WorkerMarkSet(n) \/ WorkerCommitSet(n))
      PROVE  store' = store
  BY <1>8 DEF WorkerStep, DrainNext, DrainStop, WorkerLoad, WorkerMarkGet, WorkerVerify,
              WorkerCommitGet
<1>9. ASSUME NEW h \in Handlers, HandlerStoreFault(h)
      PROVE  StoreGoes(e)
  <2>1. handler'[h].pc \in {"failed", "idle"}
    BY <1>t, <1>9 DEF HandlerStoreFault, Fail, Over, RestingHandler
  <2> QED BY <1>5, <1>9, <1>p, <2>1 DEF HandlerStoreFault, StoreGoes
<1>10. ASSUME NEW n \in Replicas, WorkerStoreFault(n)
       PROVE  StoreGoes(e)
  <2>1. worker'[n].pc = "drain"
    BY <1>t, <1>10 DEF WorkerStoreFault, RestingWorker
  <2> QED BY <1>5, <1>10, <1>p, <2>1 DEF WorkerStoreFault, StoreGoes
<1> QED
  BY <1>1, <1>2, <1>3, <1>4, <1>5, <1>6, <1>7, <1>8, <1>9, <1>10
     DEF Next, vars, DeadlineLapses, EnqueueVerifyTask, Crash

(* Between a get and the set that follows it.                                *)
AtStore(y)       == y.pc \in {"save", "casGet", "casSet"}
WorkerAtStore(w) == w.pc \in {"load", "mark", "markSet", "commitSet"}

Away(a) ==
  /\ a \in Handlers => ~AtStore(handler'[a])
  /\ a \in Replicas => ~WorkerAtStore(worker'[a])

TurnGoes ==
  \/ turn' = turn
  \/ \E n \in Replicas, a \in Actors :
       HasTurn(n, a) /\ (Continue(n, a) \/ (Yield(n) /\ Away(a)))
  \/ \E n \in Replicas : Crash(n)

(* An actor that lets go of the event loop is not at the store.              *)
LEMMA TurnSteps == TypeInv /\ [Next]_vars => TurnGoes
<1> SUFFICES ASSUME TypeInv, [Next]_vars PROVE TurnGoes
  OBVIOUS
<1>t. /\ handler \in [Handlers -> Handler] /\ worker \in [Replicas -> Worker]
      /\ \A h \in Handlers : HandlerAtWork(handler[h])
  BY DEF TypeInv, TypeOK, AtWork
<1>a. /\ Handlers \cap Replicas = {} /\ Actors = Handlers \cup Replicas
      /\ Requests \subseteq Handlers /\ Pollers \subseteq Handlers
  BY ActorsAssumption DEF Handlers, Requests, Actors
<1>q. /\ \A pc : RestingHandler(pc).pc = pc /\ RestingWorker(pc).pc = pc
      /\ \A h : Answered(h).pc = "done"
  BY DEF RestingHandler, RestingWorker, Answered
<1>h. ASSUME NEW h \in Handlers, NEW n \in Replicas, HasTurn(n, h), Yield(n), NEW y,
             handler' = [handler EXCEPT ![h] = y],
             y.pc \in {"idle", "body", "verify", "enqueue", "done", "failed"}
      PROVE  TurnGoes
  BY <1>t, <1>a, <1>h DEF TurnGoes, Away, AtStore
<1>w. ASSUME NEW n \in Replicas, HasTurn(n, n), Yield(n), NEW w,
             worker' = [worker EXCEPT ![n] = w],
             w.pc \in {"off", "drain", "verify", "failing"}
      PROVE  TurnGoes
  BY <1>t, <1>a, <1>w DEF TurnGoes, Away, WorkerAtStore
<1>c. ASSUME NEW n \in Replicas, NEW a \in Handlers \cup Replicas, HasTurn(n, a), Continue(n, a)
      PROVE  TurnGoes
  BY <1>a, <1>c DEF TurnGoes
<1>o. ASSUME NEW h \in Handlers, Finish(h) \/ Fail(h), handler[h].at \in Replicas,
             HasTurn(handler[h].at, h), Yield(handler[h].at)
      PROVE  TurnGoes
  BY <1>h, <1>o, <1>q DEF Finish, Fail, Over
<1>p. \A pc : /\ \A h \in Handlers : [handler[h] EXCEPT !.pc = pc].pc = pc
              /\ \A n \in Replicas : [worker[n] EXCEPT !.pc = pc].pc = pc
  BY <1>t DEF Handler, Worker
<1>1. ASSUME NEW r \in Requests, RequestStep(r)
      PROVE  TurnGoes
  <2>r. r \in Handlers
    BY <1>a
  <2>1. ASSUME NEW n \in Replicas, NEW e \in Exchanges,
               \/ PostEmpty(r, n, e) \/ GetAuthorizationRequest(r, n, e)
               \/ PostPresentation(r, n, e) \/ PostDirectPost(r, n, e)
        PROVE  TurnGoes
    <3>1. HasTurn(n, r)
      BY <2>1 DEF PostEmpty, GetAuthorizationRequest, PostPresentation, PostDirectPost, Arrives
    <3>2. CASE Continue(n, r)
      BY <1>c, <2>r, <3>1, <3>2
    <3>3. CASE ~Continue(n, r)
      <4>1. PICK y : handler' = [handler EXCEPT ![r] = y] /\ y.pc \in {"body", "verify", "done"}
        BY <1>q, <2>1, <3>3
           DEF PostEmpty, GetAuthorizationRequest, PostPresentation, PostDirectPost, RestingHandler
      <4> QED BY <1>h, <2>1, <2>r, <3>1, <3>3, <4>1
              DEF PostEmpty, GetAuthorizationRequest, PostPresentation, PostDirectPost
    <3> QED BY <3>2, <3>3
  <2>2. ASSUME HandleOid4vpResponse(r)
        PROVE  TurnGoes
    <3> DEFINE y == [handler[r] EXCEPT !.pc = "verify",
                       !.snap = ConsumeOid4vpResponse(handler[r].snap)]
    <3>1. y.pc = "verify" /\ handler[r].at \in Replicas
      BY <1>t, <2>2, <2>r DEF Handler, HandleOid4vpResponse, HandlerAtWork
    <3> HIDE DEF y
    <3> QED BY <1>h, <1>o, <2>2, <2>r, <3>1 DEF HandleOid4vpResponse, y
  <2>3. ASSUME PresentationVerified(r)
        PROVE  TurnGoes
    <3>1. handler[r].at \in Replicas
      BY <1>t, <2>3, <2>r DEF PresentationVerified, HandlerAtWork
    <3> QED BY <1>c, <2>3, <2>r, <3>1 DEF PresentationVerified
  <2>4. ASSUME PresentationRejected(r) \/ SaveExchange(r)
        PROVE  TurnGoes
    <3>1. handler[r].at \in Replicas
      BY <1>t, <2>4, <2>r DEF PresentationRejected, SaveExchange, HandlerAtWork
    <3>2. CASE handler' = [handler EXCEPT ![r] = [handler[r] EXCEPT !.pc = "enqueue"]]
      <4> DEFINE y == [handler[r] EXCEPT !.pc = "enqueue"]
      <4>1. y.pc = "enqueue"
        BY <1>p, <2>r
      <4> QED BY <1>h, <1>o, <2>4, <2>r, <3>1, <3>2, <4>1 DEF PresentationRejected, SaveExchange
    <3> QED BY <1>o, <2>4, <2>r, <3>1, <3>2 DEF PresentationRejected, SaveExchange
  <2> QED BY <1>1, <2>1, <2>2, <2>3, <2>4 DEF RequestStep, Post
<1>2. ASSUME NEW p \in Pollers,
             (\E n \in Replicas, e \in Exchanges : SweepRead(p, n, e)) \/ PollerStep(p)
      PROVE  TurnGoes
  <2>p. p \in Handlers
    BY <1>a
  <2>1. PollerStep(p) => handler[p].at \in Replicas
    BY <1>t, <2>p DEF PollerStep, SweepCasGet, SweepCasSet, HandlerAtWork
  <2>2. ASSUME SweepCasGet(p)
        PROVE  TurnGoes
    BY <1>c, <1>o, <2>1, <2>2, <2>p DEF PollerStep, SweepCasGet
  <2>3. ASSUME SweepCasSet(p)
        PROVE  TurnGoes
    <3>1. CASE handler' = [handler EXCEPT ![p] = [handler[p] EXCEPT !.pc = "enqueue"]]
      <4> DEFINE y == [handler[p] EXCEPT !.pc = "enqueue"]
      <4>1. y.pc = "enqueue"
        BY <1>p, <2>p
      <4> QED BY <1>h, <2>1, <2>3, <2>p, <3>1, <4>1 DEF PollerStep, SweepCasSet
    <3> QED BY <1>o, <2>1, <2>3, <2>p, <3>1 DEF PollerStep, SweepCasSet
  <2>4. ASSUME NEW n \in Replicas, NEW e \in Exchanges, SweepRead(p, n, e)
        PROVE  TurnGoes
    BY <1>c, <2>4, <2>p DEF SweepRead
  <2> QED BY <1>2, <2>2, <2>3, <2>4 DEF PollerStep
<1>3. ASSUME NEW h \in Handlers, EnqueueVerifyTask(h) \/ HandlerStoreFault(h)
      PROVE  TurnGoes
  <2>1. handler[h].at \in Replicas
    BY <1>t, <1>3 DEF EnqueueVerifyTask, HandlerStoreFault, HandlerAtWork
  <2> QED BY <1>o, <1>3, <2>1 DEF EnqueueVerifyTask, HandlerStoreFault
<1>4. ASSUME NEW n \in Replicas, WorkerStep(n)
      PROVE  TurnGoes
  <2>1. ASSUME HasTurn(n, n), Continue(n, n)
        PROVE  TurnGoes
    BY <1>c, <2>1
  <2>2. CASE WorkerMarkSet(n) \/ WorkerMarkGet(n)
    <3>1. Verifying(worker[n]).pc = "verify"
      BY <1>t DEF Verifying, Worker
    <3> QED BY <1>w, <2>1, <2>2, <3>1 DEF WorkerMarkSet, WorkerMarkGet
  <2>3. CASE WorkerVerify(n)
    <3>1. CASE worker' = [worker EXCEPT ![n] = [worker[n] EXCEPT !.pc = "failing"]]
      <4> DEFINE w == [worker[n] EXCEPT !.pc = "failing"]
      <4>1. w.pc = "failing"
        BY <1>p
      <4> QED BY <1>w, <2>3, <3>1, <4>1 DEF WorkerVerify
    <3>2. ASSUME NEW i \in worker[n].todo, NEW v \in BOOLEAN,
                 worker' = [worker EXCEPT ![n] = [worker[n] EXCEPT !.todo = @ \ {i},
                   !.merged = MergeOpenBadgesResultsAt(worker[n].merged, i, v)]]
          PROVE  TurnGoes
      <4> DEFINE w == [worker[n] EXCEPT !.todo = @ \ {i},
                         !.merged = MergeOpenBadgesResultsAt(worker[n].merged, i, v)]
      <4>1. w.pc = "verify"
        BY <1>t, <2>3 DEF WorkerVerify, Worker
      <4> HIDE DEF w
      <4> QED BY <1>w, <2>3, <3>2, <4>1 DEF WorkerVerify, w
    <3> QED BY <2>3, <3>1, <3>2 DEF WorkerVerify
  <2>4. CASE DrainStop(n) \/ WorkerCommitSet(n)
    BY <1>q, <1>w, <2>4 DEF DrainStop, WorkerCommitSet
  <2>5. CASE DrainNext(n) \/ WorkerLoad(n) \/ WorkerCommitGet(n)
    BY <2>1, <2>5 DEF DrainNext, WorkerLoad, WorkerCommitGet
  <2> QED BY <1>4, <2>2, <2>3, <2>4, <2>5 DEF WorkerStep
<1>5. ASSUME NEW n \in Replicas, WorkerStoreFault(n)
      PROVE  TurnGoes
  BY <1>q, <1>w, <1>5 DEF WorkerStoreFault
<1>6. ASSUME NEW n \in Replicas, Crash(n)
      PROVE  TurnGoes
  BY <1>6 DEF TurnGoes
<1>7. CASE turn' = turn
  BY <1>7 DEF TurnGoes
<1> QED
  BY <1>1, <1>2, <1>3, <1>4, <1>5, <1>6, <1>7
     DEF Next, vars, CreateExchange, DeadlineLapses, Expire

-----------------------------------------------------------------------------
(* Nothing comes between a get and the set that follows it *)

TurnHeld ==
  /\ \A h \in Handlers : AtStore(handler[h]) => turn[handler[h].at] = h
  /\ \A n \in Replicas : WorkerAtStore(worker[n]) => turn[n] = n

LEMMA ActorsTyped ==
  /\ Handlers \cap Replicas = {} /\ Actors = Handlers \cup Replicas
  /\ None \notin Actors
BY ActorsAssumption, NoneAssumption DEF Handlers, Requests, Actors

LEMMA HandlerHolds ==
  ASSUME TypeInv, [Next]_vars, NEW h \in Handlers, AtStore(handler'[h])
  PROVE  \/ handler'[h] = handler[h]
         \/ InTurn(handler'[h].at, h)
<1>1. HandlerGoes(h) /\ handler[h] \in Handler
  BY HandlerSteps DEF TypeInv, TypeOK
<1> QED BY <1>1 DEF HandlerGoes, Wrote, Arrived, Taken, Judged, Compared, AtStore, Handler

LEMMA WorkerHolds ==
  ASSUME TypeInv, [Next]_vars, NEW n \in Replicas, WorkerAtStore(worker'[n])
  PROVE  worker'[n] = worker[n] \/ InTurn(n, n)
<1>1. WorkerGoes(n) /\ worker[n] \in Worker
  BY WorkerSteps DEF TypeInv, TypeOK
<1> QED
  BY <1>1 DEF WorkerGoes, Checked, Loaded, Marking, Committing, WorkerAtStore, Verifying, Worker

LEMMA NextHeld == OneProcess /\ TypeInv /\ TurnHeld /\ [Next]_vars => TurnHeld'
<1> SUFFICES ASSUME OneProcess, TypeInv, TurnHeld, [Next]_vars PROVE TurnHeld'
  OBVIOUS
<1>t. turn \in [Replicas -> Actors \cup {None}] /\ TypeInv'
  BY NextTyped DEF TypeInv, TypeOK
<1>1. ASSUME NEW n, NEW a, InTurn(n, a)
      PROVE  turn'[n] = a
  BY <1>1, <1>t DEF InTurn, Continue, OneProcess
(* b stays where it is, holding the loop.                                    *)
<1>2. ASSUME NEW n \in Replicas, NEW b \in Actors, turn[n] = b, ~Away(b), \A m \in Replicas : ~Crash(m)
      PROVE  turn'[n] = b
  <2>1. CASE turn' = turn
    BY <1>2, <2>1
  <2>2. ASSUME NEW m \in Replicas, NEW a \in Actors, HasTurn(m, a),
               Continue(m, a) \/ (Yield(m) /\ Away(a))
        PROVE  turn'[n] = b
    <3>1. m = n /\ a = b
      BY <1>2, <2>2, ActorsTyped DEF OneProcess, HasTurn
    <3> QED BY <1>2, <1>t, <2>2, <3>1 DEF Continue, OneProcess
  <2> QED BY <1>2, <2>1, <2>2, TurnSteps DEF TurnGoes
<1>3. ASSUME NEW h \in Handlers, AtStore(handler'[h])
      PROVE  turn'[handler'[h].at] = h
  <2>1. handler'[h].at \in Replicas
    BY <1>3, <1>t DEF TypeInv, AtWork, HandlerAtWork, AtStore
  <2>2. \A m \in Replicas : ~Crash(m)
    BY <1>3, <2>1 DEF Crash, RestingHandler, AtStore, OneProcess
  <2>3. CASE handler'[h] = handler[h]
    <3>1. turn[handler[h].at] = h /\ ~Away(h) /\ h \in Actors
      BY <1>3, <2>3, ActorsTyped DEF TurnHeld, Away
    <3> QED BY <1>2, <2>1, <2>2, <2>3, <3>1
  <2> QED BY <1>1, <1>3, <2>3, HandlerHolds
<1>4. ASSUME NEW n \in Replicas, WorkerAtStore(worker'[n])
      PROVE  turn'[n] = n
  <2>1. \A m \in Replicas : ~Crash(m)
    BY <1>4 DEF Crash, RestingWorker, WorkerAtStore, OneProcess, TypeInv, TypeOK
  <2>2. CASE worker'[n] = worker[n]
    <3>1. turn[n] = n /\ ~Away(n) /\ n \in Actors
      BY <1>4, <2>2, ActorsTyped DEF TurnHeld, Away
    <3> QED BY <1>2, <2>1, <3>1
  <2> QED BY <1>1, <1>4, <2>2, WorkerHolds
<1> QED BY <1>3, <1>4 DEF TurnHeld

(* Who has the turn finds nobody else at the store.                          *)
LEMMA Alone ==
  ASSUME OneProcess, TypeInv, TurnHeld, NEW n \in Replicas, NEW a \in Actors, HasTurn(n, a)
  PROVE  /\ \A h \in Handlers : AtStore(handler[h]) => h = a
         /\ \A m \in Replicas : WorkerAtStore(worker[m]) => m = a
<1>1. ASSUME NEW h \in Handlers, AtStore(handler[h])
      PROVE  h = a
  <2>1. handler[h].at \in Replicas
    BY <1>1 DEF TypeInv, AtWork, HandlerAtWork, AtStore
  <2>2. turn[n] = h
    BY <1>1, <2>1 DEF TurnHeld, OneProcess
  <2> QED BY <2>2, ActorsTyped DEF HasTurn
<1>2. ASSUME NEW m \in Replicas, WorkerAtStore(worker[m])
      PROVE  m = a
  <2>1. turn[n] = m
    BY <1>2 DEF TurnHeld, OneProcess
  <2> QED BY <2>1, ActorsTyped DEF HasTurn
<1> QED BY <1>1, <1>2

-----------------------------------------------------------------------------
(* What an actor is about to write is made of what is still there *)

HandlerCurrent(h) ==
  LET y == handler[h] IN
  /\ h \in Presenting /\ y.pc = "save" => Verdict(y.snap, y.next)
  /\ h \notin Presenting /\ AtStore(y) =>
       /\ Reread(h, y)
       /\ Gone(store[y.ex]) \/ (store[y.ex] = y.snap /\ Readable(y.snap))

WorkerCurrent(n) ==
  LET w == worker[n] IN
  /\ w.pc \notin {"off", "drain", "load"} => Processable(w.snap)
  /\ w.pc = "markSet" =>
       \/ Gone(store[w.ex])
       \/ /\ CasMatches(w.ex, w.snap.task.attemptId)
          /\ w.next = WithVerifyTask(store[w.ex], MarkRunning(w.snap.task))
  /\ w.pc = "commitSet" =>
       \/ Gone(store[w.ex])
       \/ /\ CasMatches(w.ex, w.snap.task.attemptId)
          /\ \/ w.next = WithVerifyTask(store[w.ex], MarkFailed(w.snap.task))
             \/ w.todo = {} /\ w.next = Settled(w.snap, w.merged)

Current ==
  /\ TurnHeld
  /\ \A h \in Handlers : HandlerCurrent(h)
  /\ \A n \in Replicas : WorkerCurrent(n)

(* While an actor stays at the store, nobody else writes.                    *)
LEMMA NobodyWrites ==
  ASSUME OneProcess, TypeInv, TurnHeld, [Next]_vars, NEW e \in Exchanges,
         \/ \E h \in Handlers : AtStore(handler[h]) /\ AtStore(handler'[h])
         \/ \E n \in Replicas : /\ worker[n].pc \in {"markSet", "commitSet"}
                                /\ worker'[n].pc \in {"markSet", "commitSet"}
  PROVE  store'[e] = store[e] \/ store[e].state = "none" \/ Gone(store'[e])
<1>1. StoreGoes(e)
  BY StoreSteps
<1>2. ASSUME NEW k \in Handlers, handler[k].pc \in {"save", "casSet"}, HasTurn(handler[k].at, k),
             handler'[k].pc \notin {"body", "verify", "save", "casGet", "casSet"}
      PROVE  FALSE
  <2>1. handler[k].at \in Replicas /\ k \in Actors
    BY <1>2, ActorsTyped DEF TypeInv, AtWork, HandlerAtWork
  <2> QED BY <1>2, <2>1, Alone, ActorsTyped DEF AtStore, WorkerAtStore
<1>3. ASSUME NEW m \in Replicas, worker[m].pc \in {"markSet", "commitSet"}, HasTurn(m, m),
             worker'[m].pc \in {"verify", "drain"}
      PROVE  FALSE
  BY <1>3, Alone, ActorsTyped DEF AtStore, WorkerAtStore
<1> QED BY <1>1, <1>2, <1>3 DEF StoreGoes, Gone, NotStored

LEMMA NextCurrent == OneProcess /\ TypeInv /\ KindsFit /\ Current /\ [Next]_vars => Current'
<1> SUFFICES ASSUME OneProcess, TypeInv, KindsFit, Current, [Next]_vars PROVE Current'
  OBVIOUS
<1>1. TurnHeld'
  BY NextHeld DEF Current
<1>2. ASSUME NEW h \in Handlers
      PROVE  HandlerCurrent(h)'
  <2> DEFINE y == handler'[h]
  <2>t. HandlerGoes(h) /\ handler[h] \in Handler /\ KindFits(h, handler[h].pc)
    BY HandlerSteps DEF KindsFit, TypeInv, TypeOK
  <2>e. AtStore(handler[h]) => handler[h].ex \in Exchanges
    BY DEF TypeInv, AtWork, HandlerAtWork, AtStore
  <2>k. ASSUME AtStore(handler[h]), AtStore(y), y.ex = handler[h].ex, y.snap = handler[h].snap,
               h \notin Presenting
        PROVE  Gone(store'[y.ex]) \/ (store'[y.ex] = y.snap /\ Readable(y.snap))
    <3>1. Gone(store[y.ex]) \/ (store[y.ex] = y.snap /\ Readable(y.snap))
      BY <1>2, <2>k DEF Current, HandlerCurrent
    <3>2. store'[y.ex] = store[y.ex] \/ store[y.ex].state = "none" \/ Gone(store'[y.ex])
      BY <1>2, <2>e, <2>k, NobodyWrites DEF Current
    <3> QED BY <3>1, <3>2 DEF Gone, Readable
  <2>1. CASE y = handler[h]
    BY <1>2, <2>1, <2>k DEF Current, HandlerCurrent
  <2>2. CASE y.pc \in {"idle", "failed", "done", "enqueue", "body", "verify"}
    BY <2>2 DEF HandlerCurrent, AtStore
  <2>3. CASE UNCHANGED store /\ Arrived(h, y)
    BY <2>3, KindsAssumption, ActorsAssumption
       DEF Arrived, HandlerCurrent, Presenting, Requests, AtStore
  <2>4. CASE Judged(h, y)
    <3>1. y.pc = "save" /\ y.snap = handler[h].snap /\ h \in Presenting
      BY <2>t, <2>4 DEF Judged, KindFits, Handler
    <3> QED BY <2>4, <3>1 DEF Judged, HandlerCurrent
  <2>5. CASE Compared(h, y)
    <3>1. /\ handler[h].pc = "casGet" /\ y.pc = "casSet" /\ y.snap = handler[h].snap
          /\ y.next = handler[h].next /\ y.ex = handler[h].ex
      BY <2>t, <2>5 DEF Compared, Handler
    <3>2. h \notin Presenting
      BY <2>t, <3>1, ActorsAssumption DEF KindFits, Presenting
    <3>3. Reread(h, handler[h])
      BY <1>2, <3>1, <3>2 DEF Current, HandlerCurrent, AtStore
    <3>4. Reread(h, y)
      BY <3>1, <3>3 DEF Reread
    <3> QED BY <2>k, <3>1, <3>2, <3>4 DEF HandlerCurrent, AtStore
  <2>6. CASE Taken(h, y)
    BY <2>2, <2>6, <2>t DEF Taken, Handler
  <2> QED BY <2>1, <2>2, <2>3, <2>4, <2>5, <2>6, <2>t DEF HandlerGoes, Wrote, Arrived
<1>3. ASSUME NEW n \in Replicas
      PROVE  WorkerCurrent(n)'
  <2> DEFINE v == worker[n]
             w == worker'[n]
  <2>t. WorkerGoes(n) /\ v \in Worker /\ WorkerAtWork(v) /\ WorkerCurrent(n)
    BY WorkerSteps DEF TypeInv, TypeOK, AtWork, Current
  <2>1. CASE w = v
    <3>1. v.pc \in {"markSet", "commitSet"} =>
            store'[v.ex] = store[v.ex] \/ store[v.ex].state = "none" \/ Gone(store'[v.ex])
      BY <1>3, <2>1, <2>t, NobodyWrites DEF Current, WorkerAtWork
    <3> QED BY <2>1, <2>t, <3>1 DEF WorkerCurrent, Gone, CasMatches, Readable
  <2>2. CASE w.pc \in {"off", "drain", "load"}
    BY <2>2 DEF WorkerCurrent
  <2>3. CASE Loaded(n, w)
    <3>1. w.pc = "mark" /\ Processable(w.snap)
      BY <2>3, <2>t DEF Loaded, Worker
    <3> QED BY <3>1 DEF WorkerCurrent
  <2>4. CASE UNCHANGED store /\ Marking(n, w)
    <3>1. /\ v.pc = "mark" /\ w.pc = "markSet" /\ w.snap = v.snap /\ w.ex = v.ex
          /\ w.next = WithVerifyTask(store[v.ex], MarkRunning(v.snap.task))
          /\ CasMatches(v.ex, v.snap.task.attemptId)
      BY <2>4, <2>t DEF Marking, Worker
    <3> QED BY <2>4, <2>t, <3>1 DEF WorkerCurrent, CasMatches
  <2>5. CASE Checked(n, w)
    <3>1. v.pc = "verify" /\ w.pc \in {"verify", "failing"} /\ w.snap = v.snap
      BY <2>5, <2>t DEF Checked, Worker
    <3> QED BY <2>t, <3>1 DEF WorkerCurrent
  <2>6. CASE UNCHANGED store /\ Committing(n, w)
    <3>1. /\ v.pc \in {"failing", "verify"} /\ w.pc = "commitSet" /\ w.snap = v.snap /\ w.ex = v.ex
          /\ w.todo = v.todo /\ w.merged = v.merged
          /\ CasMatches(v.ex, v.snap.task.attemptId)
          /\ \/ w.next = WithVerifyTask(store[v.ex], MarkFailed(v.snap.task))
             \/ v.todo = {} /\ w.next = Settled(v.snap, v.merged)
      BY <2>6, <2>t DEF Committing, Worker
    <3> QED BY <2>6, <2>t, <3>1 DEF WorkerCurrent, CasMatches
  <2>7. CASE v.pc \in {"mark", "markSet"} /\ w = Verifying(v)
    <3>1. w.pc = "verify" /\ w.snap = v.snap
      BY <2>7, <2>t DEF Verifying, Worker
    <3> QED BY <2>7, <2>t, <3>1 DEF WorkerCurrent
  <2> QED BY <2>1, <2>2, <2>3, <2>4, <2>5, <2>6, <2>7, <2>t DEF WorkerGoes
<1> QED BY <1>1, <1>2, <1>3 DEF Current

LEMMA InitCurrent == Init => Current
BY DEF Init, Current, TurnHeld, HandlerCurrent, WorkerCurrent, AtStore, WorkerAtStore,
       RestingHandler, RestingWorker

-----------------------------------------------------------------------------
(* What can happen to a record *)

Created(x, y) == x.state = "none" /\ y = NewExchange
Expired(x, y) == Readable(x) /\ y = NotStored("expired")
Opened(x, y)  == x.state = "pending" /\ y = [x EXCEPT !.state = "active"]
Minted(x, y)  == NeedsOid4vpState(x) /\ \E g \in AuthRequests : y = EnsureOid4vpState(x, g)

SavedBy(r, e) ==
  LET y == store'[e] IN
  /\ handler[r].pc = "save" /\ handler[r].ex = e /\ ~Gone(store[e])
  /\ y = handler[r].next /\ Verdict(handler[r].snap, y)
  /\ handler'[r].pc \notin {"body", "verify", "save"}

MarkedBy(n, e) ==
  LET w == worker[n]
      x == store[e]
      y == store'[e]
  IN
  /\ w.ex = e /\ CasMatches(e, w.snap.task.attemptId) /\ Processable(w.snap)
  /\ \/ w.pc = "markSet" /\ y = WithVerifyTask(x, MarkRunning(w.snap.task))
     \/ w.pc = "commitSet" /\ y = WithVerifyTask(x, MarkFailed(w.snap.task))

SettledBy(n, e) ==
  LET w == worker[n] IN
  /\ w.pc = "commitSet" /\ w.ex = e /\ w.todo = {}
  /\ CasMatches(e, w.snap.task.attemptId) /\ Processable(w.snap)
  /\ store'[e] = Settled(w.snap, w.merged)
  /\ worker'[n].pc = "drain"

StoreMoves(e) ==
  LET x == store[e]
      y == store'[e]
  IN
  \/ y = x \/ Created(x, y) \/ Expired(x, y)
  \/ Readable(x) /\ (Opened(x, y) \/ Minted(x, y) \/ Swept(x, y))
  \/ \E r \in Presenting : SavedBy(r, e)
  \/ \E n \in Replicas : MarkedBy(n, e) \/ SettledBy(n, e)

LEMMA NextMoves ==
  OneProcess /\ TypeInv /\ KindsFit /\ Current /\ [Next]_vars => \A e \in Exchanges : StoreMoves(e)
<1> SUFFICES ASSUME OneProcess, TypeInv, KindsFit, Current, [Next]_vars, NEW e \in Exchanges
             PROVE  StoreMoves(e)
  OBVIOUS
<1> DEFINE x == store[e]
           y == store'[e]
<1>1. CASE y = x \/ Created(x, y) \/ Expired(x, y)
  BY <1>1 DEF StoreMoves
<1>2. ASSUME NEW h \in Handlers, x.state # "expired",
             handler[h].pc \in {"save", "casSet"}, e = handler[h].ex, y = handler[h].next,
             handler'[h].pc \notin {"body", "verify", "save", "casGet", "casSet"}
      PROVE  StoreMoves(e)
  <2>1. HandlerCurrent(h) /\ KindFits(h, handler[h].pc)
    BY DEF Current, KindsFit
  <2>2. CASE h \in Presenting
    <3>1. handler[h].pc = "save"
      BY <1>2, <2>1, <2>2, ActorsAssumption DEF KindFits, Presenting
    <3> QED BY <1>2, <2>1, <2>2, <3>1 DEF HandlerCurrent, StoreMoves, SavedBy, Gone
  <2>3. CASE h \notin Presenting
    <3>1. Reread(h, handler[h]) /\ x = handler[h].snap /\ Readable(x)
      BY <1>2, <2>1, <2>3 DEF HandlerCurrent, AtStore, Gone
    <3> QED BY <1>2, <3>1 DEF Reread, StoreMoves, Opened, Minted
  <2> QED BY <2>2, <2>3
<1>3. ASSUME NEW n \in Replicas, x.state # "expired", worker[n].pc \in {"markSet", "commitSet"},
             e = worker[n].ex, y = worker[n].next, worker'[n].pc \in {"verify", "drain"}
      PROVE  StoreMoves(e)
  <2>1. WorkerCurrent(n) /\ WorkerGoes(n)
    BY WorkerSteps DEF Current
  <2>2. worker[n].pc = "commitSet" => worker'[n].pc = "drain"
    <3>1. worker[n] \in Worker
      BY DEF TypeInv, TypeOK
    <3> QED BY <1>3, <2>1, <3>1 DEF WorkerGoes, Loaded, Marking, Checked, Committing, Verifying, Worker
  <2> QED BY <1>3, <2>1, <2>2 DEF WorkerCurrent, StoreMoves, MarkedBy, SettledBy, Gone
<1>4. StoreGoes(e)
  BY StoreSteps
<1> QED BY <1>1, <1>2, <1>3, <1>4 DEF StoreGoes, Created, Expired

-----------------------------------------------------------------------------
(* One presentation to an exchange *)

Unjudged(x)  == x.state \in {"pending", "active"} /\ x.task = NoTask /\ x.results = NoResults
Undecided(x) == x.task.status \in {"queued", "running", "failed"}

UnderVerification(r) == handler[r].pc \in {"body", "verify", "save"}

(* Nobody presents to an exchange that was presented to, or while another    *)
(* presentation to it is being verified.                                     *)
PresentsOnce ==
  \A r \in Presenting : handler[r].pc = "idle" /\ handler'[r].pc # "idle" =>
    LET e == handler'[r].ex IN
    /\ Unjudged(store[e])
    /\ \A q \in Presenting : UnderVerification(q) => handler[q].ex # e

(* The records that the store then goes through: a task belongs to the       *)
(* results that were stored with it, and what is queued, running, failed or  *)
(* given up has not rechecked anything.                                      *)
Orderly(x) ==
  /\ x.state \in {"none", "expired"} => x = NotStored(x.state)
  /\ x.state = "pending" => x.task = NoTask
  /\ x.task.attemptId = None => x.task = NoTask
  /\ x.state = "active" => x.task = NoTask \/ Undecided(x)
  /\ x.state \in {"pending", "active"} /\ x.task = NoTask => x.results = NoResults
  /\ x.task.attemptId # None =>
       /\ x.task.status # "none"
       /\ x.task.badges = x.results.badges /\ x.results.badges # {}
       /\ x.results.badges \subseteq x.results.credentials
       /\ x.state \in {"active", "complete", "invalid"}
  /\ Undecided(x) \/ x.task.status = "gave-up" =>
       x.results.rechecked = {} /\ x.results.refuted = {}
  /\ Undecided(x) => x.state = "active" \/ (x.state = "invalid" /\ x.results.timedOut)
  /\ x.task.status = "gave-up" => x.state = "invalid" /\ x.results.timedOut
  /\ x.task.status = "succeeded" => x.state \in {"complete", "invalid"}

PresenterOrderly(r) ==
  UnderVerification(r) =>
    LET y == handler[r] IN
    Unjudged(y.snap) /\ (Gone(store[y.ex]) \/ Unjudged(store[y.ex]))

OnePresenter ==
  \A q, r \in Presenting :
    UnderVerification(q) /\ UnderVerification(r) /\ handler[q].ex = handler[r].ex => q = r

(* The pass on the record that the worker loaded.                            *)
PassOrderly(w) ==
  /\ Orderly(w.snap) /\ Undecided(w.snap)
  /\ w.pc \in {"verify", "failing", "commitSet"} =>
       /\ w.merged.badges = w.snap.results.badges
       /\ w.merged.credentials = w.snap.results.credentials
       /\ w.todo \subseteq w.snap.results.badges
       /\ w.merged.rechecked = w.snap.results.badges \ w.todo
       /\ w.merged.verified => w.merged.refuted = {}

WorkerOrderly(n) ==
  LET w == worker[n] IN
  w.pc \notin {"off", "drain", "load"} =>
    /\ PassOrderly(w)
    /\ CasMatches(w.ex, w.snap.task.attemptId) => store[w.ex].task.status # "succeeded"

OrderInv ==
  /\ \A e \in Exchanges : Orderly(store[e])
  /\ \A r \in Presenting : PresenterOrderly(r)
  /\ OnePresenter
  /\ \A n \in Replicas : WorkerOrderly(n)

LEMMA ConstantsOrderly ==
  /\ Orderly(NewExchange) /\ Orderly(NotStored("none")) /\ Orderly(NotStored("expired"))
BY DEF Orderly, NewExchange, NotStored, NoTask, NoResults, Undecided

LEMMA VerdictOrderly ==
  ASSUME NEW x \in Exchange, Unjudged(x), NEW y, Verdict(x, y)
  PROVE  Orderly(y) /\ y.task.status \in {"none", "queued"}
<1>1. ASSUME NEW p \in Presentations, NEW v \in BOOLEAN, p.badges = {},
             y = ApplyVerificationResults(x, SyncResults(p, v))
      PROVE  Orderly(y) /\ y.task.status = "none"
  <2>1. /\ y.state \in {"complete", "invalid"} /\ y.task = NoTask
    BY <1>1 DEF ApplyVerificationResults, Outcome, Unjudged, Exchange
  <2> QED BY <2>1 DEF Orderly, Undecided, NoTask
<1>2. ASSUME NEW p \in Presentations, NEW v \in BOOLEAN, p.badges # {}, NEW id \in AttemptIds,
             y = WithSyncResultsAndQueuedVerifyTask(x, SyncResults(p, v), id)
      PROVE  Orderly(y) /\ y.task.status = "queued"
  <2>1. /\ y.state = "active" /\ y.task = NewVerifyTask(id, SyncResults(p, v).badges)
        /\ y.results = SyncResults(p, v)
    BY <1>2 DEF WithSyncResultsAndQueuedVerifyTask, ApplyVerificationResults, Exchange
  <2>2. /\ y.results.badges = p.badges /\ y.results.credentials = p.credentials
        /\ y.results.rechecked = {} /\ y.results.refuted = {}
    BY <2>1 DEF SyncResults, NoResults
  <2>3. y.task.attemptId = id /\ y.task.status = "queued" /\ y.task.badges = p.badges
    BY <2>1, <2>2 DEF NewVerifyTask
  <2>4. y.task # NoTask /\ id # None
    BY <2>3, NoneAssumption DEF NoTask
  <2> QED BY <1>2, <2>1, <2>2, <2>3, <2>4, BadgesAssumption DEF Orderly, Undecided
<1> QED BY <1>1, <1>2 DEF Verdict

LEMMA ReadOrderly ==
  ASSUME NEW x \in Exchange, Orderly(x), Readable(x), NEW y,
         Opened(x, y) \/ Minted(x, y)
  PROVE  Orderly(y) /\ y.task = x.task /\ y.results = x.results
<1>1. CASE Opened(x, y)
  <2>1. y.state = "active" /\ y.task = x.task /\ y.results = x.results /\ x.state = "pending"
    BY <1>1 DEF Opened, Exchange
  <2> QED BY <2>1 DEF Orderly, Undecided, NoTask
<1>2. CASE Minted(x, y)
  <2>1. y.state = x.state /\ y.task = x.task /\ y.results = x.results
    BY <1>2 DEF Minted, EnsureOid4vpState, Exchange
  <2> QED BY <2>1 DEF Orderly, Undecided, Readable
<1> QED BY <1>1, <1>2

LEMMA SweptOrderly ==
  ASSUME NEW x \in Exchange, Orderly(x), NEW y, Swept(x, y)
  PROVE  Orderly(y) /\ y.task.status \in {"queued", "gave-up"}
<1>x. x.state = "active" /\ Undecided(x) /\ x.task # NoTask /\ x.task.attemptId # None
  BY DEF Swept, Pending, NoTask, Undecided, Orderly
<1>1. ASSUME NEW id \in AttemptIds, y = Bumped(x, id)
      PROVE  Orderly(y) /\ y.task.status = "queued"
  <2>1. /\ y.state = "active" /\ y.results = x.results /\ y.task.attemptId = id
        /\ y.task.status = "queued" /\ y.task.badges = x.task.badges
    BY <1>1, <1>x DEF Bumped, WithVerifyTask, BumpAttempt, Exchange, Task
  <2>2. id # None /\ y.task # NoTask
    BY <2>1, NoneAssumption DEF NoTask
  <2> QED BY <1>x, <2>1, <2>2 DEF Orderly, Undecided
<1>2. CASE y = GivenUp(x)
  <2>1. /\ y.state = "invalid" /\ y.task.attemptId = x.task.attemptId
        /\ y.task.status = "gave-up" /\ y.task.badges = x.task.badges
        /\ y.results = AppendTimeout(x.results)
    BY <1>2 DEF GivenUp, MarkGaveUp, Exchange, Task
  <2>2. /\ y.results.timedOut /\ y.results.badges = x.results.badges
        /\ y.results.credentials = x.results.credentials
        /\ y.results.rechecked = x.results.rechecked /\ y.results.refuted = x.results.refuted
    BY <2>1 DEF AppendTimeout, Exchange, Results
  <2> QED BY <1>x, <2>1, <2>2 DEF Orderly, Undecided
<1> QED BY <1>1, <1>2 DEF Swept

LEMMA MarkedOrderly ==
  ASSUME NEW x \in Exchange, Orderly(x), NEW t \in Task, t.attemptId = x.task.attemptId,
         t.badges = x.task.badges, t.attemptId # None, x.task.status # "succeeded",
         NEW y, y \in {WithVerifyTask(x, MarkRunning(t)), WithVerifyTask(x, MarkFailed(t))}
  PROVE  /\ Orderly(y) /\ y.state = x.state /\ y.results = x.results
         /\ y.task.status \in {"running", "failed"} /\ y.task.attempt = t.attempt
         /\ y.task.attemptId = t.attemptId
         /\ x.state = "active" \/ (x.state = "invalid" /\ x.results.timedOut)
         /\ x.results.rechecked = {}
<1>1. /\ y.state = x.state /\ y.results = x.results /\ y.task.attemptId = t.attemptId
      /\ y.task.status \in {"running", "failed"} /\ y.task.badges = t.badges
      /\ y.task.attempt = t.attempt
  BY DEF WithVerifyTask, MarkRunning, MarkFailed, Exchange, Task
<1>2. Undecided(x) \/ x.task.status = "gave-up"
  BY DEF Orderly, Undecided, Exchange, Task, TaskStatus
<1> QED BY <1>1, <1>2 DEF Orderly, Undecided, NoTask

LEMMA SettledOrderly ==
  ASSUME NEW w \in Worker, PassOrderly(w), w.pc = "commitSet", w.todo = {},
         NEW y, y = Settled(w.snap, w.merged)
  PROVE  /\ Orderly(y) /\ y.state \in {"complete", "invalid"}
         /\ y.task.attempt = w.snap.task.attempt /\ y.task.attemptId = w.snap.task.attemptId
         /\ y.task.status = "succeeded"
         /\ y.results.badges = w.snap.task.badges /\ y.results.rechecked = w.snap.task.badges
         /\ w.snap.task.badges # {}
         /\ y.state = "complete" => y.results.refuted = {}
<1>1. w.snap \in Exchange /\ w.snap.task \in Task
  BY DEF Worker, Exchange
<1>2. /\ y.state = Outcome(w.merged) /\ y.results = w.merged
      /\ y.task.attemptId = w.snap.task.attemptId /\ y.task.attempt = w.snap.task.attempt
      /\ y.task.status = "succeeded" /\ y.task.badges = w.snap.task.badges
  BY <1>1 DEF Settled, MarkSucceeded, Exchange, Task
<1>3. w.snap.task.attemptId # None
  BY DEF PassOrderly, Orderly, Undecided, NoTask
<1>4. w.snap.task.badges = w.snap.results.badges /\ w.snap.task.badges # {}
  BY <1>3 DEF PassOrderly, Orderly
<1> QED BY <1>2, <1>3, <1>4 DEF PassOrderly, Orderly, Undecided, Outcome

(* What the worker marks is a record of the attempt that it works on.        *)
LEMMA SameAttempt ==
  ASSUME TypeInv, RecordsCoherent, OrderInv, NEW n \in Replicas, NEW e \in Exchanges,
         MarkedBy(n, e) \/ SettledBy(n, e)
  PROVE  LET x == store[e]
             t == worker[n].snap.task
         IN /\ x \in Exchange /\ t \in Task /\ worker[n].snap \in Exchange
            /\ Orderly(x) /\ PassOrderly(worker[n]) /\ Readable(x)
            /\ t.attemptId = x.task.attemptId /\ t.badges = x.task.badges
            /\ t.attempt = x.task.attempt
            /\ t.attemptId # None /\ x.task.status # "succeeded"
<1>1. /\ store[e] \in Exchange /\ worker[n].snap \in Exchange
      /\ store[e] \in Records /\ worker[n].snap \in Records
  BY RecordsTyped
<1>2. /\ worker[n].pc \notin {"off", "drain", "load"} /\ worker[n].ex = e
      /\ CasMatches(e, worker[n].snap.task.attemptId)
  BY DEF MarkedBy, SettledBy
<1>3. PassOrderly(worker[n]) /\ store[e].task.status # "succeeded" /\ Orderly(store[e])
  BY <1>2 DEF OrderInv, WorkerOrderly
<1>4. worker[n].snap.task.attemptId # None
  BY <1>3 DEF PassOrderly, Orderly, Undecided, NoTask
<1>5. SameTask(store[e], worker[n].snap)
  BY <1>1 DEF RecordsCoherent
<1> QED BY <1>1, <1>2, <1>3, <1>4, <1>5 DEF CasMatches, SameTask, Exchange

LEMMA NextRecordOrderly ==
  ASSUME TypeInv, RecordsCoherent, OrderInv, NEW e \in Exchanges, StoreMoves(e)
  PROVE  /\ Orderly(store'[e])
         /\ store'[e].task.status = "succeeded" =>
              \/ store'[e].task = store[e].task /\ (Readable(store'[e]) => Readable(store[e]))
              \/ \E n \in Replicas : SettledBy(n, e)
<1> DEFINE x == store[e]
           y == store'[e]
<1>x. x \in Exchange /\ Orderly(x)
  BY RecordsTyped DEF OrderInv
<1>1. CASE y = x
  BY <1>x, <1>1
<1>2. CASE Created(x, y) \/ Expired(x, y)
  <2>1. y.task = NoTask /\ Orderly(y)
    BY <1>2, ConstantsOrderly DEF Created, Expired, NewExchange, NotStored
  <2> QED BY <2>1 DEF NoTask
<1>3. CASE Readable(x) /\ (Opened(x, y) \/ Minted(x, y))
  BY <1>x, <1>3, ReadOrderly
<1>4. CASE Swept(x, y)
  BY <1>x, <1>4, SweptOrderly
<1>5. ASSUME NEW r \in Presenting, SavedBy(r, e)
      PROVE  Orderly(y) /\ y.task.status # "succeeded"
  <2>1. Unjudged(handler[r].snap)
    BY <1>5 DEF SavedBy, OrderInv, PresenterOrderly, UnderVerification
  <2>2. handler[r].snap \in Exchange
    <3>1. r \in Handlers
      BY DEF Presenting, Handlers, Requests
    <3> QED BY <3>1, RecordsTyped
  <2> QED BY <1>5, <2>1, <2>2, VerdictOrderly DEF SavedBy
<1>6. ASSUME NEW n \in Replicas, MarkedBy(n, e)
      PROVE  Orderly(y) /\ y.task.status # "succeeded"
  BY <1>6, SameAttempt, MarkedOrderly DEF MarkedBy
<1>7. ASSUME NEW n \in Replicas, SettledBy(n, e)
      PROVE  Orderly(y)
  <2>1. worker[n] \in Worker
    BY DEF TypeInv, TypeOK
  <2> QED BY <1>7, <2>1, SameAttempt, SettledOrderly DEF SettledBy
<1> QED BY <1>1, <1>2, <1>3, <1>4, <1>5, <1>6, <1>7 DEF StoreMoves

(* An exchange that nobody has presented to stays so until somebody does.    *)
LEMMA UnjudgedKept ==
  ASSUME TypeInv, RecordsCoherent, OrderInv, NEW e \in Exchanges, StoreMoves(e),
         Gone(store[e]) \/ Unjudged(store[e])
  PROVE  \/ Gone(store'[e]) \/ Unjudged(store'[e])
         \/ \E r \in Presenting : SavedBy(r, e)
<1> DEFINE x == store[e]
           y == store'[e]
<1>x. x \in Exchange /\ Orderly(x)
  BY RecordsTyped DEF OrderInv
<1>1. CASE y = x
  BY <1>1
<1>2. CASE Created(x, y) \/ Expired(x, y)
  BY <1>2 DEF Created, Expired, NotStored, Gone, Unjudged
<1>3. CASE Readable(x) /\ (Opened(x, y) \/ Minted(x, y))
  <2>1. y.state \in {"active", x.state}
    BY <1>x, <1>3 DEF Opened, Minted, EnsureOid4vpState, Exchange
  <2> QED BY <1>x, <1>3, <2>1, ReadOrderly DEF Gone, Unjudged, Readable
<1>4. CASE Swept(x, y)
  BY <1>4 DEF Swept, Pending, Gone, Unjudged, NoTask
<1>5. ASSUME NEW n \in Replicas, MarkedBy(n, e) \/ SettledBy(n, e)
      PROVE  FALSE
  BY <1>5, SameAttempt DEF Readable, Gone, Unjudged, NoTask
<1> QED BY <1>1, <1>2, <1>3, <1>4, <1>5 DEF StoreMoves

(* No two requests arrive at once.                                           *)
LEMMA OneArrives ==
  ASSUME TypeInv, [Next]_vars, NEW k \in Handlers, NEW l \in Handlers,
         handler[k].pc = "idle" /\ handler'[k].pc \notin {"idle", "failed"},
         handler[l].pc = "idle" /\ handler'[l].pc \notin {"idle", "failed"}
  PROVE  k = l
<1>t. handler \in [Handlers -> Handler]
  BY DEF TypeInv, TypeOK
<1>o. ASSUME NEW h \in Handlers, NEW y, handler' = [handler EXCEPT ![h] = y]
      PROVE  k = l
  BY <1>o, <1>t
<1>f. ASSUME NEW h \in Handlers, Finish(h) \/ Fail(h)
      PROVE  k = l
  BY <1>f, <1>o DEF Finish, Fail, Over
<1>1. ASSUME NEW r \in Requests, RequestStep(r)
      PROVE  k = l
  <2>1. r \in Handlers
    BY DEF Handlers
  <2>2. CASE Post(r)
    <3>1. \E y : handler' = [handler EXCEPT ![r] = y]
      BY <2>2 DEF Post, PostEmpty, GetAuthorizationRequest, PostPresentation, PostDirectPost
    <3> QED BY <1>o, <2>1, <3>1
  <2>3. CASE HandleOid4vpResponse(r) \/ PresentationVerified(r)
    <3>1. Fail(r) \/ \E y : handler' = [handler EXCEPT ![r] = y]
      BY <2>3 DEF HandleOid4vpResponse, PresentationVerified
    <3> QED BY <1>f, <1>o, <2>1, <3>1
  <2>4. CASE PresentationRejected(r) \/ SaveExchange(r)
    BY <1>f, <1>o, <2>1, <2>4 DEF PresentationRejected, SaveExchange
  <2> QED BY <1>1, <2>2, <2>3, <2>4 DEF RequestStep
<1>2. ASSUME NEW p \in Pollers,
             (\E n \in Replicas, e \in Exchanges : SweepRead(p, n, e)) \/ PollerStep(p)
      PROVE  k = l
  <2>1. p \in Handlers
    BY DEF Handlers
  <2>2. Finish(p) \/ \E y : handler' = [handler EXCEPT ![p] = y]
    BY <1>2 DEF SweepRead, PollerStep, SweepCasGet, SweepCasSet
  <2> QED BY <1>f, <1>o, <2>1, <2>2
<1>3. ASSUME NEW h \in Handlers, EnqueueVerifyTask(h) \/ HandlerStoreFault(h)
      PROVE  k = l
  BY <1>f, <1>3 DEF EnqueueVerifyTask, HandlerStoreFault
<1>4. ASSUME NEW n \in Replicas, Crash(n)
      PROVE  k = l
  BY <1>4 DEF Crash, RestingHandler
<1>5. CASE handler' = handler
  BY <1>5
<1>6. ASSUME NEW n \in Replicas, WorkerStep(n)
      PROVE  handler' = handler
  BY <1>6 DEF WorkerStep, DrainNext, DrainStop, WorkerLoad, WorkerMarkGet, WorkerMarkSet,
              WorkerVerify, WorkerCommitGet, WorkerCommitSet
<1> QED
  BY <1>1, <1>2, <1>3, <1>4, <1>5, <1>6
     DEF Next, vars, CreateExchange, DeadlineLapses, Expire, WorkerStoreFault

LEMMA NextPresenters ==
  ASSUME OneProcess, TypeInv, KindsFit, RecordsCoherent, Current, OrderInv, [Next]_vars,
         [PresentsOnce]_vars
  PROVE  (\A r \in Presenting : PresenterOrderly(r))' /\ OnePresenter'
<1>h. \A r \in Presenting : /\ r \in Handlers /\ handler[r] \in Handler /\ HandlerGoes(r)
                            /\ KindFits(r, handler[r].pc)
                            /\ UnderVerification(r) => handler[r].ex \in Exchanges
  <2>1. Presenting \subseteq Handlers
    BY DEF Presenting, Handlers, Requests
  <2> QED BY <2>1, HandlerSteps DEF TypeInv, TypeOK, AtWork, HandlerAtWork, KindsFit, UnderVerification
(* A presenter comes, goes, or goes on with what it had.                     *)
<1>1. ASSUME NEW r \in Presenting, UnderVerification(r)'
      PROVE  \/ /\ handler[r].pc = "idle" /\ handler'[r].pc # "idle" /\ PresentsOnce
                /\ store'[handler'[r].ex] = store[handler'[r].ex]
                /\ handler'[r].snap = store[handler'[r].ex]
             \/ /\ UnderVerification(r) /\ handler'[r].ex = handler[r].ex
                /\ Unjudged(handler[r].snap) => Unjudged(handler'[r].snap)
  <2> DEFINE x == handler[r]
             y == handler'[r]
  <2>1. CASE y = x
    BY <1>1, <2>1 DEF UnderVerification
  <2>2. CASE UNCHANGED store /\ Arrived(r, y)
    <3>1. PresentsOnce
      BY <1>1, <2>2 DEF Arrived, vars, UnderVerification
    <3> QED BY <1>1, <2>2, <3>1 DEF Arrived, UnderVerification
  <2>3. CASE Taken(r, y)
    <3>1. y.snap = ConsumeOid4vpResponse(x.snap) /\ y.ex = x.ex /\ x.snap \in Exchange
      BY <1>h, <2>3 DEF Taken, Handler
    <3>2. y.snap.state = x.snap.state /\ y.snap.task = x.snap.task /\ y.snap.results = x.snap.results
      BY <3>1 DEF ConsumeOid4vpResponse, Exchange
    <3> QED BY <2>3, <3>1, <3>2 DEF Taken, UnderVerification, Unjudged
  <2>4. CASE Judged(r, y)
    BY <1>h, <2>4 DEF Judged, Handler, UnderVerification
  <2>5. ~Compared(r, y)
    BY <1>h, <1>1 DEF Compared, Handler, UnderVerification
  <2> QED BY <1>1, <1>h, <2>1, <2>2, <2>3, <2>4, <2>5 DEF HandlerGoes, Wrote, UnderVerification
<1>m. \A e \in Exchanges : StoreMoves(e)
  BY NextMoves
<1>2. ASSUME NEW r \in Presenting
      PROVE  PresenterOrderly(r)'
  <2> SUFFICES ASSUME UnderVerification(r)'
               PROVE  /\ Unjudged(handler'[r].snap)
                      /\ Gone(store'[handler'[r].ex]) \/ Unjudged(store'[handler'[r].ex])
    BY DEF PresenterOrderly
  <2>1. CASE /\ handler[r].pc = "idle" /\ handler'[r].pc # "idle" /\ PresentsOnce
             /\ store'[handler'[r].ex] = store[handler'[r].ex]
             /\ handler'[r].snap = store[handler'[r].ex]
    BY <2>1 DEF PresentsOnce
  <2>2. CASE /\ UnderVerification(r) /\ handler'[r].ex = handler[r].ex
             /\ Unjudged(handler[r].snap) => Unjudged(handler'[r].snap)
    <3> DEFINE e == handler[r].ex
    <3>1. e \in Exchanges /\ Unjudged(handler[r].snap) /\ (Gone(store[e]) \/ Unjudged(store[e]))
      BY <1>h, <2>2 DEF OrderInv, PresenterOrderly
    <3>2. ASSUME NEW q \in Presenting, SavedBy(q, e)
          PROVE  FALSE
      <4>1. q = r
        BY <2>2, <3>2 DEF OrderInv, OnePresenter, SavedBy, UnderVerification
      <4> QED BY <3>2, <4>1 DEF SavedBy, UnderVerification
    <3>3. Gone(store'[e]) \/ Unjudged(store'[e])
      BY <1>m, <3>1, <3>2, UnjudgedKept
    <3> QED BY <2>2, <3>1, <3>3
  <2> QED BY <1>1, <2>1, <2>2
<1>3. ASSUME NEW q \in Presenting, NEW r \in Presenting, UnderVerification(q)', UnderVerification(r)',
             handler'[q].ex = handler'[r].ex
      PROVE  q = r
  <2>1. ASSUME NEW k \in Presenting, NEW l \in Presenting, k # l, UnderVerification(k)',
               UnderVerification(l)', handler'[k].ex = handler'[l].ex,
               handler[k].pc = "idle", handler'[k].pc # "idle", PresentsOnce
        PROVE  FALSE
    <3>1. UnderVerification(l) => handler'[l].ex # handler[l].ex
      BY <2>1 DEF PresentsOnce
    <3>2. handler[l].pc = "idle" /\ handler'[l].pc # "idle"
      BY <1>1, <2>1, <3>1
    <3> QED BY <1>h, <2>1, <3>2, OneArrives DEF UnderVerification
  <2> QED BY <1>1, <1>3, <2>1 DEF OrderInv, OnePresenter
<1> QED BY <1>2, <1>3 DEF OnePresenter

LEMMA NextWorkers ==
  ASSUME OneProcess, TypeInv, KindsFit, RecordsCoherent, Current, OrderInv, [Next]_vars,
         NEW n \in Replicas
  PROVE  WorkerOrderly(n)'
<1> DEFINE v == worker[n]
           w == worker'[n]
<1>t. WorkerGoes(n) /\ v \in Worker /\ WorkerAtWork(v) /\ WorkerOrderly(n)
  BY WorkerSteps DEF TypeInv, TypeOK, AtWork, OrderInv
<1>m. \A e \in Exchanges : StoreMoves(e)
  BY NextMoves
(* Another record than the one it loaded may have succeeded by now.          *)
<1>k. ASSUME v.pc \notin {"off", "drain", "load"}, w.pc # "drain", w.snap = v.snap, w.ex = v.ex,
             PassOrderly(v) => PassOrderly(w)
      PROVE  WorkerOrderly(n)'
  <2> DEFINE e == v.ex
  <2>1. e \in Exchanges /\ PassOrderly(v)
        /\ (CasMatches(e, v.snap.task.attemptId) => store[e].task.status # "succeeded")
    BY <1>k, <1>t DEF WorkerAtWork, WorkerOrderly
  <2>2. ASSUME store'[e].task.status = "succeeded", Readable(store'[e]),
               store'[e].task.attemptId = v.snap.task.attemptId
        PROVE  FALSE
    <3>1. ~\E m \in Replicas : SettledBy(m, e)
      BY <1>k DEF SettledBy, OneProcess
    <3> QED BY <1>m, <2>1, <2>2, <3>1, NextRecordOrderly DEF CasMatches
  <2> QED BY <1>k, <2>1, <2>2 DEF WorkerOrderly, CasMatches
<1>1. CASE w = v
  BY <1>1, <1>k, <1>t DEF WorkerOrderly
<1>2. CASE w.pc \in {"off", "drain", "load"}
  BY <1>2 DEF WorkerOrderly
<1>3. CASE UNCHANGED store /\ Loaded(n, w)
  <2>1. w.pc = "mark" /\ w.snap = store[v.ex] /\ w.ex = v.ex /\ v.ex \in Exchanges
        /\ Processable(w.snap)
    BY <1>3, <1>t DEF Loaded, Worker, WorkerAtWork
  <2>2. w.snap \in Exchange /\ Orderly(w.snap)
    BY <2>1, RecordsTyped DEF OrderInv
  <2>3. Undecided(w.snap)
    BY <2>1, <2>2 DEF Processable, Undecided, Exchange, Task, TaskStatus
  <2> QED BY <1>3, <2>1, <2>2, <2>3 DEF WorkerOrderly, PassOrderly, Undecided
<1>4. CASE Marking(n, w)
  <2>1. v.pc = "mark" /\ w.pc = "markSet" /\ w.snap = v.snap /\ w.ex = v.ex
    BY <1>4, <1>t DEF Marking, Worker
  <2> QED BY <1>k, <2>1 DEF PassOrderly
<1>5. CASE v.pc \in {"mark", "markSet"} /\ w = Verifying(v)
  <2>1. /\ w.pc = "verify" /\ w.snap = v.snap /\ w.ex = v.ex
        /\ w.merged = v.snap.results /\ w.todo = v.snap.task.badges
    BY <1>5, <1>t DEF Verifying, Worker
  <2>2. ASSUME PassOrderly(v)
        PROVE  PassOrderly(w)
    <3>1. v.snap.task.attemptId # None
      BY <2>2 DEF PassOrderly, Orderly, Undecided, NoTask
    <3> QED BY <2>1, <2>2, <3>1 DEF PassOrderly, Orderly
  <2> QED BY <1>5, <1>k, <2>1, <2>2
<1>6. CASE Checked(n, w)
  <2>1. CASE w = [v EXCEPT !.pc = "failing"]
    <3>1. /\ v.pc = "verify" /\ w.pc = "failing" /\ w.snap = v.snap /\ w.ex = v.ex
          /\ w.merged = v.merged /\ w.todo = v.todo
      BY <1>6, <1>t, <2>1 DEF Checked, Worker
    <3> QED BY <1>k, <3>1 DEF PassOrderly
  <2>2. ASSUME NEW i \in v.todo, NEW b \in BOOLEAN,
               w = [v EXCEPT !.todo = @ \ {i}, !.merged = MergeOpenBadgesResultsAt(v.merged, i, b)]
        PROVE  WorkerOrderly(n)'
    <3>1. /\ v.pc = "verify" /\ w.pc = "verify" /\ w.snap = v.snap /\ w.ex = v.ex
          /\ w.merged = MergeOpenBadgesResultsAt(v.merged, i, b) /\ w.todo = v.todo \ {i}
          /\ v.merged \in Results
      BY <1>6, <1>t, <2>2 DEF Checked, Worker
    <3>2. ASSUME PassOrderly(v)
          PROVE  PassOrderly(w)
      <4>1. i \in v.merged.credentials
        <5>1. v.snap.results.badges \subseteq v.snap.results.credentials
          BY <3>2 DEF PassOrderly, Orderly, Undecided, NoTask
        <5> QED BY <3>1, <3>2, <5>1 DEF PassOrderly
      <4>2. w.merged = [v.merged EXCEPT !.verified = @ /\ b, !.rechecked = @ \cup {i},
                                        !.refuted = IF b THEN @ ELSE @ \cup {i}]
        BY <3>1, <4>1 DEF MergeOpenBadgesResultsAt
      <4>3. /\ w.merged.badges = v.merged.badges /\ w.merged.credentials = v.merged.credentials
            /\ w.merged.rechecked = v.merged.rechecked \cup {i}
            /\ w.merged.verified => v.merged.verified /\ w.merged.refuted = v.merged.refuted
        BY <3>1, <4>2 DEF Results
      <4> QED BY <3>1, <3>2, <4>3 DEF PassOrderly
    <3> QED BY <1>k, <3>1, <3>2
  <2> QED BY <1>6, <2>1, <2>2 DEF Checked
<1>7. CASE Committing(n, w)
  <2>1. /\ v.pc \in {"failing", "verify"} /\ w.pc = "commitSet" /\ w.snap = v.snap /\ w.ex = v.ex
        /\ w.merged = v.merged /\ w.todo = v.todo
    BY <1>7, <1>t DEF Committing, Worker
  <2> QED BY <1>k, <2>1 DEF PassOrderly
<1> QED BY <1>1, <1>2, <1>3, <1>4, <1>5, <1>6, <1>7, <1>t DEF WorkerGoes

(* Everything that holds of one process.                                     *)
ProcessInv == TypeInv /\ KindsFit /\ RecordsCoherent /\ Current

LEMMA InitProcess == Init => ProcessInv /\ OrderInv
<1> SUFFICES ASSUME Init PROVE OrderInv
  BY InitTyped, InitKinds, InitCoherent, InitCurrent DEF ProcessInv
<1>1. \A e \in Exchanges : Orderly(store[e])
  BY ConstantsOrderly DEF Init
<1>2. \A r \in Presenting : ~UnderVerification(r)
  BY DEF Init, UnderVerification, RestingHandler, Presenting, Handlers, Requests
<1>3. \A n \in Replicas : WorkerOrderly(n)
  BY DEF Init, WorkerOrderly, RestingWorker
<1> QED BY <1>1, <1>2, <1>3 DEF OrderInv, PresenterOrderly, OnePresenter

LEMMA NextProcess == OneProcess /\ ProcessInv /\ [Next]_vars => ProcessInv'
BY NextTyped, NextKinds, NextCoherent, NextCurrent DEF ProcessInv

LEMMA NextOrder ==
  OneProcess /\ ProcessInv /\ OrderInv /\ [Next]_vars /\ [PresentsOnce]_vars => OrderInv'
<1> SUFFICES ASSUME OneProcess, ProcessInv, OrderInv, [Next]_vars, [PresentsOnce]_vars
             PROVE  OrderInv'
  OBVIOUS
<1>1. \A e \in Exchanges : Orderly(store'[e])
  BY NextMoves, NextRecordOrderly DEF ProcessInv
<1>2. (\A r \in Presenting : PresenterOrderly(r))' /\ OnePresenter'
  BY NextPresenters DEF ProcessInv
<1>3. \A n \in Replicas : WorkerOrderly(n)'
  BY NextWorkers DEF ProcessInv
<1> QED BY <1>1, <1>2, <1>3 DEF OrderInv

(* In process, with one presentation to an exchange, the records that the    *)
(* store goes through are the orderly ones, whatever the faults, the expiry  *)
(* and the interleaving of saves, sweeps and workers (saveExchange,          *)
(* sweepIfTimedOut, processVerifyTask).                                      *)
THEOREM OrderInProcess ==
  ASSUME OneProcess
  PROVE  Spec /\ [][PresentsOnce]_vars => [](ProcessInv /\ OrderInv)
<1>1. Init => ProcessInv /\ OrderInv
  BY InitProcess
<1>2. ProcessInv /\ OrderInv /\ [Next]_vars /\ [PresentsOnce]_vars => (ProcessInv /\ OrderInv)'
  BY NextProcess, NextOrder
<1> QED BY <1>1, <1>2, PTL DEF Spec

AttemptAdvances(x, y) ==
  Readable(y) =>
    /\ y.task.attempt >= x.task.attempt
    /\ y.task.attempt = x.task.attempt => y.task.attemptId = x.task.attemptId

LEMMA MovesAdvance ==
  ASSUME TypeInv, RecordsCoherent, OrderInv, NEW e \in Exchanges, StoreMoves(e)
  PROVE  AttemptAdvances(store[e], store'[e])
<1> DEFINE x == store[e]
           y == store'[e]
<1>x. x \in Exchange /\ Orderly(x) /\ x.task \in Task /\ x.task.attempt \in Nat
  BY RecordsTyped, MaxAttemptsAssumption DEF OrderInv, Exchange, Task
<1>1. ASSUME y.task.attempt = x.task.attempt, y.task.attemptId = x.task.attemptId
      PROVE  AttemptAdvances(x, y)
  BY <1>1, <1>x DEF AttemptAdvances
<1>2. CASE Created(x, y) \/ Expired(x, y)
  <2>1. Created(x, y) => x.task = y.task
    BY <1>x DEF Created, Orderly, NewExchange, NotStored
  <2>2. Expired(x, y) => ~Readable(y)
    BY DEF Expired, Readable, NotStored
  <2> QED BY <1>1, <1>2, <2>1, <2>2 DEF AttemptAdvances
<1>3. CASE Readable(x) /\ (Opened(x, y) \/ Minted(x, y))
  BY <1>1, <1>3, <1>x, ReadOrderly
<1>4. CASE Swept(x, y)
  <2>1. ASSUME NEW id \in AttemptIds, y = Bumped(x, id)
        PROVE  y.task.attempt = x.task.attempt + 1
    BY <1>x, <2>1 DEF Bumped, WithVerifyTask, BumpAttempt, Exchange, Task
  <2>2. CASE y = GivenUp(x)
    BY <1>1, <1>x, <2>2 DEF GivenUp, MarkGaveUp, Exchange, Task
  <2> QED BY <1>4, <1>x, <2>1, <2>2 DEF Swept, AttemptAdvances
<1>5. ASSUME NEW r \in Presenting, SavedBy(r, e)
      PROVE  AttemptAdvances(x, y)
  <2>1. r \in Handlers /\ UnderVerification(r)
    BY <1>5 DEF Presenting, Handlers, Requests, SavedBy, UnderVerification
  <2>2. Unjudged(handler[r].snap) /\ Unjudged(x) /\ handler[r].snap \in Exchange
    BY <1>5, <2>1, RecordsTyped DEF SavedBy, OrderInv, PresenterOrderly
  <2> DEFINE s == handler[r].snap
  <2>3. x.task = NoTask /\ s.task = NoTask
    BY <2>2 DEF Unjudged
  <2>4. ASSUME NEW res, y = ApplyVerificationResults(s, res)
        PROVE  y.task = NoTask
    BY <2>2, <2>3, <2>4 DEF ApplyVerificationResults, Exchange
  <2>5. ASSUME NEW res, NEW id, y = WithSyncResultsAndQueuedVerifyTask(s, res, id)
        PROVE  y.task.attempt = 1
    BY <2>2, <2>5 DEF WithSyncResultsAndQueuedVerifyTask, ApplyVerificationResults,
                      NewVerifyTask, Exchange
  <2>6. y.task = NoTask \/ y.task.attempt = 1
    BY <1>5, <2>4, <2>5 DEF SavedBy, Verdict
  <2> QED BY <2>3, <2>6 DEF AttemptAdvances, NoTask
<1>6. ASSUME NEW n \in Replicas, MarkedBy(n, e)
      PROVE  AttemptAdvances(x, y)
  BY <1>1, <1>6, SameAttempt, MarkedOrderly DEF MarkedBy
<1>7. ASSUME NEW n \in Replicas, SettledBy(n, e)
      PROVE  AttemptAdvances(x, y)
  <2>1. worker[n] \in Worker
    BY DEF TypeInv, TypeOK
  <2> QED BY <1>1, <1>7, <2>1, SameAttempt, SettledOrderly DEF SettledBy
<1> QED BY <1>1, <1>2, <1>3, <1>4, <1>5, <1>6, <1>7 DEF StoreMoves

(* In process, with one presentation to an exchange, an attempt that a sweep *)
(* has superseded never comes back: neither the stale worker's results nor   *)
(* a second sweep's bump are written (saveExchangeWithCAS).                  *)
THEOREM AttemptsOnlyAdvance ==
  ASSUME OneProcess
  PROVE  Spec /\ [][PresentsOnce]_vars => AttemptNeverRegresses
<1>1. ProcessInv /\ OrderInv /\ [Next]_vars =>
        [\A e \in Exchanges : Readable(store'[e]) =>
           /\ store'[e].task.attempt >= store[e].task.attempt
           /\ store'[e].task.attempt = store[e].task.attempt =>
                store'[e].task.attemptId = store[e].task.attemptId]_vars
  BY NextMoves, MovesAdvance DEF ProcessInv, AttemptAdvances
<1> QED BY <1>1, OrderInProcess, PTL DEF Spec, AttemptNeverRegresses

-----------------------------------------------------------------------------
(* The promise of a verify exchange *)

LEMMA PhaseOf ==
  ASSUME NEW x
  PROVE  /\ x.state = "none" => Phase(x) = "new"
         /\ x.state = "expired" => Phase(x) = "gone"
         /\ x.state \in {"pending", "active"} =>
              Phase(x) = IF x.task = NoTask THEN "open" ELSE "checking"
         /\ x.state = "complete" => Phase(x) = "complete"
         /\ x.state = "invalid" =>
              Phase(x) = IF x.results.timedOut /\ x.results.rechecked = {} THEN "gaveUp"
                                                                           ELSE "invalid"
<1>1. x.state = "none" => Phase(x) = "new"
  BY Zenon DEF Phase
<1>2. x.state = "expired" => Phase(x) = "gone"
  BY Zenon DEF Phase
<1>3. ASSUME x.state \in {"pending", "active"}
      PROVE  Phase(x) = IF x.task = NoTask THEN "open" ELSE "checking"
  BY <1>3, Zenon DEF Phase
<1>4. x.state = "complete" => Phase(x) = "complete"
  BY Zenon DEF Phase
<1>5. ASSUME x.state = "invalid"
      PROVE  Phase(x) = IF x.results.timedOut /\ x.results.rechecked = {} THEN "gaveUp"
                                                                          ELSE "invalid"
  BY <1>5, Zenon DEF Phase
<1> QED BY <1>1, <1>2, <1>3, <1>4, <1>5

PromiseStep(e) == [Promise(e)!Next]_(Promise(e)!vars)

(* Nothing that the promise speaks of.                                       *)
LEMMA PromiseStutters ==
  ASSUME NEW e, Phase(store'[e]) = Phase(store[e]),
         store'[e].task.attempt = store[e].task.attempt,
         store'[e].results.badges = store[e].results.badges,
         store'[e].results.rechecked = store[e].results.rechecked,
         store'[e].results.refuted = store[e].results.refuted
  PROVE  PromiseStep(e)
BY DEF PromiseStep, Promise!vars

LEMMA CreationPromised ==
  ASSUME NEW e, store[e] \in Exchange, Orderly(store[e]),
         Created(store[e], store'[e]) \/ Expired(store[e], store'[e])
  PROVE  PromiseStep(e)
<1> DEFINE x == store[e]
           y == store'[e]
<1>1. CASE Created(x, y)
  <2>1. x = NotStored("none") /\ y = NotStored("pending")
    BY <1>1 DEF Created, Orderly, NewExchange
  <2>2. Phase(x) = "new" /\ Phase(y) = "open"
    BY <2>1, PhaseOf DEF NotStored
  <2>3. Promise(e)!Open
    BY <2>1, <2>2 DEF Promise!Open, NotStored
  <2> QED BY <2>3 DEF PromiseStep, Promise!Next
<1>2. CASE Expired(x, y)
  <2>1. y = NotStored("expired") /\ Readable(x)
    BY <1>2 DEF Expired
  <2>2. Phase(y) = "gone"
    BY <2>1, PhaseOf DEF NotStored
  <2>3. Phase(x) \notin {"new", "gone"}
    <3>1. x.state \in {"pending", "active", "complete", "invalid"}
      BY <2>1 DEF Readable, Gone, Exchange, ExchangeState
    <3> QED BY <3>1, PhaseOf
  <2>4. Promise(e)!Expire
    BY <2>1, <2>2, <2>3 DEF Promise!Expire, Promise!Nothing, NotStored, NoTask, NoResults
  <2> QED BY <2>4 DEF PromiseStep, Promise!Next
<1> QED BY <1>1, <1>2

LEMMA SweepPromised ==
  ASSUME NEW e, store[e] \in Exchange, Orderly(store[e]), Swept(store[e], store'[e])
  PROVE  PromiseStep(e)
<1> DEFINE x == store[e]
           y == store'[e]
<1>1. /\ x.state = "active" /\ Undecided(x) /\ x.task # NoTask /\ x.results.rechecked = {}
      /\ x.task.attempt \in 0..MaxAttempts
  BY DEF Swept, Pending, Undecided, Orderly, NoTask, Exchange, Task
<1>2. Phase(x) = "checking"
  BY <1>1, PhaseOf
<1>3. ASSUME NEW id \in AttemptIds, y = Bumped(x, id), MayRetry(x)
      PROVE  PromiseStep(e)
  <2>1. /\ y.state = "active" /\ y.results = x.results /\ y.task.status = "queued"
        /\ y.task.attempt = x.task.attempt + 1
    <3> DEFINE t == BumpAttempt(x.task, id)
    <3>1. x \in Exchange /\ x.task \in Task
      BY DEF Exchange
    <3>2. t.status = "queued" /\ t.attempt = x.task.attempt + 1
      BY <3>1 DEF BumpAttempt, Task
    <3>3. y = [x EXCEPT !.task = t]
      BY <1>3 DEF Bumped, WithVerifyTask
    <3> HIDE DEF t
    <3> QED BY <1>1, <3>1, <3>2, <3>3 DEF Exchange
  <2>2. Phase(y) = "checking"
    BY <2>1, PhaseOf DEF NoTask
  <2>3. Promise(e)!Retry
    BY <1>2, <1>3, <2>1, <2>2 DEF Promise!Retry, MayRetry
  <2> QED BY <2>3 DEF PromiseStep, Promise!Next
<1>4. CASE y = GivenUp(x) /\ ~MayRetry(x)
  <2>1. /\ y.state = "invalid" /\ y.task.attempt = x.task.attempt
        /\ y.results = AppendTimeout(x.results)
    BY <1>4 DEF GivenUp, MarkGaveUp, Exchange, Task
  <2>2. /\ y.results.timedOut /\ y.results.badges = x.results.badges
        /\ y.results.rechecked = x.results.rechecked /\ y.results.refuted = x.results.refuted
    BY <2>1 DEF AppendTimeout, Exchange, Results
  <2>3. Phase(y) = "gaveUp"
    BY <1>1, <2>1, <2>2, PhaseOf
  <2>4. x.task.attempt = MaxAttempts
    BY <1>1, <1>4, MaxAttemptsAssumption DEF MayRetry
  <2>5. Promise(e)!GiveUp
    BY <1>2, <2>1, <2>2, <2>3, <2>4 DEF Promise!GiveUp
  <2> QED BY <2>5 DEF PromiseStep, Promise!Next
<1>5. \/ MayRetry(x) /\ \E id \in AttemptIds : y = Bumped(x, id)
      \/ ~MayRetry(x) /\ y = GivenUp(x)
  BY DEF Swept
<1> QED BY <1>3, <1>4, <1>5

LEMMA VerdictPromised ==
  ASSUME NEW e, Unjudged(store[e]), NEW s \in Exchange, Unjudged(s), Verdict(s, store'[e])
  PROVE  PromiseStep(e)
<1> DEFINE x == store[e]
           y == store'[e]
<1>1. Phase(x) = "open" /\ x.task = NoTask /\ x.results = NoResults
  BY PhaseOf DEF Unjudged
<1>2. ASSUME NEW p \in Presentations, NEW v \in BOOLEAN, p.badges = {},
             y = ApplyVerificationResults(s, SyncResults(p, v))
      PROVE  PromiseStep(e)
  <2>1. /\ y.state \in {"complete", "invalid"} /\ y.task = NoTask /\ y.results = SyncResults(p, v)
    BY <1>2 DEF ApplyVerificationResults, Outcome, Exchange, Unjudged
  <2>2. /\ y.results.badges = {} /\ y.results.rechecked = {} /\ y.results.refuted = {}
        /\ y.results.timedOut = FALSE
    BY <1>2, <2>1 DEF SyncResults, NoResults
  <2>3. Phase(y) \in {"complete", "invalid"}
    BY <2>1, <2>2, PhaseOf
  <2>4. Promise(e)!Answer
    BY <1>1, <2>1, <2>2, <2>3 DEF Promise!Answer, Promise!Nothing
  <2> QED BY <2>4 DEF PromiseStep, Promise!Next
<1>3. ASSUME NEW p \in Presentations, NEW v \in BOOLEAN, p.badges # {}, NEW id \in AttemptIds,
             y = WithSyncResultsAndQueuedVerifyTask(s, SyncResults(p, v), id)
      PROVE  PromiseStep(e)
  <2>1. /\ y.state = "active" /\ y.task = NewVerifyTask(id, SyncResults(p, v).badges)
        /\ y.results = SyncResults(p, v)
    BY <1>3 DEF WithSyncResultsAndQueuedVerifyTask, ApplyVerificationResults, Exchange
  <2>2. /\ y.results.badges = p.badges /\ y.results.rechecked = {} /\ y.results.refuted = {}
        /\ y.task.attempt = 1 /\ y.task.status = "queued"
    BY <2>1 DEF SyncResults, NoResults, NewVerifyTask
  <2>3. Phase(y) = "checking"
    BY <2>1, <2>2, PhaseOf DEF NoTask
  <2>4. p.badges \subseteq Credentials
    BY PresentationsAssumption
  <2>5. Promise(e)!Check
    BY <1>1, <1>3, <2>2, <2>3, <2>4
       DEF Promise!Check, Promise!Unchecked, Promise!Shown
  <2> QED BY <2>5 DEF PromiseStep, Promise!Next
<1> QED BY <1>2, <1>3 DEF Verdict

LEMMA WorkerPromised ==
  ASSUME TypeInv, RecordsCoherent, OrderInv, NEW n \in Replicas, NEW e \in Exchanges,
         MarkedBy(n, e) \/ SettledBy(n, e)
  PROVE  PromiseStep(e)
<1> DEFINE x == store[e]
           y == store'[e]
           t == worker[n].snap.task
<1>1. /\ x \in Exchange /\ t \in Task /\ Orderly(x) /\ PassOrderly(worker[n])
      /\ t.attemptId = x.task.attemptId /\ t.badges = x.task.badges /\ t.attempt = x.task.attempt
      /\ t.attemptId # None /\ x.task.status # "succeeded"
  BY SameAttempt
<1>2. /\ x.task # NoTask
      /\ x.state = "active" \/ (x.state = "invalid" /\ x.results.timedOut)
      /\ x.results.rechecked = {}
  BY <1>1 DEF Orderly, NoTask, Undecided, Exchange, Task, TaskStatus
<1>3. Phase(x) = IF x.state = "active" THEN "checking" ELSE "gaveUp"
  BY <1>2, PhaseOf
<1>4. CASE MarkedBy(n, e)
  <2>1. y.state = x.state /\ y.results = x.results /\ y.task.attempt = x.task.attempt
        /\ y.task.attemptId # None
    BY <1>1, <1>4, MarkedOrderly DEF MarkedBy
  <2>2. Phase(y) = Phase(x)
    BY <1>2, <1>3, <2>1, PhaseOf DEF NoTask
  <2> QED BY <2>1, <2>2, PromiseStutters
<1>5. CASE SettledBy(n, e)
  <2>1. worker[n] \in Worker
    BY DEF TypeInv, TypeOK
  <2>2. /\ y.state \in {"complete", "invalid"} /\ y.task.attempt = t.attempt
        /\ y.results.badges = t.badges /\ y.results.rechecked = t.badges /\ t.badges # {}
        /\ y.state = "complete" => y.results.refuted = {}
    BY <1>1, <1>5, <2>1, SettledOrderly DEF SettledBy
  <2>3. Phase(y) = y.state
    BY <2>2, PhaseOf
  <2>4. y.results \in Results
    BY <1>5, <2>1 DEF SettledBy, Settled, Worker, Exchange
  <2>5. x.results.badges = t.badges
    BY <1>1 DEF Orderly
  <2>6. Promise(e)!Decide
    BY <1>1, <1>2, <1>3, <2>2, <2>3, <2>4, <2>5 DEF Promise!Decide, Promise!Shown, Results
  <2> QED BY <2>6 DEF PromiseStep, Promise!Next
<1> QED BY <1>4, <1>5

LEMMA MovesPromised ==
  ASSUME TypeInv, RecordsCoherent, OrderInv, NEW e \in Exchanges, StoreMoves(e)
  PROVE  PromiseStep(e)
<1> DEFINE x == store[e]
           y == store'[e]
<1>x. x \in Exchange /\ Orderly(x)
  BY RecordsTyped DEF OrderInv
<1>1. CASE y = x
  BY <1>1, PromiseStutters
<1>2. CASE Readable(x) /\ (Opened(x, y) \/ Minted(x, y))
  <2>1. y.task = x.task /\ y.results = x.results
    BY <1>2, <1>x, ReadOrderly
  <2>2. CASE Opened(x, y)
    <3>1. x.state = "pending" /\ y.state = "active"
      BY <1>x, <2>2 DEF Opened, Exchange
    <3> QED BY <2>1, <3>1, PhaseOf, PromiseStutters
  <2>3. CASE Minted(x, y)
    <3>1. y.state = x.state
      BY <1>x, <2>3 DEF Minted, EnsureOid4vpState, Exchange
    <3>2. Phase(y) = Phase(x)
      BY <1>x, <2>1, <3>1, PhaseOf DEF Exchange, ExchangeState
    <3> QED BY <2>1, <3>2, PromiseStutters
  <2> QED BY <1>2, <2>2, <2>3
<1>3. ASSUME NEW r \in Presenting, SavedBy(r, e)
      PROVE  PromiseStep(e)
  <2>1. r \in Handlers /\ UnderVerification(r)
    BY <1>3 DEF Presenting, Handlers, Requests, SavedBy, UnderVerification
  <2>2. Unjudged(handler[r].snap) /\ Unjudged(x) /\ handler[r].snap \in Exchange
    BY <1>3, <2>1, RecordsTyped DEF SavedBy, OrderInv, PresenterOrderly
  <2> QED BY <1>3, <2>2, VerdictPromised DEF SavedBy
<1> QED BY <1>x, <1>1, <1>2, <1>3, CreationPromised, SweepPromised, WorkerPromised DEF StoreMoves

(* In process, with one presentation to an exchange, every exchange keeps    *)
(* the promise of VerifyPromise: each step of the handlers, the sweep, the   *)
(* worker, the faults and the clock answers it, checks it, retries, gives up *)
(* the last attempt, decides it, expires it, or is none of its business      *)
(* (participateInVerifyExchange, sweepIfTimedOut, processVerifyTask,         *)
(* saveExchangeWithCAS).                                                     *)
THEOREM PromiseKept ==
  ASSUME OneProcess
  PROVE  Spec /\ [][PresentsOnce]_vars => KeepsVerifyPromise
<1>1. Init => \A e \in Exchanges : Promise(e)!Init
  <2> SUFFICES ASSUME Init, NEW e \in Exchanges PROVE Promise(e)!Init
    OBVIOUS
  <2>1. store[e] = NotStored("none") /\ Phase(store[e]) = "new"
    BY PhaseOf DEF Init, NotStored
  <2> QED BY <2>1 DEF Promise!Init, Promise!Nothing, NotStored, NoTask, NoResults
<1>2. ProcessInv /\ OrderInv /\ [Next]_vars =>
        [\A e \in Exchanges : [Promise(e)!Next]_(Promise(e)!vars)]_vars
  BY NextMoves, MovesPromised DEF ProcessInv, PromiseStep
<1> QED BY <1>1, <1>2, OrderInProcess, PTL DEF Spec, KeepsVerifyPromise
=============================================================================
