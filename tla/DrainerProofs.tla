---------------------------- MODULE DrainerProofs ----------------------------
(***************************************************************************)
(* The drainer of a replica never sleeps on work: for any number of        *)
(* replicas, exchanges and requests, over either store, with any faults.   *)
(*                                                                         *)
(* The worker is what a drain loop does with the id in hand, so that every *)
(* step it takes but the last leaves the loop running: only DrainStop,     *)
(* which looks at the queue, and a crash, which empties it, end the loop,  *)
(* and each resets the flag in the same turn.                              *)
(*                                                                         *)
(* Nor does work pile up, in one process with one presentation to an       *)
(* exchange: the load of an exchange, its runs in the queue, in hand and   *)
(* about to be enqueued, only grows when a record is written that counts   *)
(* one attempt more, so it is within the attempts of the record.           *)
(***************************************************************************)
EXTENDS InProcessProofs, FiniteSetTheorems

Awake(n) ==
  /\ queue[n] # <<>> => worker[n].pc # "off"
  /\ running[n] <=> worker[n].pc # "off"

WakeInv == TypeInv /\ NoLostWakeup

LEMMA EachAwake == NoLostWakeup <=> \A n \in Replicas : Awake(n)
BY DEF NoLostWakeup, Awake

-----------------------------------------------------------------------------
LEMMA InitAwake == Init => NoLostWakeup
BY DEF Init, NoLostWakeup, RestingWorker

(* Where nothing of the queue, the flag or the loop changes.                 *)
LEMMA StillAwake ==
  ASSUME WakeInv, UNCHANGED <<queue, running, worker>>
  PROVE  NoLostWakeup'
BY DEF WakeInv, NoLostWakeup

(* A step of the worker that leaves the loop running.                        *)
LEMMA LoopGoesOn ==
  ASSUME WakeInv, NEW n \in Replicas, NEW w, w.pc # "off", worker[n].pc # "off",
         worker' = [worker EXCEPT ![n] = w], running' = running,
         \A m \in Replicas : m # n => queue'[m] = queue[m]
  PROVE  NoLostWakeup'
<1> SUFFICES ASSUME NEW m \in Replicas PROVE Awake(m)'
  BY DEF NoLostWakeup, Awake
<1>1. worker \in [Replicas -> Worker] /\ Awake(m)
  BY EachAwake DEF WakeInv, TypeInv, TypeOK
<1>2. CASE m = n
  BY <1>1, <1>2 DEF Awake
<1>3. CASE m # n
  BY <1>1, <1>3 DEF Awake
<1> QED
  BY <1>2, <1>3

(* What ends it: an empty queue, and the flag reset with it.                 *)
LEMMA LoopEnds ==
  ASSUME WakeInv, NEW n \in Replicas,
         worker' = [worker EXCEPT ![n] = RestingWorker("off")],
         running' = [running EXCEPT ![n] = FALSE],
         queue' = [queue EXCEPT ![n] = <<>>]
  PROVE  NoLostWakeup'
<1> SUFFICES ASSUME NEW m \in Replicas PROVE Awake(m)'
  BY DEF NoLostWakeup, Awake
<1>1. /\ worker \in [Replicas -> Worker] /\ running \in [Replicas -> BOOLEAN]
      /\ queue \in [Replicas -> Seq(Exchanges)] /\ Awake(m)
  BY EachAwake DEF WakeInv, TypeInv, TypeOK
<1>2. CASE m = n
  BY <1>1, <1>2 DEF Awake, RestingWorker
<1>3. CASE m # n
  BY <1>1, <1>3 DEF Awake
<1> QED
  BY <1>2, <1>3

-----------------------------------------------------------------------------
LEMMA EnqueueAwake ==
  ASSUME WakeInv, NEW h \in Handlers, EnqueueVerifyTask(h)
  PROVE  NoLostWakeup'
<1> DEFINE n == handler[h].at
<1>1. n \in Replicas
  BY DEF WakeInv, TypeInv, AtWork, HandlerAtWork, EnqueueVerifyTask
<1>2. /\ worker \in [Replicas -> Worker] /\ running \in [Replicas -> BOOLEAN]
      /\ queue \in [Replicas -> Seq(Exchanges)]
  BY DEF WakeInv, TypeInv, TypeOK
<1>3. /\ queue' = [queue EXCEPT ![n] = Append(@, handler[h].ex)]
      /\ running' = [running EXCEPT ![n] = TRUE]
      /\ worker' = IF running[n] THEN worker
                   ELSE [worker EXCEPT ![n] = RestingWorker("drain")]
  BY DEF EnqueueVerifyTask, Enqueued
<1> HIDE DEF n
<1> SUFFICES ASSUME NEW m \in Replicas PROVE Awake(m)'
  BY DEF NoLostWakeup, Awake
<1>4. Awake(m)
  BY EachAwake DEF WakeInv
<1>5. CASE m = n
  BY <1>1, <1>2, <1>3, <1>4, <1>5 DEF Awake, RestingWorker
<1>6. CASE m # n
  BY <1>1, <1>2, <1>3, <1>4, <1>6 DEF Awake
<1> QED
  BY <1>5, <1>6

LEMMA WorkerAwake ==
  ASSUME WakeInv, NEW n \in Replicas, WorkerStep(n)
  PROVE  NoLostWakeup'
<1> DEFINE w == worker[n]
<1>1. CASE DrainNext(n)
  <2> DEFINE y == [w EXCEPT !.pc = "load", !.ex = Head(queue[n])]
  <2>1. y.pc = "load" /\ worker' = [worker EXCEPT ![n] = y] /\ w.pc = "drain"
    BY <1>1 DEF DrainNext, WakeInv, TypeInv, TypeOK, Worker
  <2>2. \A m \in Replicas : m # n => queue'[m] = queue[m]
    BY <1>1 DEF DrainNext, WakeInv, TypeInv, TypeOK
  <2> HIDE DEF y
  <2> QED
    BY <1>1, <2>1, <2>2, LoopGoesOn DEF DrainNext
<1>2. CASE DrainStop(n)
  <2>1. queue' = [queue EXCEPT ![n] = <<>>]
    BY <1>2 DEF DrainStop, WakeInv, TypeInv, TypeOK
  <2> QED
    BY <1>2, <2>1, LoopEnds DEF DrainStop
<1>3. ASSUME NEW y, y.pc # "off", w.pc # "off", worker' = [worker EXCEPT ![n] = y],
             running' = running, queue' = queue
      PROVE  NoLostWakeup'
  BY <1>3, LoopGoesOn
<1>4. RestingWorker("drain").pc # "off"
  BY DEF RestingWorker
<1>5. w \in Worker
  BY DEF WakeInv, TypeInv, TypeOK
<1>6. CASE WorkerLoad(n)
  <2> DEFINE y == IF Processable(store[w.ex])
                    THEN [w EXCEPT !.pc = "mark", !.snap = store[w.ex]]
                    ELSE RestingWorker("drain")
  <2>1. y.pc # "off"
    BY <1>4, <1>5 DEF Worker
  <2>2. worker' = [worker EXCEPT ![n] = y] /\ w.pc = "load"
    BY <1>6 DEF WorkerLoad
  <2> HIDE DEF y
  <2> QED
    BY <1>3, <1>6, <2>1, <2>2 DEF WorkerLoad
<1>7. Verifying(w).pc = "verify"
  BY <1>5 DEF Verifying, Worker
<1>8. CASE WorkerMarkGet(n)
  <2> DEFINE y == [w EXCEPT !.pc = "markSet",
                     !.next = WithVerifyTask(store[w.ex], MarkRunning(w.snap.task))]
  <2>1. y.pc = "markSet"
    BY <1>5 DEF Worker
  <2>2. worker' = [worker EXCEPT ![n] = y] \/ worker' = [worker EXCEPT ![n] = Verifying(w)]
    BY <1>8 DEF WorkerMarkGet
  <2>3. w.pc = "mark" /\ running' = running /\ queue' = queue
    BY <1>8 DEF WorkerMarkGet
  <2> HIDE DEF y
  <2> QED
    BY <1>3, <1>7, <2>1, <2>2, <2>3
<1>9. CASE WorkerMarkSet(n)
  BY <1>3, <1>7, <1>9 DEF WorkerMarkSet
<1>10. CASE WorkerVerify(n)
  <2>1. PICK i \in w.todo :
          \/ \E verified \in BOOLEAN :
               worker' = [worker EXCEPT ![n] = [w EXCEPT !.todo = @ \ {i},
                 !.merged = MergeOpenBadgesResultsAt(w.merged, i, verified)]]
          \/ worker' = [worker EXCEPT ![n] = [w EXCEPT !.pc = "failing"]]
    BY <1>10 DEF WorkerVerify
  <2>2. w.pc = "verify" /\ running' = running /\ queue' = queue
    BY <1>10 DEF WorkerVerify
  <2>3. ASSUME NEW verified \in BOOLEAN,
               worker' = [worker EXCEPT ![n] = [w EXCEPT !.todo = @ \ {i},
                 !.merged = MergeOpenBadgesResultsAt(w.merged, i, verified)]]
        PROVE  NoLostWakeup'
    <3> DEFINE y == [w EXCEPT !.todo = @ \ {i},
                       !.merged = MergeOpenBadgesResultsAt(w.merged, i, verified)]
    <3>1. y.pc = "verify" /\ worker' = [worker EXCEPT ![n] = y]
      BY <1>5, <2>2, <2>3 DEF Worker
    <3> HIDE DEF y
    <3> QED
      BY <1>3, <2>2, <3>1
  <2>4. CASE worker' = [worker EXCEPT ![n] = [w EXCEPT !.pc = "failing"]]
    <3> DEFINE y == [w EXCEPT !.pc = "failing"]
    <3>1. y.pc = "failing" /\ worker' = [worker EXCEPT ![n] = y]
      BY <1>5, <2>4 DEF Worker
    <3> HIDE DEF y
    <3> QED
      BY <1>3, <2>2, <3>1
  <2> QED
    BY <2>1, <2>3, <2>4
<1>11. CASE WorkerCommitGet(n)
  <2> DEFINE next == IF w.pc = "failing"
                       THEN WithVerifyTask(store[w.ex], MarkFailed(w.snap.task))
                       ELSE Settled(w.snap, w.merged)
             y == [w EXCEPT !.pc = "commitSet", !.next = next]
  <2>1. y.pc = "commitSet"
    BY <1>5 DEF Worker
  <2>2. \/ worker' = [worker EXCEPT ![n] = y]
        \/ worker' = [worker EXCEPT ![n] = RestingWorker("drain")]
    BY <1>11 DEF WorkerCommitGet
  <2>3. w.pc # "off" /\ running' = running /\ queue' = queue
    BY <1>11 DEF WorkerCommitGet
  <2> HIDE DEF y
  <2> QED
    BY <1>3, <1>4, <2>1, <2>2, <2>3
<1>12. CASE WorkerCommitSet(n)
  BY <1>3, <1>4, <1>12 DEF WorkerCommitSet
<1> QED
  BY <1>1, <1>2, <1>6, <1>8, <1>9, <1>10, <1>11, <1>12 DEF WorkerStep

LEMMA OtherAwake ==
  ASSUME WakeInv,
         \/ \E r \in Requests : RequestStep(r)
         \/ \E p \in Pollers : PollerStep(p) \/ \E n \in Replicas, e \in Exchanges : SweepRead(p, n, e)
         \/ \E e \in Exchanges : CreateExchange(e) \/ DeadlineLapses(e) \/ Expire(e)
         \/ \E h \in Handlers : HandlerStoreFault(h)
  PROVE  NoLostWakeup'
<1>1. UNCHANGED <<queue, running, worker>>
  <2>1. ASSUME NEW r \in Requests, RequestStep(r) PROVE UNCHANGED <<queue, running, worker>>
    BY <2>1 DEF RequestStep, Post, PostEmpty, PostPresentation, GetAuthorizationRequest,
         PostDirectPost, HandleOid4vpResponse, PresentationVerified, PresentationRejected,
         SaveExchange
  <2>2. ASSUME NEW p \in Pollers,
               PollerStep(p) \/ \E n \in Replicas, e \in Exchanges : SweepRead(p, n, e)
        PROVE  UNCHANGED <<queue, running, worker>>
    BY <2>2 DEF PollerStep, SweepRead, SweepCasGet, SweepCasSet
  <2>3. ASSUME NEW e \in Exchanges, CreateExchange(e) \/ DeadlineLapses(e) \/ Expire(e)
        PROVE  UNCHANGED <<queue, running, worker>>
    BY <2>3 DEF CreateExchange, DeadlineLapses, Expire
  <2>4. ASSUME NEW h \in Handlers, HandlerStoreFault(h)
        PROVE  UNCHANGED <<queue, running, worker>>
    BY <2>4 DEF HandlerStoreFault
  <2> QED
    BY <2>1, <2>2, <2>3, <2>4
<1> QED
  BY <1>1, StillAwake

LEMMA FaultAwake ==
  ASSUME WakeInv, NEW n \in Replicas, WorkerStoreFault(n) \/ Crash(n)
  PROVE  NoLostWakeup'
<1>1. CASE WorkerStoreFault(n)
  <2>1. worker[n].pc # "off" /\ RestingWorker("drain").pc # "off"
    BY <1>1 DEF WorkerStoreFault, RestingWorker
  <2> QED
    BY <1>1, <2>1, LoopGoesOn DEF WorkerStoreFault
<1>2. CASE Crash(n)
  BY <1>2, LoopEnds DEF Crash
<1> QED
  BY <1>1, <1>2

LEMMA NextAwake == WakeInv /\ [Next]_vars => WakeInv'
<1> SUFFICES ASSUME WakeInv, [Next]_vars PROVE WakeInv'
  OBVIOUS
<1>1. TypeInv'
  BY NextTyped DEF WakeInv
<1>2. CASE Next
  <2>1. NoLostWakeup'
    BY <1>2, OtherAwake, EnqueueAwake, WorkerAwake, FaultAwake DEF Next
  <2> QED
    BY <1>1, <2>1 DEF WakeInv
<1>3. CASE UNCHANGED vars
  BY <1>1, <1>3, StillAwake DEF vars, WakeInv
<1> QED
  BY <1>2, <1>3

(* An id in a replica's FIFO always has a drain loop that will look at it,   *)
(* and `running` always says whether there is one (enqueueVerifyTask, drain):*)
(* no wakeup is lost in any interleaving of requests, sweeps, the worker,    *)
(* faults and restarts.                                                      *)
THEOREM NothingSleepsInTheQueue == Spec => []NoLostWakeup
<1>1. Init => WakeInv
  BY InitTyped, InitAwake DEF WakeInv
<1>2. WakeInv => NoLostWakeup
  BY DEF WakeInv
<1> QED
  BY <1>1, <1>2, NextAwake, PTL DEF Spec

-----------------------------------------------------------------------------
(* Open Badges runs of one exchange: waiting in the queue, in the drainer's  *)
(* hand, and about to be enqueued by a handler that has written its record   *)

Waiting(q, e) == {j \in 1..Len(q) : q[j] = e}
InHand(w, e)  == IF w.ex = e THEN 1 ELSE 0
Due(e)        == {h \in Handlers : handler[h].pc = "enqueue" /\ handler[h].ex = e}

Load(n, e) == Cardinality(Waiting(queue[n], e)) + InHand(worker[n], e) + Cardinality(Due(e))

LEMMA WaitingFinite ==
  ASSUME NEW q \in Seq(Exchanges), NEW e
  PROVE  IsFiniteSet(Waiting(q, e)) /\ Cardinality(Waiting(q, e)) \in Nat
<1>1. IsFiniteSet(1..Len(q))
  BY FS_Interval
<1>2. Waiting(q, e) \in SUBSET (1..Len(q))
  BY DEF Waiting
<1>3. IsFiniteSet(Waiting(q, e))
  BY <1>1, <1>2, FS_Subset
<1> QED BY <1>3, FS_CardinalityType

LEMMA WaitingEmpty ==
  ASSUME NEW e
  PROVE  Waiting(<<>>, e) = {} /\ Cardinality(Waiting(<<>>, e)) = 0
<1>1. Waiting(<<>>, e) = {}
  BY DEF Waiting
<1> QED BY <1>1, FS_EmptySet

LEMMA WaitingAppend ==
  ASSUME NEW q \in Seq(Exchanges), NEW f \in Exchanges, NEW e
  PROVE  Cardinality(Waiting(Append(q, f), e)) =
           Cardinality(Waiting(q, e)) + (IF f = e THEN 1 ELSE 0)
<1> DEFINE k == Len(q) + 1
<1>1. /\ Len(Append(q, f)) = k /\ k \in Nat /\ Len(q) \in Nat
      /\ Append(q, f)[k] = f /\ \A j \in 1..Len(q) : Append(q, f)[j] = q[j]
  OBVIOUS
<1>2. Waiting(Append(q, f), e) = Waiting(q, e) \cup {j \in {k} : f = e}
  BY <1>1 DEF Waiting
<1>3. k \notin Waiting(q, e)
  BY <1>1 DEF Waiting
<1>4. IsFiniteSet(Waiting(q, e)) /\ Cardinality(Waiting(q, e)) \in Nat
  BY WaitingFinite
<1> HIDE DEF k
<1>5. CASE f = e
  <2>1. Waiting(Append(q, f), e) = Waiting(q, e) \cup {k}
    BY <1>2, <1>5
  <2> QED BY <1>3, <1>4, <1>5, <2>1, FS_AddElement
<1>6. CASE f # e
  <2>1. Waiting(Append(q, f), e) = Waiting(q, e)
    BY <1>2, <1>6
  <2> QED BY <1>4, <1>6, <2>1
<1> QED BY <1>5, <1>6

LEMMA WaitingTail ==
  ASSUME NEW q \in Seq(Exchanges), q # <<>>, NEW e
  PROVE  Cardinality(Waiting(Tail(q), e)) + (IF Head(q) = e THEN 1 ELSE 0)
           <= Cardinality(Waiting(q, e))
<1> DEFINE W == Waiting(q, e)
           T == Waiting(Tail(q), e)
           f == [j \in T |-> j + 1]
<1>1. /\ Len(q) \in Nat /\ Len(q) >= 1 /\ Len(Tail(q)) = Len(q) - 1 /\ Head(q) = q[1]
      /\ \A j \in 1..Len(Tail(q)) : Tail(q)[j] = q[j + 1]
  OBVIOUS
<1>2. /\ IsFiniteSet(W) /\ Cardinality(W) \in Nat
      /\ IsFiniteSet(W \ {1})
      /\ Cardinality(W \ {1}) = IF 1 \in W THEN Cardinality(W) - 1 ELSE Cardinality(W)
  BY WaitingFinite, FS_RemoveElement
<1>3. 1 \in W <=> Head(q) = e
  BY <1>1 DEF Waiting
<1>4. T \subseteq Nat /\ \A j \in T : j + 1 \in W \ {1}
  BY <1>1 DEF Waiting
<1> HIDE DEF W, T
<1>5. f \in Injection(T, W \ {1})
  BY <1>4 DEF Injection, IsInjective
<1> HIDE DEF f
<1>6. IsFiniteSet(T) /\ Cardinality(T) <= Cardinality(W \ {1})
  BY <1>2, <1>5, FS_Injection
<1>7. Cardinality(T) \in Nat
  BY <1>6, FS_CardinalityType
<1> QED BY <1>2, <1>3, <1>6, <1>7 DEF W, T

-----------------------------------------------------------------------------
(* What one step does to the load *)

(* The handler has written a record whose task it is to enqueue next.        *)
Sends(h) ==
  LET y == handler[h] IN
  /\ y.pc \in {"save", "casSet"} /\ HasTurn(y.at, h) /\ Put(y.ex, y.next)
  /\ y.pc = "save" => y.next.task.attemptId # y.snap.task.attemptId
  /\ y.pc = "casSet" => y.next.task.status = "queued"
  /\ handler' = [handler EXCEPT ![h] = [y EXCEPT !.pc = "enqueue"]]
  /\ UNCHANGED <<queue, worker>>

NothingDue == \A h \in Handlers : handler'[h].pc = "enqueue" => handler'[h] = handler[h]

Passes(n) ==
  \A e \in Exchanges :
    Cardinality(Waiting(queue'[n], e)) + InHand(worker'[n], e)
      <= Cardinality(Waiting(queue[n], e)) + InHand(worker[n], e)

TakesUp(n, h) ==
  /\ handler[h].pc = "enqueue" /\ handler'[h].pc # "enqueue"
  /\ \A k \in Handlers : k # h => handler'[k] = handler[k]
  /\ queue'[n] = Append(queue[n], handler[h].ex)
  /\ \A e \in Exchanges : InHand(worker'[n], e) <= InHand(worker[n], e)

LoadGoes(n) ==
  \/ NothingDue /\ Passes(n)
  \/ \E h \in Handlers : TakesUp(n, h) \/ Sends(h)

LEMMA QueueTyped ==
  ASSUME TypeInv, NEW n \in Replicas, NEW e
  PROVE  /\ Cardinality(Waiting(queue[n], e)) \in Nat
         /\ InHand(worker[n], e) \in {0, 1}
BY WaitingFinite DEF TypeInv, TypeOK, InHand

LEMMA KeptPasses ==
  ASSUME TypeInv, NEW n \in Replicas, queue'[n] = queue[n],
         worker'[n] = worker[n] \/ worker'[n].ex \in {worker[n].ex, None}
  PROVE  Passes(n)
<1> SUFFICES ASSUME NEW e \in Exchanges
             PROVE  InHand(worker'[n], e) <= InHand(worker[n], e)
  BY QueueTyped DEF Passes, InHand
<1> QED BY ActorsAssumption DEF InHand

LEMMA OverDue ==
  ASSUME TypeInv, NEW h \in Handlers, Finish(h) \/ Fail(h)
  PROVE  NothingDue /\ handler'[h].pc # "enqueue"
         /\ \A k \in Handlers : k # h => handler'[k] = handler[k]
<1>1. \A pc : RestingHandler(pc).pc = pc
  BY DEF RestingHandler
<1>2. Answered(h).pc = "done"
  BY DEF Answered, RestingHandler
<1> QED BY <1>1, <1>2 DEF Finish, Fail, Over, NothingDue, TypeInv, TypeOK

LEMMA RequestLoad ==
  ASSUME TypeInv, NEW n \in Replicas, NEW r \in Requests, RequestStep(r)
  PROVE  LoadGoes(n)
<1>t. r \in Handlers /\ handler \in [Handlers -> Handler]
  BY DEF Handlers, TypeInv, TypeOK
<1>p. queue' = queue /\ worker' = worker
  BY DEF RequestStep, Post, PostEmpty, GetAuthorizationRequest, PostPresentation,
         PostDirectPost, HandleOid4vpResponse, PresentationVerified, PresentationRejected,
         SaveExchange
<1>s. Passes(n)
  BY <1>p, KeptPasses
<1>w. ASSUME NEW y, handler' = [handler EXCEPT ![r] = y], y.pc # "enqueue"
      PROVE  LoadGoes(n)
  BY <1>s, <1>t, <1>w DEF LoadGoes, NothingDue
<1>o. ASSUME Finish(r) \/ Fail(r)
      PROVE  LoadGoes(n)
  BY <1>o, <1>s, <1>t, OverDue DEF LoadGoes
<1>1. CASE Post(r)
  <2>1. PICK y : handler' = [handler EXCEPT ![r] = y] /\ y.pc \in {"save", "body", "verify", "done"}
    BY <1>1 DEF Post, PostEmpty, GetAuthorizationRequest, PostPresentation, PostDirectPost,
                RestingHandler
  <2> QED BY <1>w, <2>1
<1>2. CASE HandleOid4vpResponse(r)
  <2> DEFINE y == [handler[r] EXCEPT !.pc = "verify", !.snap = ConsumeOid4vpResponse(handler[r].snap)]
  <2>1. y.pc = "verify"
    BY <1>t DEF Handler
  <2>2. Fail(r) \/ handler' = [handler EXCEPT ![r] = y]
    BY <1>2 DEF HandleOid4vpResponse
  <2> HIDE DEF y
  <2> QED BY <1>o, <1>w, <2>1, <2>2
<1>3. CASE PresentationVerified(r)
  <2>1. PICK z : handler' = [handler EXCEPT ![r] = [@ EXCEPT !.pc = "save", !.next = z]]
    BY <1>3 DEF PresentationVerified
  <2> DEFINE y == [handler[r] EXCEPT !.pc = "save", !.next = z]
  <2>2. y.pc = "save" /\ handler' = [handler EXCEPT ![r] = y]
    BY <1>t, <2>1 DEF Handler
  <2> HIDE DEF y
  <2> QED BY <1>w, <2>2
<1>4. CASE PresentationRejected(r)
  BY <1>4, <1>o DEF PresentationRejected
<1>5. CASE SaveExchange(r)
  <2>1. CASE handler[r].next.task.attemptId = handler[r].snap.task.attemptId
    BY <1>5, <1>o, <2>1 DEF SaveExchange
  <2>2. CASE handler[r].next.task.attemptId # handler[r].snap.task.attemptId
    <3>1. Sends(r)
      BY <1>5, <1>p, <2>2 DEF SaveExchange, Sends
    <3> QED BY <1>t, <3>1 DEF LoadGoes
  <2> QED BY <2>1, <2>2
<1> QED BY <1>1, <1>2, <1>3, <1>4, <1>5 DEF RequestStep

LEMMA PollerLoad ==
  ASSUME TypeInv, NEW n \in Replicas, NEW p \in Pollers,
         PollerStep(p) \/ \E m \in Replicas, e \in Exchanges : SweepRead(p, m, e)
  PROVE  LoadGoes(n)
<1>t. p \in Handlers /\ handler \in [Handlers -> Handler]
  BY DEF Handlers, TypeInv, TypeOK
<1>p. queue' = queue /\ worker' = worker
  BY DEF PollerStep, SweepRead, SweepCasGet, SweepCasSet
<1>s. Passes(n)
  BY <1>p, KeptPasses
<1>w. ASSUME NEW y, handler' = [handler EXCEPT ![p] = y], y.pc # "enqueue"
      PROVE  LoadGoes(n)
  BY <1>s, <1>t, <1>w DEF LoadGoes, NothingDue
<1>o. ASSUME Finish(p)
      PROVE  LoadGoes(n)
  BY <1>o, <1>s, <1>t, OverDue DEF LoadGoes
<1>1. ASSUME NEW m \in Replicas, NEW e \in Exchanges, SweepRead(p, m, e)
      PROVE  LoadGoes(n)
  <2>1. ASSUME NEW x, NEW z, handler' = [handler EXCEPT ![p] =
                 [pc |-> "casGet", at |-> m, ex |-> e, snap |-> x, next |-> z]]
        PROVE  LoadGoes(n)
    <3> DEFINE y == [pc |-> "casGet", at |-> m, ex |-> e, snap |-> x, next |-> z]
    <3>1. y.pc = "casGet"
      OBVIOUS
    <3> HIDE DEF y
    <3> QED BY <1>w, <2>1, <3>1 DEF y
  <2> QED BY <1>1, <2>1 DEF SweepRead
<1>2. CASE SweepCasGet(p)
  <2> DEFINE y == [handler[p] EXCEPT !.pc = "casSet"]
  <2>1. y.pc = "casSet"
    BY <1>t DEF Handler
  <2>2. Finish(p) \/ handler' = [handler EXCEPT ![p] = y]
    BY <1>2 DEF SweepCasGet
  <2> HIDE DEF y
  <2> QED BY <1>o, <1>w, <2>1, <2>2
<1>3. CASE SweepCasSet(p)
  <2>1. CASE handler[p].next.task.status # "queued"
    BY <1>3, <1>o, <2>1 DEF SweepCasSet
  <2>2. CASE handler[p].next.task.status = "queued"
    <3>1. Sends(p)
      BY <1>3, <1>p, <2>2 DEF SweepCasSet, Sends
    <3> QED BY <1>t, <3>1 DEF LoadGoes
  <2> QED BY <2>1, <2>2
<1> QED BY <1>1, <1>2, <1>3 DEF PollerStep

(* The drainer moves an id from the queue to its hand, or drops what is in   *)
(* it.                                                                       *)
LEMMA DrainerLoad ==
  ASSUME TypeInv, NEW n \in Replicas, NEW m \in Replicas, m = n, WorkerStep(n) \/ WorkerStoreFault(n)
  PROVE  LoadGoes(n)
<1>t. worker \in [Replicas -> Worker] /\ queue \in [Replicas -> Seq(Exchanges)]
  BY DEF TypeInv, TypeOK
<1>h. handler' = handler
  BY DEF WorkerStep, DrainNext, DrainStop, WorkerLoad, WorkerMarkGet, WorkerMarkSet,
         WorkerVerify, WorkerCommitGet, WorkerCommitSet, WorkerStoreFault
<1>d. NothingDue
  BY <1>h DEF NothingDue
<1>1. CASE DrainNext(n)
  <2> DEFINE q == queue[n]
             w == [worker[n] EXCEPT !.pc = "load", !.ex = Head(q)]
  <2>1. q \in Seq(Exchanges) /\ q # <<>> /\ queue'[n] = Tail(q) /\ worker'[n] = w
    BY <1>1, <1>t DEF DrainNext
  <2>2. w.ex = Head(q) /\ Head(q) \in Exchanges
    BY <1>t, <2>1 DEF Worker
  <2> HIDE DEF w
  <2>3. ASSUME NEW e \in Exchanges
        PROVE  Cardinality(Waiting(Tail(q), e)) + InHand(w, e)
                 <= Cardinality(Waiting(q, e)) + InHand(worker[n], e)
    <3>1. InHand(w, e) = IF Head(q) = e THEN 1 ELSE 0
      BY <2>2 DEF InHand
    <3>2. Cardinality(Waiting(Tail(q), e)) + InHand(w, e) <= Cardinality(Waiting(q, e))
      BY <2>1, <3>1, WaitingTail
    <3>3. Tail(q) \in Seq(Exchanges)
      BY <2>1
    <3>4. /\ Cardinality(Waiting(Tail(q), e)) \in Nat /\ Cardinality(Waiting(q, e)) \in Nat
          /\ InHand(w, e) \in {0, 1} /\ InHand(worker[n], e) \in {0, 1}
      BY <2>1, <3>3, WaitingFinite DEF InHand
    <3> QED BY <3>2, <3>4
  <2> QED BY <1>d, <2>1, <2>3 DEF Passes, LoadGoes
<1>2. ASSUME queue' = queue, worker'[n].ex \in {worker[n].ex, None}
      PROVE  LoadGoes(n)
  BY <1>2, <1>d, KeptPasses DEF LoadGoes
<1>3. CASE ~DrainNext(n)
  <2>1. queue' = queue
    BY <1>3 DEF WorkerStep, DrainStop, WorkerLoad, WorkerMarkGet, WorkerMarkSet,
                WorkerVerify, WorkerCommitGet, WorkerCommitSet, WorkerStoreFault
  <2>2. \A pc : RestingWorker(pc).ex = None
    BY DEF RestingWorker
  <2>v. worker[n] \in Worker
    BY <1>t
  <2>f. \A pc, x : [worker[n] EXCEPT !.pc = pc, !.snap = x].ex = worker[n].ex
    BY <2>v DEF Worker
  <2>g. Verifying(worker[n]).ex = worker[n].ex
    BY <2>v DEF Worker, Verifying
  <2>p. ASSUME NEW pc, NEW x, worker'[n] = [worker[n] EXCEPT !.pc = pc, !.next = x]
        PROVE  worker'[n].ex = worker[n].ex
    BY <2>p, <2>v DEF Worker
  <2>c. ASSUME NEW pc, worker'[n] = [worker[n] EXCEPT !.pc = pc]
        PROVE  worker'[n].ex = worker[n].ex
    BY <2>c, <2>v DEF Worker
  <2>m. ASSUME NEW x, NEW y, worker'[n] = [worker[n] EXCEPT !.todo = x, !.merged = y]
        PROVE  worker'[n].ex = worker[n].ex
    BY <2>m, <2>v DEF Worker
  <2>3. CASE DrainStop(n) \/ WorkerCommitSet(n) \/ WorkerStoreFault(n)
    BY <1>2, <1>t, <2>1, <2>2, <2>3 DEF DrainStop, WorkerCommitSet, WorkerStoreFault
  <2>4. CASE WorkerMarkSet(n)
    BY <1>2, <1>t, <2>1, <2>4, <2>g DEF WorkerMarkSet
  <2>5. CASE WorkerLoad(n)
    BY <1>2, <1>t, <2>1, <2>2, <2>5, <2>f DEF WorkerLoad
  <2>6. CASE WorkerMarkGet(n)
    <3>1. \/ \E x : worker'[n] = [worker[n] EXCEPT !.pc = "markSet", !.next = x]
          \/ worker'[n] = Verifying(worker[n])
      BY <1>t, <2>6 DEF WorkerMarkGet
    <3>2. worker'[n].ex = worker[n].ex
      BY <2>g, <2>p, <3>1
    <3> QED BY <1>2, <2>1, <3>2
  <2>7. CASE WorkerVerify(n)
    <3>1. \/ \E x, y : worker'[n] = [worker[n] EXCEPT !.todo = x, !.merged = y]
          \/ worker'[n] = [worker[n] EXCEPT !.pc = "failing"]
      BY <1>t, <2>7 DEF WorkerVerify
    <3>2. worker'[n].ex = worker[n].ex
      BY <2>c, <2>m, <3>1
    <3> QED BY <1>2, <2>1, <3>2
  <2>8. CASE WorkerCommitGet(n)
    <3>1. \/ \E x : worker'[n] = [worker[n] EXCEPT !.pc = "commitSet", !.next = x]
          \/ worker'[n] = RestingWorker("drain")
      BY <1>t, <2>8 DEF WorkerCommitGet
    <3>2. worker'[n].ex \in {worker[n].ex, None}
      BY <2>2, <2>p, <3>1
    <3> QED BY <1>2, <2>1, <3>2
  <2> QED BY <1>3, <2>3, <2>4, <2>5, <2>6, <2>7, <2>8 DEF WorkerStep
<1> QED BY <1>1, <1>3

LEMMA OtherLoad ==
  ASSUME TypeInv, NEW n \in Replicas, Replicas = {n},
         \/ \E e \in Exchanges : CreateExchange(e) \/ DeadlineLapses(e) \/ Expire(e)
         \/ \E h \in Handlers : EnqueueVerifyTask(h) \/ HandlerStoreFault(h)
         \/ Crash(n)
         \/ UNCHANGED vars
  PROVE  LoadGoes(n)
<1>t. /\ worker \in [Replicas -> Worker] /\ queue \in [Replicas -> Seq(Exchanges)]
      /\ handler \in [Handlers -> Handler]
  BY DEF TypeInv, TypeOK
<1>1. CASE UNCHANGED <<queue, worker, handler>>
  BY <1>1, KeptPasses DEF NothingDue, LoadGoes
<1>2. ASSUME NEW h \in Handlers, HandlerStoreFault(h)
      PROVE  LoadGoes(n)
  <2>1. NothingDue
    BY <1>2, OverDue DEF HandlerStoreFault
  <2> QED BY <1>2, <2>1, KeptPasses DEF HandlerStoreFault, LoadGoes
<1>3. ASSUME NEW h \in Handlers, EnqueueVerifyTask(h)
      PROVE  LoadGoes(n)
  <2>1. handler[h].at = n
    BY <1>3 DEF EnqueueVerifyTask, TypeInv, AtWork, HandlerAtWork
  <2>2. queue'[n] = Append(queue[n], handler[h].ex)
    BY <1>3, <1>t, <2>1 DEF EnqueueVerifyTask, Enqueued
  <2>3. worker'[n] = worker[n] \/ worker'[n].ex = None
    BY <1>3, <1>t, <2>1 DEF EnqueueVerifyTask, Enqueued, RestingWorker
  <2>4. \A e \in Exchanges : InHand(worker'[n], e) <= InHand(worker[n], e)
    BY <2>3, ActorsAssumption DEF InHand
  <2>5. handler[h].pc = "enqueue" /\ Finish(h)
    BY <1>3 DEF EnqueueVerifyTask
  <2> QED BY <2>2, <2>4, <2>5, OverDue DEF TakesUp, LoadGoes
<1>4. CASE Crash(n)
  <2>1. NothingDue
    BY <1>4 DEF Crash, NothingDue, RestingHandler
  <2>2. queue'[n] = <<>> /\ worker'[n].ex = None
    BY <1>4, <1>t DEF Crash, RestingWorker
  <2>3. ASSUME NEW e \in Exchanges
        PROVE  Cardinality(Waiting(queue'[n], e)) + InHand(worker'[n], e)
                 <= Cardinality(Waiting(queue[n], e)) + InHand(worker[n], e)
    <3>1. Cardinality(Waiting(queue'[n], e)) = 0 /\ InHand(worker'[n], e) = 0
      BY <2>2, WaitingEmpty, ActorsAssumption DEF InHand
    <3> QED BY <3>1, QueueTyped
  <2> QED BY <2>1, <2>3 DEF Passes, LoadGoes
<1> QED BY <1>1, <1>2, <1>3, <1>4 DEF CreateExchange, DeadlineLapses, Expire, vars

LEMMA LoadSteps == ASSUME TypeInv, [Next]_vars, NEW n \in Replicas, Replicas = {n} PROVE LoadGoes(n)
BY RequestLoad, PollerLoad, DrainerLoad, OtherLoad DEF Next

LEMMA LoadTyped ==
  ASSUME TypeInv, NEW n \in Replicas, NEW e, IsFiniteSet(Due(e))
  PROVE  Load(n, e) \in Nat
BY QueueTyped, FS_CardinalityType DEF Load

LEMMA LoadChanges ==
  ASSUME TypeInv, [Next]_vars, NEW n \in Replicas, Replicas = {n}, NEW e \in Exchanges,
         IsFiniteSet(Due(e))
  PROVE  /\ IsFiniteSet(Due(e)')
         /\ Load(n, e)' \in Nat
         /\ \/ Load(n, e)' <= Load(n, e)
            \/ /\ \E h \in Handlers : Sends(h) /\ handler[h].ex = e
               /\ Load(n, e)' <= Load(n, e) + 1
<1> DEFINE a == Cardinality(Waiting(queue[n], e))
           b == InHand(worker[n], e)
           c == Cardinality(Due(e))
           A == Cardinality(Waiting(queue'[n], e))
           B == InHand(worker'[n], e)
           D == {h \in Handlers : handler'[h].pc = "enqueue" /\ handler'[h].ex = e}
<1>1. queue'[n] \in Seq(Exchanges) /\ queue[n] \in Seq(Exchanges)
  BY NextTyped DEF TypeInv, TypeOK
<1>2. /\ a \in Nat /\ b \in {0, 1} /\ c \in Nat /\ A \in Nat /\ B \in {0, 1}
  BY <1>1, WaitingFinite, FS_CardinalityType DEF InHand
<1>3. D = Due(e)'
  BY DEF Due
<1>4. Load(n, e) = a + b + c /\ Load(n, e)' = A + B + Cardinality(D)
  BY <1>3 DEF Load, Waiting, InHand
<1>t. handler \in [Handlers -> Handler]
  BY DEF TypeInv, TypeOK
<1> HIDE DEF a, b, c, A, B
<1>5. CASE NothingDue /\ Passes(n)
  <2>1. D \in SUBSET Due(e)
    BY <1>5 DEF NothingDue, Due
  <2>2. IsFiniteSet(D) /\ Cardinality(D) <= c
    BY <2>1, FS_Subset DEF c
  <2>3. Cardinality(D) \in Nat
    BY <2>2, FS_CardinalityType
  <2>4. A + B <= a + b
    BY <1>5 DEF Passes, A, B, a, b
  <2> HIDE DEF D
  <2> QED BY <1>2, <1>3, <1>4, <2>2, <2>3, <2>4
<1>6. ASSUME NEW h \in Handlers, TakesUp(n, h)
      PROVE  /\ IsFiniteSet(D)
             /\ A + B + Cardinality(D) \in Nat
             /\ A + B + Cardinality(D) <= a + b + c
  <2>1. B <= b
    BY <1>6 DEF TakesUp, B, b
  <2>2. D = Due(e) \ {h}
    BY <1>6 DEF TakesUp, Due
  <2>3. h \in Due(e) <=> handler[h].ex = e
    BY <1>6 DEF TakesUp, Due
  <2>4. handler[h].ex \in Exchanges
    BY <1>6 DEF TakesUp, TypeInv, AtWork, HandlerAtWork
  <2>5. A = a + (IF handler[h].ex = e THEN 1 ELSE 0)
    BY <1>1, <1>6, <2>4, WaitingAppend DEF TakesUp, A, a
  <2>6. IsFiniteSet(D) /\ Cardinality(D) = IF h \in Due(e) THEN c - 1 ELSE c
    BY <2>2, FS_RemoveElement DEF c
  <2>7. Cardinality(D) \in Nat
    BY <2>6, FS_CardinalityType
  <2> HIDE DEF D
  <2> QED BY <1>2, <2>1, <2>3, <2>5, <2>6, <2>7
<1>7. ASSUME NEW h \in Handlers, Sends(h)
      PROVE  /\ IsFiniteSet(D)
             /\ A + B + Cardinality(D) \in Nat
             /\ \/ A + B + Cardinality(D) <= a + b + c
                \/ handler[h].ex = e /\ A + B + Cardinality(D) <= a + b + c + 1
  <2>1. A = a /\ B = b
    BY <1>7 DEF Sends, A, B, a, b
  <2> DEFINE y == [handler[h] EXCEPT !.pc = "enqueue"]
  <2>2. y.pc = "enqueue" /\ y.ex = handler[h].ex /\ handler' = [handler EXCEPT ![h] = y]
        /\ handler[h].pc # "enqueue"
    BY <1>t, <1>7 DEF Sends, Handler
  <2> HIDE DEF y
  <2>3. D = Due(e) \cup {k \in {h} : handler[h].ex = e}
    BY <1>t, <2>2 DEF Due
  <2>4. CASE handler[h].ex = e
    <3>1. D = Due(e) \cup {h}
      BY <2>3, <2>4
    <3>2. h \notin Due(e)
      BY <2>2 DEF Due
    <3>4. /\ IsFiniteSet(Due(e) \cup {h})
          /\ Cardinality(Due(e) \cup {h}) = IF h \in Due(e) THEN c ELSE c + 1
      BY FS_AddElement DEF c
    <3>3. IsFiniteSet(D) /\ Cardinality(D) = c + 1
      BY <3>1, <3>2, <3>4
    <3> HIDE DEF D
    <3> QED BY <1>2, <2>1, <2>4, <3>3
  <2>5. CASE handler[h].ex # e
    <3>1. D = Due(e)
      BY <2>3, <2>5
    <3> HIDE DEF D
    <3> QED BY <1>2, <2>1, <3>1 DEF c
  <2> QED BY <2>4, <2>5
<1> HIDE DEF D
<1> QED BY <1>3, <1>4, <1>5, <1>6, <1>7, LoadSteps DEF LoadGoes

-----------------------------------------------------------------------------
(* The load of an exchange is within the attempts that were made at it.  A   *)
(* record that is gone no longer says how many that were: what remains is    *)
(* that at most one handler may still believe that it adds to them.          *)

Coming(h, e) ==
  /\ handler[h].ex = e
  /\ \/ h \in Presenting /\ UnderVerification(h)
     \/ handler[h].pc = "casSet" /\ handler[h].next.task.status = "queued"

Comers(e) == {h \in Handlers : Coming(h, e)}

Within(x, load, comers) ==
  /\ x.state = "none" => load = 0
  /\ Readable(x) => load <= x.task.attempt
  /\ Gone(x) => /\ load <= MaxAttempts
                /\ \A h, k \in comers : h = k
                /\ comers # {} => load < MaxAttempts

WithinAttempts(n, e) == IsFiniteSet(Due(e)) /\ Within(store[e], Load(n, e), Comers(e))

LoadInv(n) == \A e \in Exchanges : WithinAttempts(n, e)

LEMMA HandlerFacts ==
  ASSUME ProcessInv, NEW h \in Handlers
  PROVE  /\ handler[h] \in Handler /\ HandlerCurrent(h) /\ KindFits(h, handler[h].pc)
         /\ handler[h].snap \in Exchange /\ handler[h].next \in Exchange
         /\ h \in Pollers => h \notin Presenting /\ h \notin Requests
         /\ handler[h].pc \notin {"idle", "done", "failed"} => handler[h].ex \in Exchanges
BY ActorsAssumption
   DEF ProcessInv, TypeInv, TypeOK, AtWork, HandlerAtWork, Current, KindsFit, Handler,
       Presenting, Requests

LEMMA SweptQueued ==
  ASSUME NEW x \in Exchange, NEW y, Swept(x, y), y.task.status = "queued"
  PROVE  /\ x.task.attempt < MaxAttempts /\ x.task.status # "none"
         /\ y.task.attempt = x.task.attempt + 1 /\ Readable(x) /\ Readable(y)
<1>1. y # GivenUp(x)
  BY DEF GivenUp, MarkGaveUp, Exchange, Task
<1>2. PICK id \in AttemptIds : y = Bumped(x, id) /\ MayRetry(x) /\ Pending(x)
  BY <1>1 DEF Swept
<1>3. y.state = x.state /\ y.task.attempt = x.task.attempt + 1
  BY <1>2 DEF Bumped, WithVerifyTask, BumpAttempt, Exchange, Task
<1> QED BY <1>2, <1>3 DEF MayRetry, Pending, Readable

(* Who goes on to enqueue is a presentation with badges, or a sweep that     *)
(* retries.                                                                  *)
LEMMA WhoSends ==
  ASSUME ProcessInv, NEW h \in Handlers, Sends(h)
  PROVE  \/ h \in Presenting /\ handler[h].pc = "save"
         \/ /\ h \notin Presenting /\ handler[h].pc = "casSet"
            /\ handler[h].next.task.status = "queued" /\ Swept(handler[h].snap, handler[h].next)
<1> DEFINE y == handler[h]
<1>1. CASE h \in Presenting
  BY <1>1, HandlerFacts DEF Sends, KindFits
<1>2. CASE h \notin Presenting
  <2>1. Reread(h, y)
    BY <1>2, HandlerFacts DEF Sends, HandlerCurrent, AtStore
  <2>2. CASE y.pc = "save"
    <3>1. h \in Requests /\ h \notin Pollers
      BY <2>2, HandlerFacts DEF KindFits
    <3>2. y.next.task = y.snap.task
      BY <2>1, <3>1, HandlerFacts DEF Reread, EnsureOid4vpState, Exchange
    <3> QED BY <2>2, <3>2 DEF Sends
  <2>3. CASE y.pc = "casSet"
    <3>1. h \in Pollers
      BY <2>3, HandlerFacts DEF KindFits
    <3>2. h \notin Requests /\ h \notin Openers /\ h \notin AuthRequests
      BY <3>1, HandlerFacts DEF Requests
    <3> QED BY <1>2, <2>1, <2>3, <3>2 DEF Reread, Sends
  <2> QED BY <2>2, <2>3 DEF Sends
<1> QED BY <1>1, <1>2

(* While the record is there, it counts whoever sends.                       *)
LEMMA SentIsCounted ==
  ASSUME ProcessInv, OrderInv, NEW h \in Handlers, Sends(h), ~Gone(store[handler[h].ex])
  PROVE  LET e == handler[h].ex IN
         /\ Readable(store[e]) /\ Readable(store'[e])
         /\ store'[e].task.attempt = store[e].task.attempt + 1
<1> DEFINE e == handler[h].ex
           s == handler[h].snap
           y == handler[h].next
<1>1. e \in Exchanges /\ store[e] \in Exchange /\ s \in Exchange /\ store'[e] = y
  <2>1. e \in Exchanges /\ store \in [Exchanges -> Exchange]
    BY HandlerFacts DEF Sends, ProcessInv, TypeInv, TypeOK
  <2> QED BY <2>1, HandlerFacts DEF Sends, Put, Gone
<1>2. CASE h \in Presenting /\ handler[h].pc = "save"
  <2>1. Unjudged(s) /\ Unjudged(store[e]) /\ Verdict(s, y)
    BY <1>2, HandlerFacts DEF OrderInv, PresenterOrderly, UnderVerification, HandlerCurrent
  <2>2. ASSUME NEW res, y = ApplyVerificationResults(s, res)
        PROVE  FALSE
    <3>1. y.task = s.task
      BY <1>1, <2>2 DEF ApplyVerificationResults, Exchange
    <3> QED BY <1>2, <3>1 DEF Sends
  <2>3. ASSUME NEW res, NEW id, y = WithSyncResultsAndQueuedVerifyTask(s, res, id)
        PROVE  y.task.attempt = 1 /\ y.state = "active"
    BY <1>1, <2>3 DEF WithSyncResultsAndQueuedVerifyTask, ApplyVerificationResults,
                      NewVerifyTask, Exchange
  <2>4. y.task.attempt = 1 /\ y.state = "active"
    BY <2>1, <2>2, <2>3 DEF Verdict
  <2> QED BY <1>1, <2>1, <2>4 DEF Unjudged, NoTask, Readable
<1>3. CASE /\ h \notin Presenting /\ handler[h].pc = "casSet"
           /\ handler[h].next.task.status = "queued" /\ Swept(s, y)
  <2>1. store[e] = s
    BY <1>3, HandlerFacts DEF HandlerCurrent, AtStore
  <2> QED BY <1>1, <1>3, <2>1, SweptQueued
<1> QED BY <1>2, <1>3, WhoSends

(* ...and leaves room for whoever may.                                       *)
LEMMA ComingHasRoom ==
  ASSUME OneProcess, ProcessInv, OrderInv, NEW e \in Exchanges, ~Gone(store[e]),
         NEW h \in Handlers, Coming(h, e)
  PROVE  /\ store[e].task.attempt < MaxAttempts
         /\ \A k \in Handlers : Coming(k, e) => h = k
<1>1. ASSUME NEW k \in Handlers, Coming(k, e)
      PROVE  \/ /\ k \in Presenting /\ UnderVerification(k) /\ Unjudged(store[e])
             \/ /\ handler[k].pc = "casSet" /\ store[e].task.status # "none"
                /\ store[e].task.attempt < MaxAttempts
  <2>1. CASE k \in Presenting /\ UnderVerification(k)
    BY <1>1, <2>1 DEF OrderInv, PresenterOrderly, Coming
  <2>2. CASE handler[k].pc = "casSet" /\ handler[k].next.task.status = "queued"
    <3>1. k \in Pollers /\ k \notin Presenting /\ k \notin Requests
      BY <2>2, HandlerFacts DEF KindFits
    <3>2. Reread(k, handler[k]) /\ store[e] = handler[k].snap
      BY <1>1, <2>2, <3>1, HandlerFacts DEF HandlerCurrent, AtStore, Coming
    <3>3. Swept(handler[k].snap, handler[k].next)
      BY <3>1, <3>2 DEF Reread, Requests
    <3> QED BY <2>2, <3>2, <3>3, HandlerFacts, SweptQueued
  <2> QED BY <1>1, <2>1, <2>2 DEF Coming
<1>2. store[e].task.attempt < MaxAttempts
  BY <1>1, MaxAttemptsAssumption DEF Unjudged, NoTask
<1>3. ASSUME NEW k \in Handlers, Coming(k, e)
      PROVE  h = k
  <2>1. CASE Unjudged(store[e])
    <3>1. \A j \in {h, k} : j \in Presenting /\ UnderVerification(j) /\ handler[j].ex = e
      BY <1>1, <1>3, <2>1 DEF Unjudged, NoTask, Coming
    <3> QED BY <3>1 DEF OrderInv, OnePresenter
  <2>2. CASE ~Unjudged(store[e])
    <3>1. handler[h].pc = "casSet" /\ handler[k].pc = "casSet"
      BY <1>1, <1>3, <2>2
    <3>2. handler[h].at \in Replicas /\ turn[handler[h].at] = h /\ h \in Actors
      BY <3>1, ActorsTyped
         DEF ProcessInv, TypeInv, AtWork, HandlerAtWork, Current, TurnHeld, AtStore
    <3> QED BY <3>1, <3>2, Alone DEF ProcessInv, Current, HasTurn, AtStore
  <2> QED BY <2>1, <2>2
<1> QED BY <1>2, <1>3

(* Nobody comes to a record that is gone.                                    *)
LEMMA NobodyComes ==
  ASSUME ProcessInv, [Next]_vars, NEW e \in Exchanges, Gone(store[e]), NEW h \in Handlers,
         Coming(h, e)'
  PROVE  Coming(h, e)
<1> DEFINE x == handler[h]
           y == handler'[h]
<1>1. HandlerGoes(h) /\ x \in Handler /\ KindFits(h, x.pc)
  BY HandlerSteps, HandlerFacts DEF ProcessInv
<1>2. /\ y.ex = e
      /\ \/ h \in Presenting /\ y.pc \in {"body", "verify", "save"}
         \/ y.pc = "casSet" /\ y.next.task.status = "queued"
  BY DEF Coming, UnderVerification
<1>3. CASE y = x
  BY <1>2, <1>3 DEF Coming, UnderVerification
<1>4. ~Arrived(h, y)
  BY <1>2 DEF Arrived, Gone, Readable
<1>5. CASE Taken(h, y)
  <2>1. y.ex = x.ex /\ y.pc = "verify" /\ x.pc = "body"
    BY <1>1, <1>5 DEF Taken, Handler
  <2> QED BY <1>2, <2>1 DEF Coming, UnderVerification
<1>6. CASE Judged(h, y)
  <2>1. y.ex = x.ex /\ y.pc = "save" /\ x.pc = "verify"
    BY <1>1, <1>6 DEF Judged, Handler
  <2> QED BY <1>2, <2>1 DEF Coming, UnderVerification
<1>7. ~Compared(h, y)
  <2>1. Compared(h, y) => y.ex = x.ex
    BY <1>1 DEF Compared, Handler
  <2> QED BY <1>2, <2>1 DEF Compared, CasMatches, Gone, Readable
<1> QED BY <1>1, <1>2, <1>3, <1>4, <1>5, <1>6, <1>7 DEF HandlerGoes, Wrote

(* A record that can be read goes on to be read, unless it expires.          *)
LEMMA OnlyExpires ==
  ASSUME ProcessInv, OrderInv, [Next]_vars, NEW e \in Exchanges, Readable(store[e]),
         ~Readable(store'[e])
  PROVE  Gone(store'[e]) /\ UNCHANGED handler
<1> DEFINE x == store[e]
           y == store'[e]
<1>x. x \in Exchange
  BY RecordsTyped DEF ProcessInv
<1>1. StoreGoes(e)
  BY StoreSteps DEF ProcessInv
<1>2. ASSUME NEW h \in Handlers, handler[h].pc \in {"save", "casSet"}, e = handler[h].ex,
             y = handler[h].next
      PROVE  FALSE
  <2> DEFINE s == handler[h].snap
  <2>1. CASE h \in Presenting
    <3>1. Unjudged(s) /\ Verdict(s, y) /\ s \in Exchange
      BY <1>2, <2>1, ActorsAssumption, HandlerFacts
         DEF HandlerCurrent, KindFits, OrderInv, PresenterOrderly, UnderVerification, Presenting
    <3>2. ASSUME NEW res, y = ApplyVerificationResults(s, res)
          PROVE  Readable(y)
      BY <3>1, <3>2 DEF ApplyVerificationResults, Outcome, Exchange, Readable
    <3>3. ASSUME NEW res, NEW id, y = WithSyncResultsAndQueuedVerifyTask(s, res, id)
          PROVE  Readable(y)
      <4>1. y.state = "active"
        BY <3>1, <3>3 DEF WithSyncResultsAndQueuedVerifyTask, ApplyVerificationResults, Exchange
      <4> QED BY <4>1 DEF Readable
    <3> QED BY <3>1, <3>2, <3>3 DEF Verdict
  <2>2. CASE h \notin Presenting
    <3>1. Reread(h, handler[h]) /\ x = s
      BY <1>2, <2>2, HandlerFacts DEF HandlerCurrent, AtStore, Gone, Readable
    <3>2. CASE Opened(x, y)
      BY <1>x, <3>2 DEF Opened, Readable, Exchange
    <3>3. ASSUME NEW g, y = EnsureOid4vpState(x, g)
          PROVE  FALSE
      BY <1>x, <3>3 DEF EnsureOid4vpState, Readable, Exchange
    <3>4. CASE Swept(x, y)
      <4>1. ASSUME NEW id, y = Bumped(x, id)
            PROVE  FALSE
        BY <1>x, <4>1 DEF Bumped, WithVerifyTask, Readable, Exchange
      <4>2. y # GivenUp(x)
        BY <1>x DEF GivenUp, Readable, Exchange
      <4> QED BY <3>4, <4>1, <4>2 DEF Swept
    <3> QED BY <1>2, <3>1, <3>2, <3>3, <3>4 DEF Reread, Opened
  <2> QED BY <2>1, <2>2
<1>3. ASSUME NEW n \in Replicas, worker[n].pc \in {"markSet", "commitSet"}, e = worker[n].ex,
             y = worker[n].next
      PROVE  FALSE
  <2>1. WorkerCurrent(n)
    BY DEF ProcessInv, Current
  <2>2. ASSUME NEW t, y = WithVerifyTask(x, t)
        PROVE  FALSE
    BY <1>x, <2>2 DEF WithVerifyTask, Readable, Exchange
  <2>3. y # Settled(worker[n].snap, worker[n].merged)
    <3>1. worker[n].snap \in Exchange
      BY RecordsTyped DEF ProcessInv
    <3>2. Settled(worker[n].snap, worker[n].merged).state \in {"complete", "invalid"}
      BY <3>1 DEF Settled, Outcome, Exchange
    <3> QED BY <3>2 DEF Readable
  <2> QED BY <1>3, <2>1, <2>2, <2>3 DEF WorkerCurrent, Gone, Readable
<1> QED BY <1>1, <1>2, <1>3 DEF StoreGoes, Gone, NotStored, Readable

LEMMA NextWithin ==
  ASSUME OneProcess, ProcessInv, OrderInv, [Next]_vars, NEW n \in Replicas, LoadInv(n),
         NEW e \in Exchanges
  PROVE  WithinAttempts(n, e)'
<1> DEFINE x == store[e]
           y == store'[e]
           L == Load(n, e)
           M == Load(n, e)'
           C == Comers(e)
           D == Comers(e)'
<1>r. Replicas = {n}
  BY DEF OneProcess
<1>1. IsFiniteSet(Due(e)) /\ Within(x, L, C) /\ TypeInv
  BY DEF LoadInv, WithinAttempts, ProcessInv
<1>2. /\ IsFiniteSet(Due(e)') /\ M \in Nat /\ L \in Nat
      /\ \/ M <= L
         \/ M <= L + 1 /\ \E h \in Handlers : Sends(h) /\ handler[h].ex = e
  BY <1>1, <1>r, LoadChanges, LoadTyped
<1>3. /\ x \in Exchange /\ y \in Exchange /\ x.task.attempt \in Nat /\ y.task.attempt \in Nat
      /\ x.task.attempt <= MaxAttempts /\ MaxAttempts \in Nat
  BY <1>1, NextTyped, MaxAttemptsAssumption DEF TypeInv, TypeOK, Exchange, Task
<1>4. StoreMoves(e) /\ AttemptAdvances(x, y)
  BY NextMoves, MovesAdvance DEF ProcessInv
<1>5. /\ \A h \in C : h \in Handlers /\ Coming(h, e)
      /\ Gone(x) => D \subseteq C
      /\ handler' = handler => D = C
  BY NobodyComes DEF Comers, Coming, UnderVerification
<1> HIDE DEF L, M, C, D
<1> SUFFICES Within(y, M, D)
  BY <1>2 DEF WithinAttempts, M, D
<1>6. ASSUME NEW h \in Handlers, Sends(h), handler[h].ex = e, M <= L + 1, ~Gone(x)
      PROVE  Within(y, M, D)
  <2>1. Readable(x) /\ Readable(y) /\ y.task.attempt = x.task.attempt + 1
    BY <1>6, SentIsCounted
  <2>2. M <= y.task.attempt
    BY <1>1, <1>2, <1>3, <1>6, <2>1 DEF Within
  <2> QED BY <2>1, <2>2 DEF Within, Readable, Gone
<1>7. CASE x.state = "none" /\ M <= L
  <2>1. \A r \in Presenting : ~SavedBy(r, e)
    BY <1>7 DEF SavedBy, OrderInv, PresenterOrderly, UnderVerification, Unjudged, Gone
  <2>2. \A m \in Replicas : ~MarkedBy(m, e) /\ ~SettledBy(m, e)
    BY <1>7 DEF MarkedBy, SettledBy, CasMatches, Readable
  <2>3. y = x \/ y = NewExchange
    BY <1>4, <1>7, <2>1, <2>2 DEF StoreMoves, Created, Expired, Readable
  <2>4. M = 0
    BY <1>1, <1>2, <1>7 DEF Within
  <2>5. ~Gone(y)
    BY <1>7, <2>3 DEF NewExchange, NotStored, Gone
  <2> QED BY <1>3, <2>4, <2>5 DEF Within
<1>8. CASE Readable(x) /\ M <= L
  <2>1. L <= x.task.attempt /\ M <= x.task.attempt /\ M <= MaxAttempts
    BY <1>1, <1>2, <1>3, <1>8 DEF Within
  <2>2. CASE Readable(y)
    <3>1. M <= y.task.attempt
      BY <1>2, <1>3, <1>4, <1>8, <2>1, <2>2 DEF AttemptAdvances
    <3> QED BY <2>2, <3>1 DEF Within, Readable, Gone
  <2>3. CASE ~Readable(y)
    <3>1. Gone(y) /\ D = C /\ ~Gone(x)
      BY <1>5, <1>8, <2>3, OnlyExpires DEF Readable, Gone
    <3>2. ASSUME NEW h \in C
          PROVE  x.task.attempt < MaxAttempts /\ \A k \in C : h = k
      BY <1>5, <3>1, <3>2, ComingHasRoom
    <3>3. D # {} => M < MaxAttempts
      BY <1>2, <1>3, <2>1, <3>1, <3>2
    <3> QED BY <2>1, <2>3, <3>1, <3>2, <3>3 DEF Within, Gone
  <2> QED BY <2>2, <2>3
<1>9. CASE Gone(x)
  <2>1. y = x
    BY <1>4, <1>9
       DEF StoreMoves, Created, Expired, SavedBy, MarkedBy, SettledBy, CasMatches, Readable, Gone
  <2>2. L <= MaxAttempts /\ (\A h, k \in C : h = k) /\ (C # {} => L < MaxAttempts)
    BY <1>1, <1>9 DEF Within
  <2>3. ~Readable(y) /\ y.state # "none"
    BY <1>9, <2>1 DEF Gone, Readable
  <2>4. CASE M <= L
    <3>1. M <= MaxAttempts /\ (C # {} => M < MaxAttempts)
      BY <1>2, <1>3, <2>2, <2>4
    <3> QED BY <1>5, <1>9, <2>2, <2>3, <3>1 DEF Within
  <2>5. ASSUME NEW h \in Handlers, Sends(h), handler[h].ex = e, M <= L + 1
        PROVE  Within(y, M, D)
    <3>1. h \in C
      BY <2>5, WhoSends DEF C, Comers, Coming, UnderVerification
    <3>2. M <= MaxAttempts
      BY <1>2, <1>3, <2>2, <2>5, <3>1
    <3>3. h \notin D
      <4>1. handler'[h].pc = "enqueue"
        BY <1>1, <2>5 DEF Sends, TypeInv, TypeOK, Handler
      <4> QED BY <4>1 DEF D, Comers, Coming, UnderVerification
    <3>4. D = {}
      BY <1>5, <1>9, <2>2, <3>1, <3>3
    <3> QED BY <2>3, <3>2, <3>4 DEF Within
  <2> QED BY <1>2, <2>4, <2>5
<1>10. x.state = "none" \/ Readable(x) \/ Gone(x)
  BY <1>3 DEF Exchange, ExchangeState, Readable, Gone
<1>11. x.state = "none" \/ Readable(x) => ~Gone(x)
  BY DEF Readable, Gone
<1> QED BY <1>2, <1>6, <1>7, <1>8, <1>9, <1>10, <1>11

LEMMA InitWithin == ASSUME Init, NEW n \in Replicas PROVE LoadInv(n)
<1> SUFFICES ASSUME NEW e \in Exchanges PROVE WithinAttempts(n, e)
  BY DEF LoadInv
<1>1. Due(e) = {}
  BY DEF Init, Due, RestingHandler
<1>2. IsFiniteSet(Due(e)) /\ Cardinality(Due(e)) = 0
  BY <1>1, FS_EmptySet
<1>3. Cardinality(Waiting(queue[n], e)) = 0
  BY WaitingEmpty DEF Init
<1>4. InHand(worker[n], e) = 0
  BY ActorsAssumption DEF Init, InHand, RestingWorker
<1>5. Load(n, e) = 0
  BY <1>2, <1>3, <1>4 DEF Load
<1>6. store[e].state = "none"
  BY DEF Init, NotStored
<1> QED BY <1>2, <1>5, <1>6 DEF WithinAttempts, Within, Readable, Gone

LEMMA LoadCoversBacklog ==
  ASSUME OneProcess, TypeInv, NEW n \in Replicas, NEW e \in Exchanges, WithinAttempts(n, e)
  PROVE  Backlog(e) <= MaxAttempts
<1> DEFINE W == Waiting(queue[n], e)
           P == {<<n, i>> : i \in W}
           U == {m \in Replicas : worker[m].ex = e}
<1>1. Replicas = {n}
  BY DEF OneProcess
<1>2. UNION {{<<m, i>> : i \in {j \in 1..Len(queue[m]) : queue[m][j] = e}} : m \in Replicas} = P
  BY <1>1 DEF Waiting
<1>3. Backlog(e) = Cardinality(P) + Cardinality(U)
  BY <1>2 DEF Backlog
<1>4. IsFiniteSet(W) /\ Cardinality(W) \in Nat
  BY WaitingFinite DEF TypeInv, TypeOK
<1>5. Cardinality(P) = Cardinality(W)
  <2> DEFINE f == [i \in W |-> <<n, i>>]
  <2>1. f \in Bijection(W, P)
    BY DEF Bijection, Injection, Surjection, IsInjective
  <2>2. ExistsBijection(W, P)
    BY <2>1 DEF ExistsBijection
  <2> HIDE DEF W, P
  <2> QED BY <1>4, <2>2, FS_Bijection
<1>6. Cardinality(U) = InHand(worker[n], e)
  <2>1. CASE worker[n].ex = e
    <3>1. U = {n}
      BY <1>1, <2>1
    <3> QED BY <2>1, <3>1, FS_Singleton DEF InHand
  <2>2. CASE worker[n].ex # e
    <3>1. U = {}
      BY <1>1, <2>2
    <3> QED BY <2>2, <3>1, FS_EmptySet DEF InHand
  <2> QED BY <2>1, <2>2
<1>7. Cardinality(Due(e)) \in Nat /\ InHand(worker[n], e) \in {0, 1}
  BY FS_CardinalityType DEF WithinAttempts, InHand
<1>8. Load(n, e) = Cardinality(W) + InHand(worker[n], e) + Cardinality(Due(e))
  BY DEF Load
<1>9. Load(n, e) <= MaxAttempts
  <2>1. /\ store[e] \in Exchange /\ store[e].task.attempt \in 0..MaxAttempts /\ MaxAttempts \in Nat
    BY MaxAttemptsAssumption DEF TypeInv, TypeOK, Exchange, Task
  <2>2. Load(n, e) \in Nat
    BY LoadTyped DEF WithinAttempts
  <2> QED BY <2>1, <2>2 DEF WithinAttempts, Within, Exchange, ExchangeState, Readable, Gone
<1> HIDE DEF W, P, U
<1> QED BY <1>3, <1>4, <1>5, <1>6, <1>7, <1>8, <1>9, MaxAttemptsAssumption

(* README: duplicate work is bounded by VERIFY_TASK_MAX_ATTEMPTS.  In        *)
(* process, with one presentation to an exchange, the passes over its badges *)
(* that wait in the queue or are under way never outnumber the attempts that *)
(* an exchange may have, whatever deadlines lapse while the worker is slow,  *)
(* whoever polls and whatever fails (enqueueVerifyTask, sweepIfTimedOut).    *)
THEOREM WorkIsBounded ==
  ASSUME OneProcess
  PROVE  Spec /\ [][PresentsOnce]_vars => []DuplicateWorkBounded
<1>1. ASSUME Replicas = {}
      PROVE  Spec => []DuplicateWorkBounded
  <2>1. DuplicateWorkBounded
    <3>1. \A e \in Exchanges : Backlog(e) = Cardinality({}) + Cardinality({})
      <4> SUFFICES ASSUME NEW e \in Exchanges PROVE Backlog(e) = Cardinality({}) + Cardinality({})
        OBVIOUS
      <4>1. UNION {{<<m, i>> : i \in {j \in 1..Len(queue[m]) : queue[m][j] = e}} : m \in Replicas} = {}
        BY <1>1
      <4>2. {m \in Replicas : worker[m].ex = e} = {}
        BY <1>1
      <4> QED BY <4>1, <4>2 DEF Backlog
    <3> QED BY <3>1, FS_EmptySet, MaxAttemptsAssumption DEF DuplicateWorkBounded
  <2> QED BY <2>1, PTL
<1>2. ASSUME NEW n \in Replicas
      PROVE  Spec /\ [][PresentsOnce]_vars => []DuplicateWorkBounded
  <2>1. Init => LoadInv(n)
    BY InitWithin
  <2>2. LoadInv(n) /\ ProcessInv /\ OrderInv /\ [Next]_vars => LoadInv(n)'
    BY NextWithin DEF LoadInv
  <2>3. LoadInv(n) /\ ProcessInv /\ OrderInv => DuplicateWorkBounded
    BY LoadCoversBacklog DEF LoadInv, ProcessInv, DuplicateWorkBounded
  <2> QED BY <2>1, <2>2, <2>3, OrderInProcess, PTL DEF Spec
<1> QED BY <1>1, <1>2
=============================================================================
