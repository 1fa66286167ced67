--------------------------- MODULE HttpCacheProofs ---------------------------
(***************************************************************************)
(* For any number of concurrent gets, any ages and any latency, what a get  *)
(* returns is recent, and errors are not remembered.  The invariant is      *)
(* CacheInv of HttpCache; only the clock's and the store's steps take       *)
(* arithmetic.                                                              *)
(***************************************************************************)
EXTENDS HttpCache, TLAPS

(* A kept response is kept for a natural number of units (Ttl).              *)
LEMMA TtlType ==
  ASSUME NEW age \in Ages \cup {0}
  PROVE  Ttl(age) \in Nat
BY TimesAssumption DEF Ttl

(* What a call and the cache start from, and go back to.                     *)
LEMMA RestingType == Resting \in Call /\ NoEntry \in Entry
<1>1. NoResponse \in Response
  BY DEF NoResponse, Response
<1> QED
  BY <1>1 DEF NoEntry, Resting, Entry, Call

(* The initial cache is empty and every call at rest.                        *)
LEMMA InitCacheInv == Init => CacheInv
BY TimesAssumption
   DEF Init, CacheInv, TypeOK, EntryKeepsTime, NothingOverdue, AnswerIsRecent,
       ErrorsAreAskedAgain, NoEntry, NoResponse, Resting, Entry, Response, Call

(* Every step keeps the invariant.                                           *)
LEMMA NextCacheInv == CacheInv /\ [Next]_vars => CacheInv'
<1> SUFFICES ASSUME CacheInv, [Next]_vars PROVE CacheInv'
  OBVIOUS
<1> USE DEF CacheInv
<1>1. ASSUME NEW g \in Gets, LookUp(g) PROVE CacheInv'
  <2>1. CASE /\ cache.stored /\ now <= cache.until
             /\ Answer(g, cache.response, TRUE)
    <3>1. Ttl(cache.response.age) \in Nat
      BY TtlType DEF TypeOK, Entry, Response
    <3>2. TypeOK'
      BY <1>1, <2>1 DEF LookUp, Answer, TypeOK, Entry, Call
    <3>3. now <= cache.response.at + Latency + Ttl(cache.response.age)
      BY <2>1, <3>1, TimesAssumption DEF EntryKeepsTime, TypeOK, Entry, Response
    <3>4. AnswerIsRecent' /\ ErrorsAreAskedAgain' /\ NothingOverdue'
      BY <1>1, <2>1, <3>3
         DEF LookUp, Answer, AnswerIsRecent, ErrorsAreAskedAgain, NothingOverdue,
             EntryKeepsTime, TypeOK, Call, Ttl
    <3> QED
      BY <1>1, <3>2, <3>4 DEF LookUp, EntryKeepsTime, Ttl
  <2>2. CASE call' = [call EXCEPT ![g].pc = "fetch"]
    BY <1>1, <2>2
       DEF LookUp, TypeOK, Call, EntryKeepsTime, NothingOverdue, AnswerIsRecent,
           ErrorsAreAskedAgain, Ttl
  <2> QED
    BY <1>1, <2>1, <2>2 DEF LookUp
<1>2. ASSUME NEW g \in Gets, Respond(g) PROVE CacheInv'
  <2>1. PICK ok \in BOOLEAN, age \in Ages :
          call' = [call EXCEPT ![g].pc = "body",
                               ![g].response = [at |-> now, ok |-> ok, age |-> age]]
    BY <1>2 DEF Respond
  <2> DEFINE r == [at |-> now, ok |-> ok, age |-> age]
  <2>2. r \in Response
    BY DEF TypeOK, Response
  <2>3. /\ call' = [call EXCEPT ![g] = [call[g] EXCEPT !.pc = "body", !.response = r]]
        /\ call[g] \in Call
    BY <2>1 DEF TypeOK
  <2>4. TypeOK'
    BY <1>2, <2>2, <2>3 DEF Respond, TypeOK, Call
  <2>5. NothingOverdue'
    BY <1>2, <2>3, TimesAssumption DEF Respond, NothingOverdue, TypeOK, Call
  <2>6. EntryKeepsTime' /\ AnswerIsRecent' /\ ErrorsAreAskedAgain'
    BY <1>2, <2>3
       DEF Respond, TypeOK, Call, EntryKeepsTime, AnswerIsRecent,
           ErrorsAreAskedAgain, Ttl
  <2> QED
    BY <2>4, <2>5, <2>6
<1>3. ASSUME NEW g \in Gets, Keep(g) PROVE CacheInv'
  <2> DEFINE r == call[g].response
  <2>1. r \in Response /\ Ttl(r.age) \in Nat /\ now \in Nat
    BY TtlType DEF TypeOK, Call, Response
  <2>2. now + Ttl(r.age) <= r.at + Latency + Ttl(r.age) /\ now + Ttl(r.age) \in Nat
    BY <1>3, <2>1, TimesAssumption DEF Keep, NothingOverdue, Response
  <2>3. now <= r.at + Latency + Ttl(r.age)
    BY <2>1, <2>2, TimesAssumption DEF Response
  <2>4. TypeOK'
    BY <1>3, <2>1, <2>2 DEF Keep, Answer, TypeOK, Call, Entry
  <2>5. EntryKeepsTime'
    BY <1>3, <2>2 DEF Keep, EntryKeepsTime, Ttl
  <2>6. AnswerIsRecent' /\ ErrorsAreAskedAgain' /\ NothingOverdue'
    BY <1>3, <2>3
       DEF Keep, Answer, AnswerIsRecent, ErrorsAreAskedAgain, NothingOverdue,
           TypeOK, Call, Ttl
  <2> QED
    BY <2>4, <2>5, <2>6
<1>4. ASSUME NEW g \in Gets, Throw(g) \/ CallAgain(g) PROVE CacheInv'
  <2>1. PICK rest \in {Resting, [Resting EXCEPT !.pc = "failed"]} :
          call' = [call EXCEPT ![g] = rest]
    BY <1>4 DEF Throw, CallAgain
  <2>2. rest \in Call /\ rest.pc \in {"idle", "failed"}
    BY RestingType DEF Resting, Call
  <2>3. TypeOK'
    BY <1>4, <2>1, <2>2 DEF Throw, CallAgain, TypeOK
  <2>4. \A h \in Gets : call'[h] = call[h] \/ call'[h].pc \in {"idle", "failed"}
    BY <2>1, <2>2 DEF TypeOK
  <2> QED
    BY <1>4, <2>3, <2>4
       DEF Throw, CallAgain, EntryKeepsTime, NothingOverdue, AnswerIsRecent,
           ErrorsAreAskedAgain, Ttl
<1>5. CASE Restart
  <2>1. TypeOK'
    BY <1>5, RestingType DEF Restart, TypeOK
  <2>2. \A g \in Gets : call'[g].pc = "idle"
    BY <1>5 DEF Restart, Resting
  <2>3. NothingOverdue' /\ AnswerIsRecent' /\ ErrorsAreAskedAgain'
    BY <2>2 DEF NothingOverdue, AnswerIsRecent, ErrorsAreAskedAgain
  <2>4. EntryKeepsTime'
    BY <1>5 DEF Restart, NoEntry, EntryKeepsTime, Ttl
  <2> QED
    BY <2>1, <2>3, <2>4
<1>6. CASE Tick
  <2>1. NothingOverdue'
    BY <1>6, TimesAssumption DEF Tick, NothingOverdue, TypeOK, Call, Response
  <2> QED
    BY <1>6, <2>1
       DEF Tick, TypeOK, EntryKeepsTime, AnswerIsRecent, ErrorsAreAskedAgain, Ttl
<1>7. CASE UNCHANGED vars
  BY <1>7 DEF vars, TypeOK, EntryKeepsTime, NothingOverdue, AnswerIsRecent,
              ErrorsAreAskedAgain, Ttl
<1> QED
  BY <1>1, <1>2, <1>3, <1>4, <1>5, <1>6, <1>7 DEF Next

(* Whatever a get returns was said by the origin no longer ago than it may   *)
(* be kept and a response may take (CachedHttpGetService).                   *)
THEOREM AnswersAreRecent == Spec => []AnswerIsRecent
<1>1. CacheInv => AnswerIsRecent
  BY DEF CacheInv
<1> QED
  BY InitCacheInv, NextCacheInv, <1>1, PTL DEF Spec

(* No error of the origin is answered to any get but the one that met it.    *)
THEOREM ErrorsAreNotKept == Spec => []ErrorsAreAskedAgain
<1>1. CacheInv => ErrorsAreAskedAgain
  BY DEF CacheInv
<1> QED
  BY InitCacheInv, NextCacheInv, <1>1, PTL DEF Spec
=============================================================================
