------------------------------ MODULE HttpCache ------------------------------
(***************************************************************************)
(* The HTTP cache through which the verifier reads registries, issuer      *)
(* documents and status lists (lib/cached-http-get-service.ts), for one    *)
(* URL: URLs have keys of their own and share nothing.                     *)
(*                                                                         *)
(* A get awaits the cache, the origin, the body and the cache again, and   *)
(* every get in the process may be at any of these.  What the origin says  *)
(* is known by the time at which it said it.  A body that cannot be read   *)
(* becomes null and is kept like any other.                                *)
(***************************************************************************)
EXTENDS Naturals

CONSTANTS
  Gets,        \* calls of get; a caller may call again when answered
  Ages,        \* what max-age may say; 0: missing, malformed or not positive
  DefaultTtl,  \* DEFAULT_TTL_MS
  Latency,     \* the longest a response is on its way, as the HTTP client's timeouts bound it
  MaxClock     \* bound: the clock's last value

ASSUME TimesAssumption ==
  Ages \subseteq Nat /\ DefaultTtl \in Nat /\ Latency \in Nat /\ MaxClock \in Nat

VARIABLES
  now,    \* the clock
  cache,  \* the entry of the URL
  call    \* per get: where it is, and its answer

vars == <<now, cache, call>>

Response == [at : Nat, ok : BOOLEAN, age : Ages \cup {0}]
Entry    == [response : Response, until : Nat, stored : BOOLEAN]
Call     == [pc : {"idle", "fetch", "body", "done", "failed"},
             response : Response, cached : BOOLEAN, answered : Nat]

NoResponse == [at |-> 0, ok |-> FALSE, age |-> 0]
NoEntry    == [response |-> NoResponse, until |-> 0, stored |-> FALSE]
Resting    == [pc |-> "idle", response |-> NoResponse, cached |-> FALSE, answered |-> 0]

Init ==
  /\ now = 0
  /\ cache = NoEntry
  /\ call = [g \in Gets |-> Resting]

(* parseCacheControlMaxAge(...) ?? DEFAULT_TTL_MS                            *)
Ttl(age) == IF age > 0 THEN age ELSE DefaultTtl

Answer(g, response, cached) ==
  call' = [call EXCEPT ![g] = [pc |-> "done", response |-> response,
                               cached |-> cached, answered |-> now]]

\* A slip: a hit prolongs the entry.
LookUpSliding(g) ==
  /\ call[g].pc = "idle"
  /\ \/ /\ cache.stored /\ now <= cache.until
        /\ Answer(g, cache.response, TRUE)
        /\ cache' = [cache EXCEPT !.until = now + Ttl(cache.response.age)]
     \/ /\ ~(cache.stored /\ now <= cache.until)
        /\ call' = [call EXCEPT ![g].pc = "fetch"]
        /\ UNCHANGED cache
  /\ UNCHANGED now

(* The entry answers until its expiry.                                       *)
LookUp(g) ==
  /\ call[g].pc = "idle"
  /\ \/ /\ cache.stored /\ now <= cache.until
        /\ Answer(g, cache.response, TRUE)
     \/ /\ ~(cache.stored /\ now <= cache.until)
        /\ call' = [call EXCEPT ![g].pc = "fetch"]
  /\ UNCHANGED <<now, cache>>

(* The origin answers, with any status; its body is still awaited.           *)
Respond(g) ==
  /\ call[g].pc = "fetch"
  /\ \E ok \in BOOLEAN, age \in Ages :
       call' = [call EXCEPT ![g].pc = "body",
                            ![g].response = [at |-> now, ok |-> ok, age |-> age]]
  /\ UNCHANGED <<now, cache>>

\* A slip: a response is kept whatever its status.
KeepAnything(g) ==
  /\ call[g].pc = "body"
  /\ Answer(g, call[g].response, FALSE)
  /\ cache' = [response |-> call[g].response, stored |-> TRUE,
               until |-> now + Ttl(call[g].response.age)]
  /\ UNCHANGED now

(* A successful response is kept, over whatever is there by now.             *)
Keep(g) ==
  /\ call[g].pc = "body"
  /\ Answer(g, call[g].response, FALSE)
  /\ cache' = IF ~call[g].response.ok THEN cache
              ELSE [response |-> call[g].response, stored |-> TRUE,
                    until |-> now + Ttl(call[g].response.age)]
  /\ UNCHANGED now

(* The cache or the fetch throws, and get with it.                           *)
Throw(g) ==
  /\ call[g].pc \in {"idle", "fetch", "body"}
  /\ call' = [call EXCEPT ![g] = [Resting EXCEPT !.pc = "failed"]]
  /\ UNCHANGED <<now, cache>>

CallAgain(g) ==
  /\ call[g].pc \in {"done", "failed"}
  /\ call' = [call EXCEPT ![g] = Resting]
  /\ UNCHANGED <<now, cache>>

(* The process restarts: its calls are gone, and with the memory backend its *)
(* cache.                                                                    *)
Restart ==
  /\ call' = [g \in Gets |-> Resting]
  /\ cache' \in {cache, NoEntry}
  /\ UNCHANGED now

Tick ==
  /\ now < MaxClock
  /\ \A g \in Gets : call[g].pc = "body" => now < call[g].response.at + Latency
  /\ now' = now + 1
  /\ UNCHANGED <<cache, call>>

Next ==
  \/ \E g \in Gets : LookUp(g) \/ Respond(g) \/ Keep(g) \/ Throw(g) \/ CallAgain(g)
  \/ Restart \/ Tick

Spec == Init /\ [][Next]_vars

-----------------------------------------------------------------------------
(* Properties *)

TypeOK ==
  /\ now \in Nat
  /\ cache \in Entry
  /\ call \in [Gets -> Call]

(* What a get returns was the origin's word no longer ago than the time it   *)
(* may be kept, by its own max-age, and a response's way here: neither a hit *)
(* nor a slow response that lands on a newer entry makes anything live on    *)
(* (CachedHttpGetService).                                                   *)
AnswerIsRecent ==
  \A g \in Gets : call[g].pc = "done" =>
    call[g].answered <= call[g].response.at + Latency + Ttl(call[g].response.age)

(* An error of the origin is told to the get that met it and to no other:    *)
(* the next one asks again ("Successful responses are cached").              *)
ErrorsAreAskedAgain ==
  \A g \in Gets : call[g].pc = "done" /\ call[g].cached => call[g].response.ok

(* What makes both so: the entry is of a success and expires in time, and no *)
(* response has been on its way for longer than it may.                      *)
EntryKeepsTime ==
  cache.stored =>
    /\ cache.response.ok
    /\ cache.until <= cache.response.at + Latency + Ttl(cache.response.age)

NothingOverdue ==
  \A g \in Gets : call[g].pc = "body" => now <= call[g].response.at + Latency

CacheInv == TypeOK /\ EntryKeepsTime /\ NothingOverdue /\ AnswerIsRecent /\ ErrorsAreAskedAgain
=============================================================================
