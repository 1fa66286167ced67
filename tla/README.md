# A TLA+ model of dcc-transaction-service

The service runs *exchanges* between an administrator's tenant and a holder's
wallet: it issues a credential (the claim workflow), verifies a presentation (the
verify workflow) or authenticates a DID (the DIDAuth workflow). Wallets reach it by
VC-API, by OpenID4VCI or by OpenID4VP. An exchange is one record in a Keyv store
(memory, file or Redis), and almost every request is a read of that record, some
awaits, and a write of the whole record. Verification of Open Badges continues
after the response, in a queue inside the process. What can go wrong lies
between the read and the write, between the queue and the record, and between
places in the code that must agree about data. That is what these modules are about.

Paths are relative to the directory that holds `package.json`.

## 1. Inventory

| Component | State it keeps | Operations | Interacts with | What is hard |
|---|---|---|---|---|
| Exchange store: `src/transactionManager.ts`, `src/keyv-store.ts` | one record per exchange id, with a TTL | `getExchangeData`, `saveExchange`, `saveExchangeWithCAS` (compares `verifyTask.attemptId`, then sets) | every handler and worker | the compare and the set are two accesses; most writers do not compare; the TTL passes; an access fails |
| Verify-task lifecycle: `src/lib/verify-task/*` | `variables.verifyTask` in the record; a FIFO and a `running` flag per process | `newVerifyTask`, `bumpAttempt`, `mark*`, `enqueueVerifyTask`, `drain`, `processVerifyTask`, `sweepIfTimedOut` | reads and writes the record by CAS; calls the verifier | a retry while the earlier attempt still runs; the queue is lost in a crash; the drainer stopping as an id arrives |
| Verify workflow: `src/workflows/verifyWorkflow.ts` | `results.default`, `state` | create, empty POST (request), POST of a presentation (synchronous pass), `applyVerificationResults` | verifier, verify-task | a plain save of a snapshot read before the verifier was awaited; two passes that each derive an outcome |
| Polling: `src/exchanges.ts`, `src/interactions.ts`, `src/hono.ts` | none of its own | GET exchange, `/protocols`, `/interactions` with JSON: read, sweep, answer | sweep | the only thing that drives retries |
| Claim workflow and OpenID4VCI: `src/workflows/claimWorkflow.ts`, `src/oid4vci/*` | `variables.oid4vci`: code, access token, nonce, each with its expiry and use mark; `results.default` | offer, token, nonce, credential, empty POST, POST with DIDAuth | status service, signing service, DIDAuth verifier | one-time secrets in a record that is saved whole; signing is not undone if the save fails |
| OpenID4VP: `src/oid4vp/*` | `variables.oid4vp`: state token, nonce, `responseReceived` | authorization request (mints the state), direct_post response | verify workflow | the replay guard is set on a snapshot and saved with the pipeline's result, much later; what is asked and what is checked is written in different files |
| DIDAuth workflow: `src/workflows/didAuthWorkflow.ts`, `src/didAuth.ts` | `state`, `results.default.holder` | create, empty POST (also by the legacy route), POST with DIDAuth | DIDAuth verifier, the interaction page | plain saves of what was read before the verifier was awaited; several proofs in one presentation: who is the holder? |
| Exchange creation: `src/exchanges.ts`, `src/schema.ts` | new records | batch and single creation, validation | store, tenants | a batch is saved row by row; dates |
| Tenants, issuer instances, registries: `src/config.ts`, `src/lib/tenant/*`, `src/lib/issuer-selection.ts` | configuration | tenant of an exchange, who may read it, which instance signs, which registries a name means | creation, claim and verify workflows | case of names; order of the fallbacks; two passes that each resolve the registries |
| Tenant authentication: `src/auth.ts`, `src/oauth/*`, `src/lib/server/exchangeToken.ts` | none (signed tokens; the secret may be the process's own) | bearer and basic auth, client-credentials tokens, exchange tokens | creation, reading, the interaction page | four ways to be recognised that must agree; one cookie per browser |
| HTTP cache: `src/lib/cached-http-get-service.ts`, `src/lib/keyv-cache-service.ts` | one entry per URL, with a TTL | get | verifier, registries | concurrent misses; a slow response that lands on a newer entry; errors |
| Compatibility fixes: `src/compatibility/*` | none | rewrite of an incoming message | verify and claim handlers | a fix that misses one shape of message |
| Interaction page: `src/interactions.ts`, `src/ui/App.tsx`, `src/ui/useExchangeStatus.ts` | protocols, the last state shown, the interval, the cookie `exchange_token` | open, fetch the protocols once, poll | GET exchange | polls overlap and fail; the cookie is replaced or lapses; when to stop asking |
| OpenID4VCI discovery: `src/oid4vci/credential-offer.ts`, `issuer-metadata.ts`, `as-metadata.ts`, the routes of `src/hono.ts` | none | offer, two metadata documents | claim exchange, issuer selection | five files that must agree on URLs, names and suites |
| Schemas, deep links, wallets, problem details, result views, CLI, health check | none | rendering | | |

Correctness, per component:

- *Store and verify task*: what a reader of a finished exchange is told
  follows from checks that were really made on the presentation it is shown, whatever snapshots
  overwrote one another; a superseded attempt never comes back; retries are bounded;
  nothing waits for ever; giving up is visible.
- *Queue*: every id queued is taken, and the drainer never sleeps on a non-empty queue.
- *Verdict*: the two passes mean the same by "verified", and merging the second into the first hides no failure.
- *Claim*: one credential per exchange, issued only against a redeemed code and a
  nonce of the exchange; a redeemed code never becomes live again; a completed exchange keeps its result.
- *OpenID4VP*: a response that begins after one was answered is refused (the documentation says the state is consumed once, but
  two responses that overlap are both accepted: observation 1); a refused one does not burn the token; the request a wallet holds stays valid.
- *Requests*: a wallet that does exactly what any offer asks is accepted by the exchange that asked and by no other.
- *Creation*: a refused request leaves nothing, an accepted one saves everything it lists, and what is not dated in the past can be read.
- *Tenants*: only the tenant that created an exchange reads its private view, and one of its instances signs.
- *DIDAuth and the page*: whoever is shown as holder signed a presentation posted to the exchange; a completed exchange stays so; the page asks until it has an outcome, and not for ever.
- *Recognition*: however a tenant identifies itself, it reads back what it created and no other tenant does.
- *Discovery*: a wallet that follows the documents arrives at its own exchange with a request that is accepted.
- *Reports*: what a result says of claims and issuers is true of the credentials it lists.
- *Cache*: nothing older than its age and a response's way here is returned, if that way is bounded, and no error is remembered.

Concurrency: one Node event loop per replica. Nothing is preempted: a handler runs
until it awaits something that is not ready. So the interleaving points are the
awaits, and they are what the actions of the modules are cut at.

## 2. Modules

State machines:

| Module | Models | Extends / used by |
|---|---|---|
| `VerifyTask` | the record of a verify exchange and the pure functions that change it: `verify-task.ts`, and the exchange builders of `verifyWorkflow.ts`, `verify-task-worker.ts`, `sweep-verify-task.ts` and `oid4vp/state.ts` | base of `VerifyExchange` |
| `VerifyExchange` | the verify workflow by VC-API and by OpenID4VP: handlers, pollers and their sweep, FIFO, drainer and worker, the store with plain saves and CAS, clock, faults, crashes | `MCVerifyExchange` (instances, symmetry); proofs: `VerifyExchangeProofs`, `InProcessProofs` on top of it, and `Oid4vpProofs` and `DrainerProofs` on top of that |
| `VerifyPromise` | abstract: what a verify exchange promises if one presentation is made (answered once, after every badge was checked, in a bounded number of attempts) | instantiated by `VerifyExchange`, once per exchange |
| `ClaimPromise` | abstract: what a claim exchange promises whoever created it (one credential, then final) | instantiated by `ClaimExchange` |
| `ClaimExchange` | the claim exchange: offer, token, nonce, credential, VC-API POSTs, over one record | `MCClaimExchange` (symmetry), `ClaimExchangeProofs` |
| `DidAuthExchange` | the DIDAuth exchange: creation, request, presentation, over one record | base of `StatusPage` |
| `StatusPage` | composes it with the interaction page of a browser: cookie, protocols, overlapping polls, restart, expiry | `StatusPageProofs` |
| `HttpCache` | the cached GET of one URL: lookup, origin, body, keeping, expiry | `HttpCacheProofs` |

Pure decisions, written as operators without state:

| Module | Models |
|---|---|
| `Verdict` | results check by check: `determineExchangeOutcome`, `mergeResults`, `mergeOpenBadgesResultsAt`, the worker's final state |
| `WalletRequests` | VPRs, DCQL and authorization request, the protocols offered, the compatibility fixes, acceptance of the answer, the holder |
| `Tenancy` | tenants and issuer instances from the environment, `resolveExchangeTenant`, the read check, `selectIssuerInstance` |
| `Authentication` | the two middlewares, `getTenant`, the token endpoint, access tokens; who is recognised |
| `Registries` | registries from the code and the environment, the names an exchange gives, the issuer report |
| `Matching` | `extractCredentialClaims`, `matchClaimsAgainstRequirements`, the claims report |
| `Discovery` | credential offer, issuer and authorization server metadata, the routes they lead to |
| `ExchangeCreation` | `exchangeBatchSchema`, `vcApiExchangeCreateSchema`, `optionalFutureDate`, building and saving of rows |
| `Decisions` | composes the eight: each state is one case of a small instance, taken through its steps; `DecisionsProofs` |

### State and actions of VerifyExchange

`store[e]` is the Keyv record (`state`, `task` = `variables.verifyTask`, `results` =
`variables.results.default`, `oid4vp` = `variables.oid4vp`). `handler[h]` is a request in flight: `snap` is the
exchange it read, `next` the one it is about to write. `worker[n]` is the drainer
of replica `n` with the task in hand: `snap` the exchange it loaded, `merged` the result so far,
`todo` the badges still to check. `turn[n]` is the actor whose JavaScript runs on
replica `n`: an action that ends at an await that is not ready gives the turn up
(`Yield`), one that ends at a store access gives it up only with Redis
(`Continue`). The memory and file backends answer a `get` without leaving the
turn; a `set` is applied in the turn and acknowledged in a later one, so every
`set` ends with `Yield`.

| Action | Code |
|---|---|
| `CreateExchange` | `createExchangeVcapi`, `createExchangeVerify`, `saveExchange` |
| `PostEmpty`, `SaveExchange` | `participateWithEmptyBody` for a pending exchange and its plain save |
| `PostPresentation` | `participateInExchange` up to `await verifyPresentation` |
| `GetAuthorizationRequest` | the GET of the OpenID4VP request, `ensureOid4vpState`, and the save if a state was minted |
| `PostDirectPost`, `HandleOid4vpResponse` | the POST of a response up to its body; `consumeOid4vpResponse` on the handler's copy, then the same pipeline as a VC-API presentation |
| `PresentationVerified`, `PresentationRejected` | the rest of `participateInVerifyExchange`: the synchronous result, and the queued task when there is a badge |
| `EnqueueVerifyTask` | `enqueueVerifyTask`: append, start the drainer if it is not running |
| `SweepRead`, `SweepCasGet`, `SweepCasSet` | the read of a GET and `sweepIfTimedOut`: deadline test, retry or give up, both by CAS |
| `DrainNext`, `DrainStop` | `drain`; the `while` test that fails and the `finally` are one synchronous step |
| `WorkerLoad` ... `WorkerCommitSet` | `processVerifyTask`: load, best-effort mark, one `verifyCredential` per badge, CAS of the result or of the failure mark |
| `DeadlineLapses`, `Expire` | the clock: `deadlineAt`, and the record's TTL |
| `HandlerStoreFault`, `WorkerStoreFault`, `Crash` | a store access throws, and a `set` that throws may have been applied (its answer was lost); the process restarts |

Abstractions. Time is the set `lapsed` of attempts whose deadline has passed. The
verifier is a choice: it passes, refutes, or throws. A result keeps the positions
of the credentials it lists, which hold badges, which carry an Open Badges verdict, which
were refuted, and the top-level flag; that the flag is all the outcome needs is what
`OutcomeIsVerified` checks in `Verdict`, check by check. A UUID that
nothing references may be drawn again (`FreshIds`), which keeps the pool finite: the
pool in the runs is larger than the number of live references. The worker's
branch for a task without results cannot be reached from any state of the model
and is left out.

### State and actions of ClaimExchange

One exchange (exchanges share nothing here), one set of requests per
endpoint. `store` holds the code, token and nonce with their use marks and the
result. A secret or a credential is named after the request that made it.
`handed` is what clients have been given, `spent` which request presented which secret and
had it accepted, `signed` what the signing service has signed; the three are history
variables no guard of the code reads, except that a client only presents what it was handed.
The order of the checks, and of the awaits between the read and the save, is that
of `hono.ts`, `token-handler.ts`, `credential-handler.ts` and `claimWorkflow.ts`.
With `StoreYields` each access yields, and since requests share only the
store, that also covers several replicas.

### State and actions of HttpCache

`cache` is the entry of the URL with its expiry, `call[g]` a `get` and where it awaits: the
origin (`fetch`), the body and the cache (`body`). `LookUp` is the cache's answer, `Respond` the
origin's, `Keep` the end of `get`, which stores a successful response whatever the entry is by then.
What the origin says is known by when it said it. That a response is under way for no longer than `MaxLatency` is an
assumption about the environment: the code gives `fetch` no timeout. `Throw` is any of the awaits failing,
`Restart` a new process.

### State and actions of DidAuthExchange and StatusPage

`store` is the record, `handler[r]` a request with the exchange it read or is about to write, `proven`
(history) the holders whose presentations were accepted. `PostEmpty` is the empty POST or the legacy route,
`PostPresentation` and `DidAuthVerified` the two sides of `await verifyDIDAuth`, with the plain save of what was
read before it; `DidAuthRejected` its 401s. A save that throws may have been applied. With the memory and file backends a save takes effect in the turn that
makes it; with Redis (`StoreYields`) `SaveExchange` is a step of its own.

`page` is what the JavaScript of the page holds: its phase, whether the interval is set, and the state and holder last shown. `poll[p]` is a
question under way and its answer, `cookie` whose `exchange_token` the browser has, `lapsed` that the exchange's `expires` has passed.

| Action | Code |
|---|---|
| `OpenPage` | the HTML branch of `resolveInteraction` and the `setCookie` of its route |
| `FetchProtocols`, `FetchProtocolsFails` | the effect of `App.tsx`, made once, and the first poll and interval of `useExchangeStatus` |
| `Tick` | the interval fires, whatever is under way |
| `GetExchange` | `authenticateExchangeOrTenantMiddleware` and the GET; the sweep does nothing for this workflow |
| `PollAnswered`, `PollFails` | `poll` after its await: what is shown, and what clears the interval |
| `OpenOtherPage` | the page of another exchange in the same browser: the cookie has path `/` |
| `RestartService` | requests and questions under way are lost, and without `EXCHANGE_JWT_SECRET` every token with them |
| `TokenExpires`, `RecordExpires` | the clock at `expires`, and at the record's TTL a second later |

### The cases of Decisions

`asked.about` names the kind of case. A *verdict* case is a presentation with two credentials and any
findings of the synchronous pass; `Recheck` merges an Open Badges pass with any findings.
A *creation* case is a request of one or two rows; `ParseBody`, `BuildRow`, `SaveRow` and `SaveFails` take it
through the handler; of what was saved, a get finds what its TTL lets live (`readable`). An *answer* case is an exchange `x`, a wallet that signs what
one of its offers asks, alone or beside another party's proof, asserting a holder or none, and an exchange `y` that the answer is
given to. A *query* case holds a credential against the contexts asked for; a *tenant* case is
an environment, an authenticated tenant and a body. A *caller* case is a configuration, every tenant of which identifies
itself in every way it can, once as creator and once as reader. An *offer* case is a claim exchange whose wallet follows
offer, metadata and routes. A *trust* case is two issuers, an environment's registries, what the registries list, and the
issuers and registries an exchange trusts; a *claims* case two credentials and two required claims, with paths
that nest and paths that join to one key. All but the first two are decided in one step, so their states have no successor.

## 3. Runs

All runs switch deadlock checking off: a service whose requests were all made, whose
queue is empty and whose records expired does stop.

| Run | Instance | Shows |
|---|---|---|
| `InProcess` | one replica, memory or file store, two credential positions, one POST of each kind, one poller, one fault; fairness of pollers and clock | type invariant, `CompleteIsRechecked`, `NoLostWakeup`, `GaveUpMeansInvalid`, `DuplicateWorkBounded`, `AttemptNeverRegresses`, refinement of `VerifyPromise` by each exchange (`KeepsVerifyPromise`), and the liveness properties `PollingSettles` and `QueueDrains` |
| `Oid4vp` | in process, two GETs of the request, two responses, a poller, no store fault | `ReplaysAreRefused`, `SpentMeansVerified`, `AuthorizationRequestStands`; and, with two presentations at one exchange, the inductive `RecordsCoherent`, from which `CompleteIsRechecked` follows |
| `ClaimSerial` | one request at a time, all orders, retries, expiry of any secret, a fault | type invariant, `CodeStaysRedeemed`, `CredentialIssuedOnce`, `CompleteShowsCredential`, `IssuedOnlyOnRedemption`, and refinement of `ClaimPromise` |
| `DidAuthPage` | in process, an opener, two presentations, two polls at a time, two loads of the page, one fault (restart, failed access or lost answer); fairness of the page | type invariant, `OutcomeShowsSigner`, `CompletionStands`, `PollingStopsForAReason`, and the liveness properties `OutcomeReachesPage` and `PollingEnds` |
| `HttpCache` | two overlapping gets called again and again, a clock of six units | `AnswerIsRecent`, `ErrorsAreAskedAgain` |
| `Decisions` | every case of the small instance | thirteen properties of the decisions, named in the module |
| `GaveUpOverwritten` | violation of `GaveUpIsTerminal` | the last attempt's late answer overwrites "gave-up": the attempt id did not change |
| `StaleCommit` | violation of `AttemptNeverRegresses` with Redis | compare and set are not atomic |
| `ClaimDoubleIssue` | violation of `CredentialIssuedOnce` with two requests in flight | two credentials for one exchange |
| `Oid4vpTwice` | violation of `ResponseAcceptedOnce` with two responses that overlap | both find the mark unset and both are answered 200 |
| `Oid4vpReplayed` | violation of `ReplayGuardHolds` with a VC-API POST beside one response | a plain save of an older snapshot takes the mark away |
| `ExpiresInverted` | violation of `AcceptedExpiresInFuture` | an expiry in the past is accepted, one in the future refused |

Bounds. `MaxAttempts = 2` is the configured default and has both a retry and a
give-up. `GaveUpMeansInvalid`, `DuplicateWorkBounded` and `KeepsVerifyPromise` are checked in process with one presentation per
exchange, which is where the code keeps them. Over Redis, where snapshots overwrite one another and compare and set are
apart, the instances with a retry and two presentations have too many states for a run: what holds there is proved
(`CoherenceInvariant`, `CompleteMeansRechecked`, and for claims `CompleteAlwaysShowsCredential` and
`NothingIssuedUnredeemed`), and what does not is shown by the violation runs. Two credential positions make the merge and its partial failure happen. `MaxFaults`
bounds crashes plus failed accesses in one behaviour. `MaxQueue` bounds the FIFO; in process
it never bites, since `DuplicateWorkBounded` holds with a smaller number.
`MaxInFlight` is how many requests the clients of a claim exchange have open; `CodeStaysRedeemed` holds with two and more in process as well, where it is proved.
`Oid4vp` has no store fault, so that two GETs and two responses together fit into a run, and its two GETs are interchangeable (`SameGets`; the responses are not, since
`ReplaysAreRefused` is temporal and tells them apart). Its properties are proved with any faults.
`Polls` bounds the questions a page has under way: two are enough for answers to overtake each other. `MaxLoads = 2` lets
answers meet a page that was loaded again. `MaxClock` of `HttpCache` is longer than an entry and two slow responses live, so an entry expires
and is replaced within a behaviour. The constants of
`Decisions` have two of everything that is compared: two words for tenants, one of them the default;
two base contexts and two others; a preferred, a legacy and an unknown cryptosuite; one check
of each kind (core, registry, Open Badges), since checks only meet others of the same id.
Symmetry is used only in safety runs, on requests no property tells apart.

Fairness. `PollingFairness`: the clock advances, some client keeps polling, a handler
that began goes on. The handler conditions are strong because the turn comes and goes:
Node serves every ready callback, so a ready handler is not passed over for ever.
Of the worker it only assumes that it does not stop in the middle of
a turn: the verifier may never answer. `WorkerFairness` adds that it does, and is the hypothesis of
`QueueDrains`. `PageFairness`: the browser's interval fires, and a question is answered and the answer handled (an error is an
answer). Nothing is assumed of wallets and users, nor of the clock: `OutcomeReachesPage` would be
empty if `expires` came in any case. `ClockAdvances` is the hypothesis of `PollingEnds` alone.

## 4. Proofs

Every safety invariant and action property that a passing run checks, and both refinements, are theorems for every value of the constants. Where
the code keeps a property only under a condition, the theorem names the condition as a hypothesis:

| Hypothesis | Where it is the case | What happens without it |
|---|---|---|
| `OneProcess` (`StoreYields = FALSE`, at most one replica) | the memory and file backends, which answer a `get` within the turn | `StaleCommit`: compare and set are apart over Redis |
| `[][PresentsOnce]_vars`: nobody presents to an exchange that was presented to, or while another presentation to it is being verified | a wallet that presents once | the POST of a presentation saves plainly what it read before the verifier was awaited, over whatever was committed meanwhile (observation 3) |
| `[][GivenUpLeftAlone]_vars`: nobody presents to an exchange that was given up already | a wallet that has been told of the outcome | the results of the new presentation are saved with the task that was given up |
| `NobodyPresented`: no VC-API presentation has begun (in `ResponseIsRemembered` as long as the mark is looked for, in `ReplaysAreRefused` by the time the first response is answered) | an exchange presented to over OpenID4VP | `Oid4vpReplayed`: a VC-API POST saves an older snapshot over the mark |
| `MaxInFlight = 1`, finitely many requests (`OneCredentialInOrder`, `InOrderKeepsPromise`) | a wallet that waits for each answer | `ClaimDoubleIssue`; observation 4 |
| `StoreYields = FALSE` (`RedeemedStaysRedeemed`) | the memory and file backends | observation 6: over Redis a nonce request or an empty POST that read the code live saves it over its redemption |
| `StoreYields = FALSE` (DIDAuth) | the memory and file backends | observation 28 |

The hypotheses about wallets restrict behaviours and not the model: a wallet that keeps to them is one of those `Next` allows, and the
runs on which the properties hold are instances of them.

**Any store, any number of replicas** (`VerifyExchangeProofs`, `Oid4vpProofs`, `DrainerProofs`):

- `TypeCorrect`: `Spec => []TypeOK`. The inductive invariant is `TypeInv`, `TypeOK` with
  `AtWork`: a handler or worker in the middle of its work knows its exchange and replica.
- `CoherenceInvariant`: `Spec => []RecordsCoherent`, and `CompleteMeansRechecked`:
  `Spec => []CompleteIsRechecked`. `CompleteIsRechecked` is not inductive: what
  makes a stored record trustworthy is a fact about every record *carried across an await*. So the
  strengthening speaks of all records: the badges a record shows are rechecked or are
  its task's to recheck, an attempt id stands for one list of badges (this is why comparing
  attempt ids suffices although the worker then replaces the whole record), and the pass
  under way still has to do what it has not done. Each step adds at
  most one new record; the lemmas `OneMoreRecord` and `NoNewRecord` reduce every action to
  showing that record coherent and in agreement with the others.
- `GaveUpPairsWithInvalid`: `Spec /\ [][GivenUpLeftAlone]_vars => []GaveUpMeansInvalid`. `GaveUpInv` says of every record, stored or
  carried, that a given-up task is on an invalid one that says timed out, and that no snapshot in the verifier is given up: it
  is from such a snapshot that a later verdict would be built. `KindsFit` (which kind of request can be at which point) keeps the actions of
  different endpoints apart.
- `SpentOnlyByVerdict`: `Spec => []SpentMeansVerified`. The property
  is about stored records, but a handler carries a record that is marked and *not* yet decided:
  the copy on which the response was consumed. The invariant says that such a copy is only ever a
  `snap` of a handler in the verifier, never a `next`, and that everything written,
  by a request, a sweep or the worker, is marked only with a verdict or a task.
- `NothingSleepsInTheQueue`: `Spec => []NoLostWakeup`. Only `DrainStop`, which
  has just seen the queue empty, and a crash end the drain loop, and each resets the flag in the same turn;
  every other step of the worker leaves the loop running and whoever enqueues wakes it.

**In one process** (`InProcessProofs`, `Oid4vpProofs`, `DrainerProofs`), for any number of exchanges, requests, polls, attempts, credentials and faults:

- `OrderInProcess` is what the others rest on. `ProcessInv` adds `Current` to the type and to coherence: whoever is between a `get` and the `set`
  that follows it has the turn, and what it read is what is stored, unless the record has expired. This is why the worker and the sweep
  lose nothing by writing whole records. What remains is the one plain save that follows the verifier, and there `OrderInv` says that whoever presents read, and
  will save over, a record that nobody has judged (or one that is gone), that a task belongs to the results stored with it, and that the worker's pass is on the
  badges of the record whose attempt id it compares.
- `AttemptsOnlyAdvance`: `AttemptNeverRegresses`. Each step changes a record in one of the few ways listed in `StoreMoves` (creation, expiry,
  an empty POST, a minted state, a verdict, a sweep, a mark, a settled pass), each of which keeps the attempt or advances it.
- `PromiseKept`: `KeepsVerifyPromise`, the refinement of `VerifyPromise` by each exchange. `PhaseOf` gives the phase of a record; each move of `StoreMoves` is a step
  of the abstract lifecycle or a stutter.
- `WorkIsBounded`: `DuplicateWorkBounded`. The *load* of an exchange is the number of its runs that wait in the queue, are in the drainer's hand, or are about
  to be enqueued by a handler that has written its record. `LoadInv` says that the load is at most the attempt number of the record: the load only grows
  when a record is written that counts one attempt more. A record that expires no longer tells its attempt, so for one that is gone the invariant is that
  at most one handler may still add to the load and that there is room for it. `WaitingAppend` and `WaitingTail` are the
  lemmas about the queue.
- `ResponseIsRemembered`: `[](NobodyPresented => ReplayGuardHolds)`. The invariant follows a response from the consumed copy to the save and through the
  worker's copy: once it is answered, whatever is stored or will be is marked, or gone.
- `ReplaysRefused`: `ReplaysAreRefused`, with any number of VC-API presentations that begin after the first answer. From the moment a response is
  answered with no presentation under way, every copy in anybody's hands is marked, except those of responses that had begun by then;
  a step preserves this, and a response that begins reads a marked record and is refused.

`RequestStands` (`Oid4vpProofs`) is about **any store, any number of replicas and VC-API presentations**: `Spec => AuthorizationRequestStands`. Once every copy that counts,
stored, read or about to be written, has one state (`Standing`), every step builds what it writes from one of these copies, and `ensureOid4vpState` leaves a state that is there.
That the copies agree is a condition: a POST or a worker that read the exchange before the mint drops it (observation 32).

**Claim exchange** (`ClaimExchangeProofs`):

- `ClaimTypeCorrect`, `CompleteAlwaysShowsCredential`, `NothingIssuedUnredeemed`: for any number of
  requests, in flight together, over either store. The argument is again about records carried across awaits: each is sound
  by itself (a complete one shows a credential that was signed), and a request past the credential endpoint's guards has
  had a token and a nonce accepted; so it does not matter which snapshot is saved last.
- `OneCredentialInOrder`, `InOrderKeepsPromise`, with one request in flight. Its snapshot still tells what the stored record is (`Current`), so no save can
  undo a completion, and each step is a step of `ClaimPromise` or leaves it as it is.
- `RedeemedStaysRedeemed`: `Spec => []CodeStaysRedeemed` in process, with any number of requests in flight and any faults. What is about to be saved has a new code,
  marks the code as used, completes the exchange (its tokens buy nothing any more), or was read in the turn that saves it (`CodesInv`). Only the last kind can show a code as live, and nothing
  comes between its read and its save.

**DIDAuth and the page** (`StatusPageProofs`):

- `PageTypeCorrect` and `HolderAlwaysSigned`, for any number of requests, polls and loads, over either store: the record, every snapshot, every
  answer under way and the screen show a signer (`Signed`).
- `CompletionIsFinal` and `PollingStopsRightly`, assuming
  `StoreYields = FALSE`: a request that is about to save has nothing to undo, and an answer that
  will end the polling still says what is true of the record or the cookie when it arrives (`AnswersHold`).

**HTTP cache** (`HttpCacheProofs`): `AnswersAreRecent` and `ErrorsAreNotKept`, for any number of gets, ages
and latencies. The invariant `CacheInv` adds that the entry expires in time and that
nothing in flight is overdue; only `LookUp`, `Keep` and `Tick` take arithmetic.

**Decisions** (`DecisionsProofs`), for any checks, registries, names, contexts and cryptosuites:

- Verdicts: `CompleteNeverFatal`, `FailuresAreKept`, `OutcomesAgree`. `Sound` ties the flag of a result to its checks, which neither is by itself after a merge that
  replaces some of them.
- Requests: `QueriesAreFaithful`, `HolderIsSigner`, `AnswersFit`.
- Tenants and creation: `TenantAlwaysOwns`, `TenantSigns`, `CreatorAlwaysReads`, `AnswerAlwaysTells`.
- Reports and discovery: `FoundMeansTrusted`, `ReportedMeansHeld`, `WalletArrives`.

The inductive invariant is `CasesInv`: what a verdict or a creation has come to on its way, and for the other kinds that the case is still the one that was asked.
What the case decides is then a fact about the operators, proved by cases of their definitions. The *shape* of a case is part of the model
(two credentials, two issuers, two claims, paths of at most two names, the values a claim may have); the sets that are constants of the modules are arbitrary.

The constants' assumptions are named in the modules that declare them; the proofs use
that `MaxAttempts` is at least 1, that a presentation's badges are among
its credentials, that identifiers of different kinds of actor and requests of different endpoints differ (`ActorsAssumption`, `KindsAssumption`, `ClaimKindsAssumption`),
that "undefined" is no tenant, token or instance (`CallersAssumption`, `InstancesAssumption`, which also says that the default
cryptosuite is one), and that times are natural numbers (`ClockAssumption`: the clock has started).

Model-checked only: liveness (`PollingSettles`, `QueueDrains`, `OutcomeReachesPage`, `PollingEnds`), which needs fairness and `ENABLED` and so is beyond the prover.


## 5. Not modelled

`Authentication` says who is recognised, with signatures, expiry of access tokens and comparison of secrets taken as good; it does not
say who is refused. Timing data, display options and suite summaries of a verification result decide nothing. Protocol schemas,
deep links, wallets, problem details, the result views, the CLI and the health check render or pass on. The page of a claim or
verify exchange polls with the same code as that of a DIDAuth exchange and is not modelled again; their records have other
writers, which `ClaimExchange` and `VerifyExchange` have. The file backend loses what it has not flushed in a crash, and the memory backend loses
everything: for an exchange both are `Expire` together with `Crash`. A GET of an
exchange by a browser that asks for HTML does not sweep and is not an action.

## 6. Observations made while modelling

The violation runs show the first six. The others came up with the same models
and have no run of their own.

1. `GaveUpOverwritten`, `StaleCommit`, `ClaimDoubleIssue`, `Oid4vpReplayed`, `Oid4vpTwice`, `ExpiresInverted`: section 3. `Oid4vpTwice`: the
   mark of an accepted response is set on a copy and saved after the verifier was awaited (`response-handler.ts:135-170`), so two direct_posts that overlap are both answered 200, where
   `docs/oid4vp-1.0-verifier.md:158-160` says the state is "consumed once". `ExpiresInverted`: the past dates it accepts give the record a negative TTL
   (`transactionManager.ts:51-53`); the creation is answered with the exchange, and nobody can read it (a store that refuses such a TTL answers 500).
2. `README.md:246` calls a `failed` task recoverable by the next sweep; `sweepIfTimedOut` only looks at
   queued and running tasks, and the header of `sweep-verify-task.ts` says there is no retry. After a verifier error the
   exchange stays active until it expires, or until another presentation is posted.
3. `transactionManager.ts:90-91` says that request handlers own the exchange, but the POST of
   a presentation saves plainly what it read before `verifyPresentation` (`verifyWorkflow.ts:741`), over
   whatever a worker or a sweep committed meanwhile.
4. The offer, token and nonce routes of OpenID4VCI save the record they read: over a completion that
   happened meanwhile, which reopens a completed exchange and drops the credential from it.
5. With two replicas, both may sweep and enqueue: the backlog of one exchange exceeds
   `VERIFY_TASK_MAX_ATTEMPTS` (`README.md:273-274`).
6. Two concurrent token requests with the same code both get a token (`docs/oid4vci-pre-authorized-flow.md:128`): the form body is awaited after the record was read. Over Redis a code
   that was redeemed can also become live again, by the save of a nonce request or an empty POST that read the record before.
7. A nonce is consumed on a copy that is saved only if the credential is issued, so a failed proof leaves it acceptable (`src/oid4vci/state.ts:206-207`).
8. An OpenID4VCI exchange goes from pending to complete without active.
9. With Redis `PollingSettles` does not hold: two pollers can overwrite each other's bump for ever.
10. The access token and nonce lifetimes are not clamped to the exchange's (`docs/oid4vci-pre-authorized-flow.md:172-174`).
11. `issuerValidation` and `claimsValidation` are computed and recorded but do not change the outcome (`verifyWorkflow.ts:352-383`).
12. A claim with an empty `path` passes the exchange's schema (`verifyWorkflow.ts:47`) and its OpenID4VP request is offered, but `dcqlQuerySchema` refuses to build it when a wallet asks.
13. The Open Badges merge replaces registry findings by those of the later pass while it keeps the flag of the earlier one: an invalid exchange need not list a failing check.
14. A batch's `expires` is parsed and then not used; its exchanges get the default lifetime.
15. A batch whose store fails half way answers 500 and leaves the rows already saved.
16. The Ed25519Signature2020 context fix looks at a single proof, not at a list with one.
17. The default tenant's issuer instances are read under the name "default" even if `DEFAULT_TENANT_NAME` says otherwise.
18. The HTTP cache keeps a successful response whose body could not be read as `null`, treats `max-age=0` as no age and keeps such
    a response for five minutes, and a slow response replaces a newer entry.
19. The UI shows polling answers in the order they arrive: a slow "active" after "complete" stays on the screen, since polling has stopped by then.
20. Of the registries, "DCC Registry" is filed under a registry named "DCC Member Registry" (`config.ts:33-34`), and the default "DCC Issuer
    Registry" (`config.ts:234`) is not a known name, so its URL becomes one at example.com.
21. With trusted issuers but no trusted registries, the success of any registry check counts as `issuerFound`; the two flags of `issuerValidation` are always equal.
22. A successful registry check is only listed in verbose results, and the registries that listed the issuer are looked for in its outcome (`verifyWorkflow.ts:320-333`) where they
    stand in the payload (`app.d.ts:266`, `verifyWorkflow.test.ts:1145`, `testData.ts:209`): `registryMatch` is never true of an exchange that names its registries, which
    the comments at `verifyWorkflow.ts:295-296` and `:313` say it looks for. `FoundIssuersAreTrusted` therefore says something of such an exchange only through its trusted issuers.
23. Two required claims whose paths join to one key (`["a.b"]` and `["a","b"]`) overwrite each other in the report; a claim with an empty path is skipped.
24. An `exchangeHost` with a trailing slash or a base path makes well-known URLs that no route serves.
25. A browser with the cookie of one exchange is answered 401 at another even if the request carries a valid tenant header, since the cookie decides alone (`auth.ts:147-161`).
26. Opening a second exchange in the same browser, or a restart without `EXCHANGE_JWT_SECRET`, ends the polling of the first page.
27. Of two overlapping DIDAuth presentations the later save replaces the holder of an exchange that was complete; the page may go on showing the earlier.
28. Over Redis an empty POST that read "pending" can undo the completion of a DIDAuth exchange (`exchanges.ts:177-180`).
29. The page fetches the protocols once: if that fails, it stays with the error until it is loaded again.
30. A page opened in the second between `expires` and the record's TTL gets a token that has expired already, in a cookie of the session.
31. Without a tenant token in the request, `getTenant` finds a tenant by its name alone (`auth.ts:47-49`).
32. A POST of a presentation, or a worker, that read the exchange before the first GET of the authorization request saves it without the minted state: the next GET mints
    another, and a wallet that holds the first request is refused.

## 7. Plan

Done: the verify core with OpenID4VP, its abstract lifecycle and its refinement, the claim exchange and its refinement, the DIDAuth exchange with the
interaction page, the HTTP cache and the decisions; every safety property that a run checks is a theorem. What is left, in this order:

1. Theorems with weaker hypotheses: `DuplicateWorkBounded` for presentations one after the other, and `CredentialIssuedOnce` for requests in flight together of which only
   one issues.
2. The page of a verify exchange, whose polls are what drives the sweep: `StatusPage` over `VerifyExchange`.
3. The file backend's deferred writes.
