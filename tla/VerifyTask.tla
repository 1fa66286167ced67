----------------------------- MODULE VerifyTask -----------------------------
(***************************************************************************)
(* The data of a verify exchange and the pure functions that change it:    *)
(* the verify-task lifecycle, the result of the synchronous verification   *)
(* pass, the merge of an Open Badges result into it, and the four whole    *)
(* exchanges the service ever writes back (after the synchronous pass,     *)
(* after the Open Badges pass, after an attempt was bumped, after giving   *)
(* up), and the OpenID4VP state that rides on the record.  No state        *)
(* machine here: VerifyExchange composes these.                            *)
(*                                                                         *)
(* Time is abstracted: queuedAt, startedAt and deadlineAt are not fields,  *)
(* VerifyExchange keeps the set of attempts whose deadline has lapsed.     *)
(* lastError only feeds the wording of a message and is left out.          *)
(***************************************************************************)
EXTENDS Naturals

CONSTANTS
  AttemptIds,     \* the UUIDs that crypto.randomUUID() draws attempt ids from
  MaxAttempts,    \* config.verifyTaskMaxAttempts
  Credentials,    \* positions in results.default.credentialResults
  AuthRequests,   \* GETs of the OpenID4VP request; a state token bears its minter's name
  None            \* "undefined"

ASSUME NoneAssumption == None \notin AttemptIds \cup AuthRequests
ASSUME MaxAttemptsAssumption == MaxAttempts \in Nat \ {0}
ASSUME CredentialsAssumption == Credentials \subseteq Nat

-----------------------------------------------------------------------------
(* variables.verifyTask *)

TaskStatus == {"none", "queued", "running", "succeeded", "failed", "gave-up"}

Task == [attemptId : AttemptIds \cup {None}, attempt : 0..MaxAttempts,
         status : TaskStatus, badges : SUBSET Credentials]

NoTask == [attemptId |-> None, attempt |-> 0, status |-> "none", badges |-> {}]

NewVerifyTask(id, badges) ==
  [attemptId |-> id, attempt |-> 1, status |-> "queued", badges |-> badges]

\* Slips of bumpAttempt: the attempt is not counted; no new id is minted.
BumpUncounted(task, id) == [task EXCEPT !.attemptId = id, !.status = "queued"]
BumpSameId(task, id)    == [task EXCEPT !.attempt = @ + 1, !.status = "queued"]

BumpAttempt(task, id) ==
  [task EXCEPT !.attemptId = id, !.attempt = @ + 1, !.status = "queued"]

MarkRunning(task)   == [task EXCEPT !.status = "running"]
MarkSucceeded(task) == [task EXCEPT !.status = "succeeded"]
MarkFailed(task)    == [task EXCEPT !.status = "failed"]
MarkGaveUp(task)    == [task EXCEPT !.status = "gave-up"]

-----------------------------------------------------------------------------
(* variables.results.default *)

(* credentials: the positions present in credentialResults; badges: those    *)
(* that hold an Open Badges credential; rechecked: those whose entry carries *)
(* an Open Badges result; refuted: those of them it failed; verified: the    *)
(* top-level flag; timedOut: presentationResults holds pipeline.timeout.     *)
Results == [credentials : SUBSET Credentials, badges : SUBSET Credentials,
            rechecked : SUBSET Credentials, refuted : SUBSET Credentials,
            verified : BOOLEAN, timedOut : BOOLEAN]

NoResults == [credentials |-> {}, badges |-> {}, rechecked |-> {},
              refuted |-> {}, verified |-> FALSE, timedOut |-> FALSE]

(* What verifyPresentation returns for a presentation: a fresh result in     *)
(* which no Open Badges check has run yet.                                   *)
SyncResults(presentation, verified) ==
  [NoResults EXCEPT !.credentials = presentation.credentials,
                    !.badges = presentation.badges, !.verified = verified]

\* A slip: the Open Badges verdict replaces `verified` instead of joining it.
MergeOverwriting(results, i, verified) ==
  IF i \notin results.credentials THEN results
  ELSE [results EXCEPT !.verified = verified, !.rechecked = @ \cup {i},
                       !.refuted = IF verified THEN @ ELSE @ \cup {i}]

(* An index outside credentialResults leaves the results as they are.        *)
MergeOpenBadgesResultsAt(results, i, verified) ==
  IF i \notin results.credentials THEN results
  ELSE [results EXCEPT !.verified = @ /\ verified, !.rechecked = @ \cup {i},
                       !.refuted = IF verified THEN @ ELSE @ \cup {i}]

AppendTimeout(results) == [results EXCEPT !.verified = FALSE, !.timedOut = TRUE]

-----------------------------------------------------------------------------
(* variables.oid4vp *)

Oid4vp == [state : AuthRequests \cup {None}, received : BOOLEAN]

NoOid4vp == [state |-> None, received |-> FALSE]

-----------------------------------------------------------------------------
(* The exchange record under its key in the store.  "none" is a key that was *)
(* never written, "expired" one whose TTL has passed: neither can be read.   *)

ExchangeState == {"none", "pending", "active", "complete", "invalid", "expired"}

Exchange == [state : ExchangeState, task : Task, results : Results, oid4vp : Oid4vp]

NotStored(state) ==
  [state |-> state, task |-> NoTask, results |-> NoResults, oid4vp |-> NoOid4vp]

NewExchange == NotStored("pending")

Readable(x) == x.state \notin {"none", "expired"}

WithVerifyTask(x, task) == [x EXCEPT !.task = task]

\* A slip: a new state token for every GET.
NeverMinted(x) == TRUE

(* ensureOid4vpState mints only for an exchange that has no token yet.       *)
NeedsOid4vpState(x) == x.oid4vp.state = None

EnsureOid4vpState(x, g) == [x EXCEPT !.oid4vp = [state |-> g, received |-> FALSE]]

(* consumeOid4vpResponse: a request was issued, no response was received for *)
(* it, and the state presented is the one that was issued.                   *)
AcceptsOid4vpResponse(x, presented) ==
  x.oid4vp.state # None /\ ~x.oid4vp.received /\ x.oid4vp.state = presented

\* A slip: the response is let through and not marked.
ConsumeUnmarked(x) == x

ConsumeOid4vpResponse(x) == [x EXCEPT !.oid4vp.received = TRUE]

Outcome(results) == IF results.verified THEN "complete" ELSE "invalid"

(* The task of an earlier presentation, if any, is spread over unchanged.    *)
ApplyVerificationResults(x, results) ==
  [x EXCEPT !.state = Outcome(results), !.results = results]

WithSyncResultsAndQueuedVerifyTask(x, results, id) ==
  [ApplyVerificationResults(x, results) EXCEPT
     !.state = "active", !.task = NewVerifyTask(id, results.badges)]

\* A slip: the verdict is merged, the results it came from are not.
SettledUnmerged(x, merged) ==
  [x EXCEPT !.state = Outcome(merged), !.task = MarkSucceeded(x.task)]

(* What the worker commits: the exchange as it LOADED it, decided.           *)
Settled(x, merged) ==
  [x EXCEPT !.state = Outcome(merged), !.results = merged,
            !.task = MarkSucceeded(x.task)]

Bumped(x, id) == WithVerifyTask(x, BumpAttempt(x.task, id))

\* A slip: the task gives up and the exchange stays active.
GivenUpTaskOnly(x) == WithVerifyTask(x, MarkGaveUp(x.task))

GivenUp(x) ==
  [x EXCEPT !.state = "invalid", !.task = MarkGaveUp(x.task),
            !.results = AppendTimeout(x.results)]

(* sweepIfTimedOut's conditions before it looks at the clock.                *)
Pending(x) == x.state = "active" /\ x.task.status \in {"queued", "running"}

\* A slip at the boundary: one attempt too many.
MayRetryOnceMore(x) == x.task.attempt <= MaxAttempts

MayRetry(x) == x.task.attempt < MaxAttempts

\* A slip: a task that already succeeded is processed again.
ProcessableAgain(x) == Readable(x) /\ x.task.status \notin {"none", "gave-up"}

(* processVerifyTask goes on with any task but these: a failed one too.      *)
Processable(x) ==
  Readable(x) /\ x.task.status \notin {"none", "succeeded", "gave-up"}
=============================================================================
