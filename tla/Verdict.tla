------------------------------- MODULE Verdict -------------------------------
(***************************************************************************)
(* The results of a verification check by check: what the synchronous pass *)
(* records, how the checks of an Open Badges pass are merged into them, and *)
(* which outcome each of the two passes derives.  VerifyTask keeps of all   *)
(* this the positions that were checked and a flag; here is why it may.    *)
(*                                                                         *)
(* verifier-core is external.  Its contract, as the code relies on it: a   *)
(* credential is verified unless a fatal check failed, a presentation is    *)
(* verified if it and all its credentials are, and check ids are unique.    *)
(***************************************************************************)
EXTENDS Naturals

CONSTANTS
  Checks,           \* check ids
  RegistryChecks    \* those that start with "trust.registry."

ASSUME RegistryChecksAssumption == RegistryChecks \subseteq Checks

(* One CheckResult: did it fail, and is that fatal.                          *)
Finding == [failed : BOOLEAN, fatal : BOOLEAN]

(* The results[] of one credential: at most one finding per check id.        *)
Findings == UNION {[ids -> Finding] : ids \in SUBSET Checks}

FatalFailure(finding) == finding.failed /\ finding.fatal

(* verifier-core's verdict on one credential.                                *)
CoreVerified(findings) == \A id \in DOMAIN findings : ~FatalFailure(findings[id])

CoreCredential(findings) == [verified |-> CoreVerified(findings), results |-> findings]

(* ...and on a presentation whose own checks passed or not.                  *)
CorePresentation(passed, credentials) ==
  [verified |-> passed /\ \A i \in DOMAIN credentials : credentials[i].verified,
   credentialResults |-> credentials]

-----------------------------------------------------------------------------
(* The synchronous pass *)

RegistryFindings(credential) == DOMAIN credential.results \cap RegistryChecks

(* With issuers to trust, a fatal registry failure is looked for once more.  *)
DetermineExchangeOutcome(verified, credentials, trustsIssuers) ==
  IF /\ verified
     /\ \A i \in DOMAIN credentials :
          /\ credentials[i].verified
          /\ trustsIssuers =>
               \A id \in RegistryFindings(credentials[i]) :
                 ~FatalFailure(credentials[i].results[id])
  THEN "complete" ELSE "invalid"

-----------------------------------------------------------------------------
(* The Open Badges pass *)

\* A slip: the later pass wins for every check.
MergeLatest(existing, incoming) ==
  [id \in DOMAIN existing \cup DOMAIN incoming |->
     IF id \in DOMAIN incoming THEN incoming[id] ELSE existing[id]]

(* Registry checks are those of the later pass; of the others, one that was  *)
(* there already stays.                                                      *)
MergeResults(existing, incoming) ==
  LET kept == DOMAIN existing \ RegistryChecks IN
  [id \in kept \cup DOMAIN incoming |->
     IF id \in kept THEN existing[id] ELSE incoming[id]]

(* One credential after its badge was checked again.                         *)
MergedCredential(credential, verified, findings) ==
  [verified |-> credential.verified /\ verified,
   results |-> MergeResults(credential.results, findings)]

MergedCredentials(credentials, i, verified, findings) ==
  [credentials EXCEPT ![i] = MergedCredential(@, verified, findings)]

\* Slips of the merge: the earlier verdict is dropped; the later one is.
MergeForgetting(merged, i, verified, findings) ==
  [verified |-> verified,
   credentialResults |-> MergedCredentials(merged.credentialResults, i, verified, findings)]

MergeUnjoined(merged, i, verified, findings) ==
  [verified |-> merged.verified,
   credentialResults |-> MergedCredentials(merged.credentialResults, i, verified, findings)]

MergeOpenBadgesResultsAt(merged, i, verified, findings) ==
  [verified |-> merged.verified /\ verified,
   credentialResults |-> MergedCredentials(merged.credentialResults, i, verified, findings)]

(* The worker's own outcome.                                                 *)
FinalState(merged) == IF merged.verified THEN "complete" ELSE "invalid"
=============================================================================
