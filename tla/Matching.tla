------------------------------ MODULE Matching ------------------------------
(***************************************************************************)
(* The claims a verify exchange asks for, held against the credentials it   *)
(* was shown, as its result reports them.                                   *)
(*                                                                         *)
(* A credential is a function on the paths that lead to a value in it, of   *)
(* the value's text (String(value)).  A segment is the tuple of its words,  *)
(* so that "a.b" and "a" followed by "b" join to the same key.              *)
(***************************************************************************)
EXTENDS Naturals, Sequences, SequencesExt

(* path.join('.')                                                            *)
PathKey(path) == FlattenSeq(path)

Asks(claim) == claim.path # <<>>

(* The value of each key is the one the last claim with that key led to.     *)
ExtractCredentialClaims(credential, claims) ==
  LET led == {i \in DOMAIN claims : Asks(claims[i]) /\ claims[i].path \in DOMAIN credential} IN
  [key \in {PathKey(claims[i].path) : i \in led} |->
     LET last == CHOOSE i \in led : /\ PathKey(claims[i].path) = key
                                    /\ \A j \in led : PathKey(claims[j].path) = key => j <= i
     IN credential[claims[last].path]]

\* A slip: one claim that matches is enough.
MatchSomeClaim(extracted, claims) ==
  \E i \in DOMAIN claims :
    /\ PathKey(claims[i].path) \in DOMAIN extracted
    /\ claims[i].values = {} \/ extracted[PathKey(claims[i].path)] \in claims[i].values

MatchClaimsAgainstRequirements(extracted, claims) ==
  \A i \in DOMAIN claims : Asks(claims[i]) =>
    /\ PathKey(claims[i].path) \in DOMAIN extracted
    /\ claims[i].values = {} \/ extracted[PathKey(claims[i].path)] \in claims[i].values

(* Which of the credentials match, and what was extracted from them: where   *)
(* two give a value for a key, the later one does.                           *)
ClaimsValidation(credentials, claims) ==
  LET extracted == [i \in DOMAIN credentials |-> ExtractCredentialClaims(credentials[i], claims)]
      matching  == {i \in DOMAIN credentials :
                      MatchClaimsAgainstRequirements(extracted[i], claims)}
  IN [matched |-> matching # {},
      matchedCredentials |-> matching,
      extractedClaims |->
        [key \in UNION {DOMAIN extracted[i] : i \in matching} |->
           LET last == CHOOSE i \in matching :
                 /\ key \in DOMAIN extracted[i]
                 /\ \A j \in matching : key \in DOMAIN extracted[j] => j <= i
           IN extracted[last][key]]]
=============================================================================
