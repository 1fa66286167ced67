-------------------------- MODULE MCClaimExchange --------------------------
(* Instances of ClaimExchange for TLC.                                     *)
EXTENDS ClaimExchange, TLC

SameKind ==
  Permutations(OfferGets) \cup Permutations(TokenPosts) \cup Permutations(NoncePosts)
    \cup Permutations(CredentialPosts) \cup Permutations(VcapiPosts)
============================================================================
