------------------------- MODULE MCVerifyExchange -------------------------
(* Instances of VerifyExchange for TLC.                                    *)
EXTENDS VerifyExchange, TLC

OneCredential  == {1}
TwoCredentials == {1, 2}

OneBadge   == [credentials |-> {1}, badges |-> {1}]
NoBadge    == [credentials |-> {1}, badges |-> {}]
TwoBadges  == [credentials |-> {1, 2}, badges |-> {1, 2}]
FirstBadge == [credentials |-> {1, 2}, badges |-> {1}]
LastBadge  == [credentials |-> {1, 2}, badges |-> {2}]

BadgeOrNot == {OneBadge, NoBadge}
ManyBadges  == {NoBadge, LastBadge, TwoBadges}

SixIds   == 1..6

(* Symmetric in the GETs alone: ReplaysAreRefused tells the responses apart, *)
(* and no property and no fairness tells the GETs apart.                     *)
SameGets == Permutations(AuthRequests)
===========================================================================
