---------------------------- MODULE ClaimPromise ----------------------------
(***************************************************************************)
(* What a claim exchange promises whoever created it, however many         *)
(* requests a wallet makes and by whichever protocol: it is open until one *)
(* credential has been issued for it, the record then shows that           *)
(* credential, and both stay as they are until the exchange expires.       *)
(***************************************************************************)
CONSTANTS Credentials, None

VARIABLES phase,      \* "new", "open", "complete" or "gone"
          credential  \* the one that was issued

Init == phase = "new" /\ credential = None

Open == phase = "new" /\ phase' = "open" /\ UNCHANGED credential

Issue(c) == phase = "open" /\ phase' = "complete" /\ credential' = c

Expire == phase \in {"open", "complete"} /\ phase' = "gone" /\ credential' = None

Next == Open \/ Expire \/ \E c \in Credentials : Issue(c)

Spec == Init /\ [][Next]_<<phase, credential>>
=============================================================================
