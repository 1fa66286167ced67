---------------------------- MODULE VerifyPromise ----------------------------
(***************************************************************************)
(* What a verify exchange promises whoever created it, if one presentation *)
(* is made: it is answered at once, or once every badge it shows has been  *)
(* checked, and the answer stays until the exchange expires; the check is  *)
(* begun anew a bounded number of times, and only the last attempt is      *)
(* given up.  An exchange that was given up may still be answered, by the  *)
(* attempt that was under way.                                             *)
(***************************************************************************)
EXTENDS Naturals

CONSTANTS Badges, MaxAttempts

VARIABLES phase,    \* "new", "open", "checking", "gaveUp", "complete", "invalid", "gone"
          attempt,  \* which attempt to check is the current one
          shown     \* the badges shown, those checked, and those found wrong

vars == <<phase, attempt, shown>>

Shown == [badges : SUBSET Badges, checked : SUBSET Badges, refuted : SUBSET Badges]

Nothing == [badges |-> {}, checked |-> {}, refuted |-> {}]

Unchecked(s) == s \in Shown /\ s.checked = {} /\ s.refuted = {}

Init == phase = "new" /\ attempt = 0 /\ shown = Nothing

Open == phase = "new" /\ phase' = "open" /\ UNCHANGED <<attempt, shown>>

Answer ==
  /\ phase = "open"
  /\ phase' \in {"complete", "invalid"}
  /\ shown' = Nothing
  /\ UNCHANGED attempt

Check ==
  /\ phase = "open"
  /\ phase' = "checking" /\ attempt' = 1
  /\ Unchecked(shown') /\ shown'.badges # {}

Retry ==
  /\ phase = "checking" /\ attempt < MaxAttempts
  /\ attempt' = attempt + 1
  /\ UNCHANGED <<phase, shown>>

(* Nothing is complete that shows a badge unchecked or found wrong.          *)
Decide ==
  /\ phase \in {"checking", "gaveUp"}
  /\ phase' \in {"complete", "invalid"}
  /\ shown' \in Shown /\ shown'.badges = shown.badges /\ shown'.checked = shown.badges
  /\ phase' = "complete" => shown'.refuted = {}
  /\ UNCHANGED attempt

GiveUp ==
  /\ phase = "checking" /\ attempt = MaxAttempts
  /\ phase' = "gaveUp"
  /\ UNCHANGED <<attempt, shown>>

Expire ==
  /\ phase \notin {"new", "gone"}
  /\ phase' = "gone" /\ attempt' = 0 /\ shown' = Nothing

Next == Open \/ Answer \/ Check \/ Retry \/ Decide \/ GiveUp \/ Expire

Spec == Init /\ [][Next]_vars
=============================================================================
