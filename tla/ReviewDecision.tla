---------------------------- MODULE ReviewDecision ----------------------------
(***************************************************************************)
(* What an approval workflow promises about one job, whatever its policy:  *)
(* it goes up one level of review at a time and ends in one decision, and  *)
(* with the decision the workflow is over.  A late request, one for a      *)
(* level that is over, can break this, but only so far: it may open one    *)
(* level more or decide again, and never takes a level or a decision back. *)
(***************************************************************************)
EXTENDS Naturals

VARIABLES level,    \* rounds that there have been, 0 before the first
          verdict,  \* "open" until the decision
          late      \* there has been a late request

Final == {"reviewed", "rejected"}

Init == level = 0 /\ verdict = "open" /\ late = FALSE

Begin == level = 0 /\ level' = 1 /\ UNCHANGED <<verdict, late>>

Advance == /\ level > 0 /\ verdict = "open" /\ ~late
           /\ level' = level + 1
           /\ UNCHANGED <<verdict, late>>

Close == /\ level > 0 /\ verdict = "open" /\ ~late
         /\ verdict' \in Final
         /\ UNCHANGED <<level, late>>

Lapse == /\ level > 0 /\ late' = TRUE
         /\ level' \in {level, level + 1}
         /\ verdict' \in {verdict} \cup Final

Next == Begin \/ Advance \/ Close \/ Lapse

Spec == Init /\ [][Next]_<<level, verdict, late>>
=============================================================================
