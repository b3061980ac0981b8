---------------------------- MODULE AllOrNothing ----------------------------
(***************************************************************************)
(* What an onboarding transaction promises to whoever reads its journal:   *)
(* it makes the planned entries in order until all are made, or takes them *)
(* back in the opposite order until none is left, and never turns round.   *)
(***************************************************************************)
EXTENDS Naturals

CONSTANT Size \* the number of planned entries

VARIABLES
    made,   \* how many of them are made
    verdict \* "open", "applied", "undoing" or "undone"

vars == <<made, verdict>>

Init == made = 0 /\ verdict = "open"

Make == verdict = "open" /\ made < Size /\ made' = made + 1 /\ UNCHANGED verdict
Applied == verdict = "open" /\ made = Size /\ verdict' = "applied" /\ UNCHANGED made
GiveUp == verdict = "open" /\ verdict' = "undoing" /\ UNCHANGED made
Unmake == verdict = "undoing" /\ made > 0 /\ made' = made - 1 /\ UNCHANGED verdict
Undone == verdict = "undoing" /\ made = 0 /\ verdict' = "undone" /\ UNCHANGED made

Next == Make \/ Applied \/ GiveUp \/ Unmake \/ Undone
Spec == Init /\ [][Next]_vars
=============================================================================
