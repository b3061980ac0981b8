---------------------- MODULE MCOnboardingTransaction ----------------------
(* A plan of a directory, a file in it and a file beside it; the owner of  *)
(* the root has a letter in it, and may also put a note in that directory. *)
EXTENDS OnboardingTransaction

CONSTANTS dir, file, other, note, letter

MCPlan == <<dir, file, other>>
MCBefore == [p \in {dir, file, other, note, letter} |-> IF p = letter THEN "other" ELSE "missing"]
MCParent == [p \in {dir, file, other, note, letter} |-> IF p \in {file, note} THEN dir ELSE TopLevel]

Verdict ==
    IF Seen("completed") THEN "applied"
    ELSE IF Seen("rolled_back") THEN "undone"
    ELSE IF RollingBack THEN "undoing" ELSE "open"

Whole == INSTANCE AllOrNothing WITH
    Size <- Len(Plan), made <- Cardinality(Created), verdict <- Verdict

\* The journal of a transaction, through crashes, recoveries and changes by
\* the owner of the root, implements AllOrNothing.
JournalIsAllOrNothing == Whole!Spec

=============================================================================
