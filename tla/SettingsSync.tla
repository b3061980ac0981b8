---------------------------- MODULE SettingsSync ----------------------------
(***************************************************************************)
(* The sandbox settings of a member's computers, kept in step through the  *)
(* account: apps/server/src/agent-sandbox/sync.ts with writeSandboxDefault *)
(* of settings.ts.  Each computer has one row of its own database, one     *)
(* round of requests at a time, and a user who edits, signs in as another  *)
(* member and signs out meanwhile.                                         *)
(*                                                                         *)
(* A step runs from one await that matters to the next: a request is       *)
(* served in one step and its answer used in a later one, or lost.  What   *)
(* runs under the lock of the row is one step.  The platform is external;  *)
(* its answers are those that sync.test.ts gives.                          *)
(***************************************************************************)
EXTENDS Naturals, Sequences

CONSTANTS
    Computers, Accounts,
    Member,    \* the account all computers begin with
    Values,    \* settings a user may choose
    Initial,   \* what the platform has for a new account
    NoAccount, \* nobody is signed in whose plan has the settings
    MaxEdits,  \* bound: edits of all users
    MaxSignIns, MaxFaults \* bounds: changes of account, requests that fail

Unset == [account |-> NoAccount, revision |-> 0, dirty |-> FALSE]
NoRow == [sandbox |-> Initial, set |-> FALSE, edit |-> 0, sync |-> Unset,
          as |-> NoAccount, seen |-> 0, new |-> FALSE]

ASSUME SyncAssumption ==
    Member \in Accounts /\ NoAccount \notin Accounts /\ MaxEdits \in Nat /\ MaxSignIns \in Nat /\ MaxFaults \in Nat

VARIABLES
    remote,  \* each account's changes on the platform; their number is the revision;
             \* history in it: the computers that made or confirmed it, and their edit
    account, \* who is signed in on each computer
    row,     \* its settings, the id of their last edit and what they are in step with;
             \* history in it: that edit's account (as), the changes its user knew (seen),
             \* and whether the computer did not know the account at all (new)
    saving,  \* the edit on its way: its settings, and the account read for it
    pc,      \* where the computer's round is
    round,   \* what it has read: account, row, and the platform's answers
    edits, signIns, faults,
    unheard  \* history: computers that have lost the answer to an upload

vars == <<remote, account, row, saving, pc, round, edits, signIns, faults, unheard>>

NoEdit == [sandbox |-> Initial, account |-> NoAccount, on |-> FALSE]
NoRound == [account |-> NoAccount, row |-> NoRow, revision |-> 0, sandbox |-> Initial,
            uploaded |-> FALSE]

Init ==
    /\ remote = [a \in Accounts |-> << >>]
    /\ account = [c \in Computers |-> Member]
    /\ row = [c \in Computers |-> NoRow] /\ saving = [c \in Computers |-> NoEdit]
    /\ pc = [c \in Computers |-> "idle"] /\ round = [c \in Computers |-> NoRound]
    /\ edits = 0 /\ signIns = 0 /\ faults = 0
    /\ unheard = {}

Goto(c, to) == pc' = [pc EXCEPT ![c] = to]

-----------------------------------------------------------------------------
(* The user.                                                               *)

SignIn(c, a) ==
    /\ signIns < MaxSignIns /\ a # account[c]
    /\ account' = [account EXCEPT ![c] = a] /\ signIns' = signIns + 1
    /\ UNCHANGED <<remote, row, saving, pc, round, edits, faults, unheard>>

\* saveSandboxDefault reads the account before it waits for the lock.
BeginSave(c, v) ==
    /\ ~saving[c].on /\ edits < MaxEdits /\ edits' = edits + 1
    /\ saving' = [saving EXCEPT ![c] = [sandbox |-> v, account |-> account[c], on |-> TRUE]]
    /\ UNCHANGED <<remote, account, row, pc, round, signIns, faults, unheard>>

\* The edit keeps the revision this computer has seen of the account.
Save(c) ==
    LET a     == saving[c].account
        knows == row[c].sync.account = a
        seen  == IF knows THEN row[c].sync.revision ELSE 0
    IN  /\ saving[c].on /\ saving' = [saving EXCEPT ![c] = NoEdit]
        /\ row' = [row EXCEPT ![c] =
               [sandbox |-> saving[c].sandbox, set |-> TRUE, edit |-> edits,
                as |-> a, seen |-> seen, new |-> knows => row[c].new,
                sync |-> IF a = NoAccount THEN Unset
                         ELSE [account |-> a, revision |-> seen, dirty |-> TRUE]]]
        /\ UNCHANGED <<remote, account, pc, round, edits, signIns, faults, unheard>>

-----------------------------------------------------------------------------
(* A round.                                                                *)

\* The account first, then the row; without an account there is no round.
RoundBegins(c) ==
    /\ pc[c] = "idle" /\ account[c] # NoAccount
    /\ round' = [round EXCEPT ![c].account = account[c]] /\ Goto(c, "reading")
    /\ UNCHANGED <<remote, account, row, saving, edits, signIns, faults, unheard>>
RoundReads(c) ==
    /\ pc[c] = "reading"
    /\ round' = [round EXCEPT ![c].row = row[c]] /\ Goto(c, "asking")
    /\ UNCHANGED <<remote, account, row, saving, edits, signIns, faults, unheard>>

Revision(a) == Len(remote[a])
Settings(a) == IF remote[a] = << >> THEN Initial ELSE remote[a][Len(remote[a])].sandbox

\* Only an edit made under the round's account is uploaded.
MutUploads(c) == round[c].row.sync.dirty /\ round[c].row.set
Uploads(c) ==
    LET r == round[c].row IN r.sync.account = round[c].account /\ r.sync.dirty /\ r.set

Answered(c, to) ==
    LET a == round[c].account
    IN  /\ round' = [round EXCEPT ![c].revision = Revision(a), ![c].sandbox = Settings(a)]
        /\ Goto(c, to)
Get(c) ==
    /\ pc[c] \in {"asking", "again"}
    /\ Answered(c, IF pc[c] = "asking" /\ Uploads(c) THEN "uploading" ELSE "applying")
    /\ UNCHANGED <<remote, account, row, saving, edits, signIns, faults, unheard>>

\* The revision this computer has edited goes along; the platform refuses it
\* when it has another one with other settings.
Sent(c) == round[c].row.sync.revision
Change(c) == [sandbox |-> round[c].row.sandbox, by |-> {c}, as |-> round[c].row.as,
              seen |-> round[c].row.seen]
Confirmed(changes, c) ==
    [k \in DOMAIN changes |-> IF k = Len(changes) THEN [changes[k] EXCEPT !.by = @ \cup {c}]
                              ELSE changes[k]]
Put(c) ==
    LET a == round[c].account
        v == round[c].row.sandbox
    IN  /\ pc[c] = "uploading"
        /\ IF Sent(c) # Revision(a) /\ v # Settings(a)
             THEN Goto(c, "again") /\ UNCHANGED <<remote, round>>
             ELSE /\ Goto(c, "applying")
                  /\ remote' = [remote EXCEPT ![a] =
                         IF v # Settings(a) THEN Append(@, Change(c)) ELSE Confirmed(@, c)]
                  /\ round' = [round EXCEPT ![c].revision = Len(remote'[a]), ![c].sandbox = v,
                                            ![c].uploaded = TRUE]
        /\ UNCHANGED <<account, row, saving, edits, signIns, faults, unheard>>

\* A request or its answer is lost, or the server is restarted: the row stays
\* as it is until a later round.
MutRoundFails(c) ==
    /\ pc[c] # "idle" /\ faults < MaxFaults /\ faults' = faults + 1 /\ Goto(c, "failed")
    /\ UNCHANGED <<round, unheard, remote, account, row, saving, edits, signIns>>
RoundFails(c) ==
    /\ pc[c] # "idle" /\ faults < MaxFaults /\ faults' = faults + 1
    /\ Goto(c, "idle") /\ round' = [round EXCEPT ![c] = NoRound]
    /\ unheard' = IF round[c].uploaded THEN unheard \cup {c} ELSE unheard
    /\ UNCHANGED <<remote, account, row, saving, edits, signIns>>

\* Under the lock: a newer edit stays, and only learns of the revision that
\* this round's own upload has made.
Edited(c) == row[c].edit # round[c].row.edit
MutAcknowledged(c) == FALSE
Acknowledged(c) ==
    LET sync == row[c].sync
    IN  /\ round[c].uploaded /\ sync.account = round[c].account
        /\ round[c].row.sync.account = round[c].account
        /\ sync.revision = round[c].row.sync.revision
Ignored(c) == account[c] # round[c].account \/ (Edited(c) /\ ~Acknowledged(c))
Apply(c) ==
    LET r == round[c]
        sync == [account |-> r.account, revision |-> r.revision, dirty |-> Edited(c)]
    IN  /\ pc[c] = "applying" /\ Goto(c, "idle") /\ round' = [round EXCEPT ![c] = NoRound]
        /\ IF Ignored(c)
             THEN /\ UNCHANGED row
                  /\ unheard' = IF r.uploaded /\ account[c] # r.account THEN unheard \cup {c} ELSE unheard
             ELSE /\ row' = IF Edited(c)
                              THEN [row EXCEPT ![c].sync = sync, ![c].new = FALSE]
                              ELSE [row EXCEPT ![c].sync = sync, ![c].sandbox = r.sandbox,
                                               ![c].set = TRUE, ![c].new = FALSE]
                  /\ unheard' = unheard \ {c}
        /\ UNCHANGED <<remote, account, saving, edits, signIns, faults>>

Works(c) ==
    RoundBegins(c) \/ RoundReads(c) \/ Get(c) \/ Put(c) \/ Apply(c)

Next ==
    \E c \in Computers :
      \/ Works(c) \/ RoundFails(c) \/ Save(c)
      \/ \E a \in Accounts \cup {NoAccount} : SignIn(c, a)
      \/ \E v \in Values : BeginSave(c, v)

Spec == Init /\ [][Next]_vars

\* A timer starts a round every half minute, requests have time-outs, and a save
\* gets the lock.
FairSpec == Spec /\ \A c \in Computers : WF_vars(Works(c)) /\ WF_vars(Save(c))

-----------------------------------------------------------------------------
(* Properties.                                                             *)

\* What is uploaded to an account has been edited under it, and replaces only a
\* change that the user knew, or that the same computer had made or confirmed
\* (lines 46 and 53).
UploadsAreFounded ==
    \A a \in Accounts : \A k \in DOMAIN remote[a] :
      LET change == remote[a][k]
      IN  /\ change.as = a
          /\ k - 1 > change.seen => \E c \in change.by : c \in remote[a][k - 1].by

\* An edit that is still to be uploaded gives way to the platform's settings in
\* four cases only (lines 53 and 57).  Another computer has changed them since
\* the revision it is based on; this computer did not know the account when the
\* edit was made; it has lost the answer to an upload; or the edit was made under
\* another account than the member's present one, whose settings replace it for
\* good (lines 34, 41 and 65; sync.test.ts:100-105 asserts that).
EditGivesWayToOthersOnly ==
    [][\A c \in Computers :
         LET r == row[c]
         IN  r.sync.dirty /\ row'[c].edit = r.edit /\ row'[c].sandbox # r.sandbox =>
               \/ c \in unheard \/ r.new \/ r.sync.account # account[c]
               \/ \E k \in r.sync.revision + 1 .. Len(remote[account[c]]) :
                    remote[account[c]][k].by # {c}]_vars

\* An edit does not stay queued: it is uploaded or gives way, unless the member
\* signs out.
Queued(c) == row[c].sync.dirty /\ row[c].sync.account = account[c]
EditsArrive == \A c \in Computers : Queued(c) ~> ~Queued(c)

=============================================================================
