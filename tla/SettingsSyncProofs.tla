------------------------- MODULE SettingsSyncProofs -------------------------
(***************************************************************************)
(* That an upload of SettingsSync is founded, for any number of computers, *)
(* accounts, edits and lost requests.  The invariant follows a revision    *)
(* from the platform's answer through the round to the row and back: what  *)
(* a dirty row goes beyond the changes its user knew is the computer's own *)
(* upload.                                                                 *)
(***************************************************************************)
EXTENDS SettingsSync, TLAPS

Who == Accounts \cup {NoAccount}
Sandboxes == Values \cup {Initial}
Changes == [sandbox : Sandboxes, by : SUBSET Computers, as : Who, seen : Nat]
Rows == [sandbox : Sandboxes, set : BOOLEAN, edit : Nat,
         sync : [account : Who, revision : Nat, dirty : BOOLEAN],
         as : Who, seen : Nat, new : BOOLEAN]
Rounds == [account : Who, row : Rows, revision : Nat, sandbox : Sandboxes, uploaded : BOOLEAN]
Places == {"idle", "reading", "asking", "uploading", "again", "applying"}

SyncType ==
    /\ remote \in [Accounts -> Seq(Changes)]
    /\ account \in [Computers -> Who]
    /\ row \in [Computers -> Rows]
    /\ saving \in [Computers -> [sandbox : Sandboxes, account : Who, on : BOOLEAN]]
    /\ pc \in [Computers -> Places]
    /\ round \in [Computers -> Rounds]
    /\ edits \in Nat
    /\ \A c \in Computers : pc[c] # "idle" => round[c].account \in Accounts

\* A row is at a revision the platform has had; a queued edit was made under the
\* row's account, and the computer itself has made or confirmed the revision if
\* the user did not know it.
Founded(c, r) ==
    /\ r.sync.account \in Accounts => r.sync.revision <= Len(remote[r.sync.account])
    /\ r.sync.dirty =>
         /\ r.as = r.sync.account /\ r.sync.account \in Accounts
         /\ r.sync.revision > r.seen => c \in remote[r.sync.account][r.sync.revision].by

\* The same of what a round has read, and of the answer it has.
RoundFounded(c) ==
    LET r == round[c]
    IN  /\ pc[c] \notin {"idle", "reading"} =>
             /\ Founded(c, r.row)
             /\ Edited(c) => row[c].as = row[c].sync.account
        /\ pc[c] = "uploading" => Uploads(c)
        /\ pc[c] = "applying" => r.revision <= Len(remote[r.account])
        /\ r.uploaded =>
             /\ pc[c] = "applying"
             /\ r.revision > 0 => c \in remote[r.account][r.revision].by

ChangeFounded(a, k) ==
    /\ remote[a][k].as = a
    /\ k - 1 > remote[a][k].seen => \E c \in remote[a][k].by : c \in remote[a][k - 1].by

SyncInv ==
    /\ SyncType
    /\ \A c \in Computers : Founded(c, row[c]) /\ RoundFounded(c)
    /\ \A a \in Accounts : \A k \in 1 .. Len(remote[a]) : ChangeFounded(a, k)

\* No change is taken back: the platform adds changes and confirmations.
Grows ==
    \A a \in Accounts :
      /\ Len(remote[a]) <= Len(remote'[a])
      /\ \A k \in 1 .. Len(remote[a]) :
           /\ remote[a][k].by \subseteq remote'[a][k].by
           /\ remote'[a][k].as = remote[a][k].as /\ remote'[a][k].seen = remote[a][k].seen

LEMMA FoundedStays ==
    ASSUME SyncType, SyncType', Grows, NEW c \in Computers, NEW r \in Rows, Founded(c, r)
    PROVE  Founded(c, r)'
<1>1. r.sync.revision \in Nat /\ r.seen \in Nat /\ r.sync.account \in Who
    BY DEF Rows
<1>2. \A a \in Accounts : Len(remote[a]) \in Nat /\ Len(remote'[a]) \in Nat
    BY DEF SyncType
<1> QED BY <1>1, <1>2 DEF Founded, Grows

\* A computer that a step leaves alone.
LEMMA OthersFounded ==
    ASSUME SyncInv, SyncType', Grows, NEW c \in Computers,
           row'[c] = row[c], pc'[c] = pc[c], round'[c] = round[c]
    PROVE  Founded(c, row[c])' /\ RoundFounded(c)'
<1>1. row[c] \in Rows /\ round[c] \in Rounds /\ round[c].row \in Rows /\ round[c].revision \in Nat
      /\ (pc[c] # "idle" => round[c].account \in Accounts)
    BY DEF SyncInv, SyncType, Rounds
<1>2. \A r \in Rows : Founded(c, r) => Founded(c, r)'
    BY FoundedStays DEF SyncInv
<1>3. Founded(c, row[c])'
    BY <1>1, <1>2 DEF SyncInv, Founded
<1>4. pc[c] \notin {"idle", "reading"} => Founded(c, round[c].row)'
    BY <1>1, <1>2 DEF SyncInv, RoundFounded, Founded
<1>5. \A a \in Accounts : Len(remote[a]) \in Nat /\ Len(remote'[a]) \in Nat
    BY DEF SyncInv, SyncType
<1>6. pc[c] = "applying" => round[c].revision <= Len(remote'[round[c].account])
    BY <1>1, <1>5 DEF SyncInv, RoundFounded, Grows
<1>7. round[c].uploaded /\ round[c].revision > 0 =>
        c \in remote'[round[c].account][round[c].revision].by
    BY <1>1, <1>5 DEF SyncInv, RoundFounded, Grows
<1>8. RoundFounded(c)
    BY DEF SyncInv
<1> QED BY <1>1, <1>3, <1>4, <1>6, <1>7, <1>8 DEF RoundFounded, Founded, Edited, Uploads

\* A step that leaves the platform alone keeps its changes founded.
LEMMA SameRemote ==
    ASSUME SyncInv, remote' = remote
    PROVE  Grows /\ \A a \in Accounts : \A k \in 1 .. Len(remote'[a]) : ChangeFounded(a, k)'
<1>1. \A a \in Accounts : Len(remote[a]) \in Nat
    BY DEF SyncInv, SyncType
<1> QED BY <1>1 DEF SyncInv, Grows, ChangeFounded

-----------------------------------------------------------------------------
(* The user.                                                               *)

LEMMA SaveInv ==
    ASSUME SyncInv, NEW c \in Computers, Save(c)
    PROVE  SyncInv'
<1> DEFINE a == saving[c].account
           knows == row[c].sync.account = a
           seen == IF knows THEN row[c].sync.revision ELSE 0
           sync == IF a = NoAccount THEN Unset ELSE [account |-> a, revision |-> seen, dirty |-> TRUE]
           new == [sandbox |-> saving[c].sandbox, set |-> TRUE, edit |-> edits,
                   as |-> a, seen |-> seen, new |-> knows => row[c].new, sync |-> sync]
<1>1. /\ row' = [row EXCEPT ![c] = new] /\ saving' = [saving EXCEPT ![c] = NoEdit]
      /\ UNCHANGED <<remote, account, pc, round, edits>>
    BY DEF Save
<1>2. a \in Who /\ row[c] \in Rows /\ saving[c].sandbox \in Sandboxes /\ edits \in Nat
    BY DEF SyncInv, SyncType
<1>3. seen \in Nat /\ (knows => row[c].new) \in BOOLEAN
    BY <1>2 DEF Rows
<1> HIDE DEF knows
<1>4. sync \in [account : Who, revision : Nat, dirty : BOOLEAN] /\ sync.account = a
      /\ sync.revision <= seen /\ (sync.dirty => a # NoAccount)
    BY <1>2, <1>3 DEF Unset, Who
<1>5. a \in Accounts => seen <= Len(remote[a])
    <2>1. a \in Accounts => Len(remote[a]) \in Nat
        BY DEF SyncInv, SyncType
    <2> QED BY <1>2, <2>1 DEF SyncInv, Founded, knows
<1> HIDE DEF seen, sync, a
<1>6. new \in Rows /\ new.sync = sync /\ new.as = a /\ new.seen = seen
    BY <1>2, <1>3, <1>4 DEF Rows
<1> HIDE DEF new
<1>7. SyncType'
    BY <1>1, <1>6 DEF SyncInv, SyncType, NoEdit, Who, Sandboxes
<1>8. Grows /\ \A x \in Accounts : \A k \in 1 .. Len(remote'[x]) : ChangeFounded(x, k)'
    BY <1>1, SameRemote
<1>9. row'[c] = new /\ \A d \in Computers \ {c} : row'[d] = row[d]
    BY <1>1, <1>7 DEF SyncInv, SyncType
<1>10. Founded(c, row[c])'
    <2>1. a \in Accounts => sync.revision <= Len(remote[a])
        <3>1. a \in Accounts => Len(remote[a]) \in Nat
            BY DEF SyncInv, SyncType
        <3> QED BY <1>3, <1>4, <1>5, <3>1
    <2>2. sync.dirty => a \in Accounts /\ ~(sync.revision > seen)
        BY <1>2, <1>3, <1>4 DEF Who
    <2> QED BY <1>1, <1>4, <1>6, <1>9, <2>1, <2>2 DEF Founded
<1>11. RoundFounded(c)'
    <2>1. row'[c].as = row'[c].sync.account
        BY <1>4, <1>6, <1>9
    <2>2. RoundFounded(c)
        BY DEF SyncInv
    <2> QED BY <1>1, <2>1, <2>2 DEF RoundFounded, Founded, Uploads
<1>12. ASSUME NEW d \in Computers \ {c} PROVE Founded(d, row[d])' /\ RoundFounded(d)'
    BY <1>1, <1>7, <1>8, <1>9, OthersFounded
<1> QED BY <1>7, <1>8, <1>10, <1>11, <1>12 DEF SyncInv

LEMMA UserInv ==
    ASSUME SyncInv, NEW c \in Computers,
           \/ \E a \in Accounts \cup {NoAccount} : SignIn(c, a)
           \/ \E v \in Values : BeginSave(c, v)
    PROVE  SyncInv'
<1>1. UNCHANGED <<remote, row, pc, round>>
    BY DEF SignIn, BeginSave
<1>2. SyncType'
    <2>0. SyncType
        BY DEF SyncInv
    <2>1. ASSUME NEW a \in Accounts \cup {NoAccount}, SignIn(c, a) PROVE SyncType'
        BY <1>1, <2>0, <2>1 DEF SyncType, SignIn, Who
    <2>2. ASSUME NEW v \in Values, BeginSave(c, v) PROVE SyncType'
        <3> DEFINE new == [sandbox |-> v, account |-> account[c], on |-> TRUE]
        <3>1. saving' = [saving EXCEPT ![c] = new] /\ edits' = edits + 1 /\ account' = account
            BY <2>2 DEF BeginSave
        <3>2. new \in [sandbox : Sandboxes, account : Who, on : BOOLEAN]
            BY <2>0 DEF SyncType, Sandboxes
        <3> HIDE DEF new
        <3> QED BY <1>1, <2>0, <3>1, <3>2 DEF SyncType
    <2> QED BY <2>1, <2>2
<1>3. Grows /\ \A x \in Accounts : \A k \in 1 .. Len(remote'[x]) : ChangeFounded(x, k)'
    BY <1>1, SameRemote
<1>4. ASSUME NEW d \in Computers PROVE Founded(d, row[d])' /\ RoundFounded(d)'
    BY <1>1, <1>2, <1>3, OthersFounded
<1> QED BY <1>2, <1>3, <1>4 DEF SyncInv

-----------------------------------------------------------------------------
(* A round.                                                                *)

LEMMA AskingInv ==
    ASSUME SyncInv, NEW c \in Computers,
           RoundBegins(c) \/ RoundReads(c) \/ Get(c) \/ RoundFails(c)
    PROVE  SyncInv'
<1> DEFINE a == round[c].account
<1>0. /\ pc[c] \in Places /\ account[c] \in Who /\ row[c] \in Rows /\ round[c] \in Rounds
      /\ (pc[c] # "idle" => a \in Accounts)
      /\ \A x \in Accounts : Revision(x) \in Nat /\ Settings(x) \in Sandboxes
      /\ Founded(c, row[c]) /\ RoundFounded(c)
    <2>1. ASSUME NEW x \in Accounts PROVE Revision(x) \in Nat /\ Settings(x) \in Sandboxes
        <3>1. remote[x] \in Seq(Changes)
            BY DEF SyncInv, SyncType
        <3>2. remote[x] # << >> => remote[x][Len(remote[x])] \in Changes
            BY <3>1
        <3> QED BY <3>1, <3>2 DEF Revision, Settings, Changes, Sandboxes
    <2> QED BY <2>1 DEF SyncInv, SyncType
<1>1. UNCHANGED <<remote, account, row, saving, edits>>
    BY DEF RoundBegins, RoundReads, Get, RoundFails
<1>2. /\ round'[c] \in Rounds /\ pc'[c] \in Places
      /\ pc'[c] # "idle" => round'[c].account \in Accounts
      /\ round' = [round EXCEPT ![c] = round'[c]] /\ pc' = [pc EXCEPT ![c] = pc'[c]]
      /\ RoundFounded(c)'
    <2>1. CASE RoundBegins(c)
        <3>1. /\ round'[c] = [round[c] EXCEPT !.account = account[c]] /\ pc'[c] = "reading"
              /\ account[c] \in Accounts /\ ~round[c].uploaded
              /\ round' = [round EXCEPT ![c] = round'[c]] /\ pc' = [pc EXCEPT ![c] = pc'[c]]
            BY <1>0, <2>1 DEF RoundBegins, Goto, SyncInv, SyncType, Who, RoundFounded
        <3>2. round'[c] \in Rounds /\ round'[c].account = account[c] /\ ~round'[c].uploaded
            BY <1>0, <3>1 DEF Rounds, Who
        <3> QED BY <3>1, <3>2 DEF RoundFounded, Places
    <2>2. CASE RoundReads(c)
        <3>1. /\ round'[c] = [round[c] EXCEPT !.row = row[c]] /\ pc'[c] = "asking"
              /\ ~round[c].uploaded /\ pc[c] = "reading"
              /\ round' = [round EXCEPT ![c] = round'[c]] /\ pc' = [pc EXCEPT ![c] = pc'[c]]
            BY <1>0, <2>2 DEF RoundReads, Goto, SyncInv, SyncType, RoundFounded
        <3>2. /\ round'[c] \in Rounds /\ round'[c].account = a /\ ~round'[c].uploaded
              /\ round'[c].row = row[c]
            BY <1>0, <3>1 DEF Rounds
        <3> QED BY <1>0, <1>1, <3>1, <3>2 DEF RoundFounded, Founded, Edited, Places
    <2>3. CASE Get(c)
        <3>1. /\ round'[c] = [round[c] EXCEPT !.revision = Revision(a), !.sandbox = Settings(a)]
              /\ pc[c] \in {"asking", "again"} /\ a \in Accounts /\ ~round[c].uploaded
              /\ pc'[c] = IF pc[c] = "asking" /\ Uploads(c) THEN "uploading" ELSE "applying"
              /\ round' = [round EXCEPT ![c] = round'[c]] /\ pc' = [pc EXCEPT ![c] = pc'[c]]
            BY <1>0, <2>3 DEF Get, Answered, Goto, SyncInv, SyncType, RoundFounded
        <3>2. /\ round'[c] \in Rounds /\ round'[c].account = a /\ ~round'[c].uploaded
              /\ round'[c].row = round[c].row /\ round'[c].revision = Revision(a)
            <4> DEFINE n == Revision(a)
                       sandbox == Settings(a)
            <4>1. n \in Nat /\ sandbox \in Sandboxes /\ round[c] \in Rounds
                BY <1>0, <3>1
            <4>2. round'[c] = [round[c] EXCEPT !.revision = n, !.sandbox = sandbox]
                  /\ ~round[c].uploaded
                BY <3>1
            <4> HIDE DEF n, sandbox
            <4>3. round'[c] \in Rounds
                BY <4>1, <4>2 DEF Rounds
            <4>4. /\ round'[c].account = a /\ ~round'[c].uploaded
                  /\ round'[c].row = round[c].row /\ round'[c].revision = n
                BY <4>1, <4>2 DEF Rounds
            <4> QED BY <4>3, <4>4 DEF n
        <3>3. round'[c].revision <= Len(remote[a])
            BY <1>0, <3>1, <3>2 DEF Revision
        <3> QED BY <1>0, <1>1, <3>1, <3>2, <3>3 DEF RoundFounded, Founded, Edited, Uploads, Places
    <2>4. CASE RoundFails(c)
        <3>1. /\ round'[c] = NoRound /\ pc'[c] = "idle"
              /\ round' = [round EXCEPT ![c] = round'[c]] /\ pc' = [pc EXCEPT ![c] = pc'[c]]
            BY <2>4 DEF RoundFails, Goto, SyncInv, SyncType
        <3>2. NoRound \in Rounds /\ ~NoRound.uploaded
            BY DEF NoRound, NoRow, Unset, Rounds, Rows, Who, Sandboxes
        <3> QED BY <3>1, <3>2 DEF RoundFounded, Places
    <2> QED BY <2>1, <2>2, <2>3, <2>4
<1>3. SyncType'
    BY <1>1, <1>2 DEF SyncInv, SyncType
<1>4. Grows /\ \A x \in Accounts : \A k \in 1 .. Len(remote'[x]) : ChangeFounded(x, k)'
    BY <1>1, SameRemote
<1>5. Founded(c, row[c])'
    BY <1>0, <1>1 DEF Founded
<1>6. ASSUME NEW d \in Computers \ {c} PROVE Founded(d, row[d])' /\ RoundFounded(d)'
    <2>1. round'[d] = round[d] /\ pc'[d] = pc[d]
        BY <1>2 DEF SyncInv, SyncType
    <2> QED BY <1>1, <1>3, <1>4, <2>1, OthersFounded
<1> QED BY <1>2, <1>3, <1>4, <1>5, <1>6 DEF SyncInv

\* What an upload makes of the account's changes: one more, which the edit of the
\* round's row stands for, or a confirmation of the last one.
Uploaded(c, a, new, last) ==
    /\ remote' = [remote EXCEPT ![a] = new] /\ new \in Seq(Changes) /\ last = Len(new)
    /\ last \in {Len(remote[a]), Len(remote[a]) + 1}
    /\ \A k \in 1 .. Len(remote[a]) :
         /\ remote[a][k].by \subseteq new[k].by
         /\ new[k].as = remote[a][k].as /\ new[k].seen = remote[a][k].seen
    /\ last > 0 => c \in new[last].by
    /\ last # Len(remote[a]) =>
         /\ new[last].by = {c} /\ new[last].as = round[c].row.as
         /\ new[last].seen = round[c].row.seen /\ Sent(c) = Len(remote[a])

LEMMA PutUploads ==
    ASSUME SyncInv, NEW c \in Computers, Put(c), pc'[c] # "again"
    PROVE  LET a == round[c].account
           IN  /\ Uploaded(c, a, remote'[a], Len(remote'[a]))
               /\ round'[c] = [round[c] EXCEPT !.revision = Len(remote'[a]),
                                               !.sandbox = round[c].row.sandbox, !.uploaded = TRUE]
               /\ round' = [round EXCEPT ![c] = round'[c]]
               /\ pc' = [pc EXCEPT ![c] = "applying"]
<1> DEFINE a == round[c].account
           v == round[c].row.sandbox
           change == Change(c)
           old == remote[a]
           n == Len(old)
           confirmed == Confirmed(old, c)
<1>0. a \in Accounts /\ round[c] \in Rounds /\ old \in Seq(Changes) /\ pc[c] = "uploading"
    BY DEF Put, SyncInv, SyncType
<1>1. Sent(c) = Revision(a) \/ v = Settings(a)
    BY DEF Put, Goto, SyncInv, SyncType
<1>2. /\ v # Settings(a) => remote' = [remote EXCEPT ![a] = Append(old, change)]
      /\ v = Settings(a) => remote' = [remote EXCEPT ![a] = confirmed]
    BY <1>1 DEF Put
<1>7. /\ round' = [round EXCEPT ![c].revision = Len(remote'[a]), ![c].sandbox = v, ![c].uploaded = TRUE]
      /\ pc' = [pc EXCEPT ![c] = "applying"]
    BY <1>1 DEF Put, Goto
<1>3. change \in Changes
    BY <1>0 DEF Rounds, Rows, Changes, Change
<1> HIDE DEF confirmed
<1>4. ASSUME v # Settings(a) PROVE Uploaded(c, a, remote'[a], Len(remote'[a]))
    <2>1. remote' = [remote EXCEPT ![a] = Append(old, change)] /\ remote'[a] = Append(old, change)
        BY <1>0, <1>2, <1>4 DEF SyncInv, SyncType
    <2>2. change.by = {c} /\ change.as = round[c].row.as /\ change.seen = round[c].row.seen
        BY DEF Change
    <2>3. Sent(c) = n
        BY <1>1, <1>4 DEF Revision
    <2> HIDE DEF change
    <2>4. /\ Append(old, change) \in Seq(Changes) /\ Len(Append(old, change)) = n + 1
          /\ n \in Nat /\ Append(old, change)[n + 1] = change
          /\ \A k \in 1 .. n : Append(old, change)[k] = old[k]
        BY <1>0, <1>3
    <2> DEFINE new == remote'[a]
    <2>5. new \in Seq(Changes) /\ Len(new) = n + 1 /\ new[n + 1] = change
          /\ \A k \in 1 .. n : /\ new[k] = old[k] /\ old[k].by \subseteq new[k].by
        BY <2>1, <2>4
    <2>6. remote' = [remote EXCEPT ![a] = new]
        BY <2>1
    <2> HIDE DEF new
    <2>7. Uploaded(c, a, new, n + 1)
        BY <2>2, <2>3, <2>5, <2>6 DEF Uploaded
    <2> QED BY <2>5, <2>7 DEF new
<1>5. ASSUME v = Settings(a) PROVE Uploaded(c, a, remote'[a], Len(remote'[a]))
    <2>1. remote' = [remote EXCEPT ![a] = confirmed] /\ remote'[a] = confirmed
        BY <1>0, <1>2, <1>5 DEF SyncInv, SyncType
    <2>2. n \in Nat /\ DOMAIN old = 1 .. n /\ \A k \in 1 .. n : old[k] \in Changes
        BY <1>0
    <2>3. ASSUME NEW k \in 1 .. n
          PROVE  /\ confirmed[k] \in Changes /\ confirmed[k].as = old[k].as
                 /\ confirmed[k].seen = old[k].seen
                 /\ old[k].by \subseteq confirmed[k].by /\ (k = n => c \in confirmed[k].by)
        <3>1. confirmed[k] = IF k = n THEN [old[k] EXCEPT !.by = @ \cup {c}] ELSE old[k]
            BY <2>2 DEF confirmed, Confirmed
        <3>2. old[k] \in Changes
            BY <2>2
        <3>3. CASE k = n
            <4>1. confirmed[k] = [old[k] EXCEPT !.by = @ \cup {c}]
                BY <3>1, <3>3
            <4> HIDE DEF confirmed
            <4> QED BY <3>2, <4>1 DEF Changes
        <3>4. CASE k # n
            BY <3>1, <3>2, <3>4 DEF Changes
        <3> QED BY <3>3, <3>4
    <2>4. confirmed = [k \in 1 .. n |-> confirmed[k]] /\ DOMAIN confirmed = 1 .. n
        BY <2>2 DEF confirmed, Confirmed
    <2>5. confirmed \in [1 .. n -> Changes]
        BY <2>3, <2>4
    <2>6. confirmed \in Seq(Changes) /\ Len(confirmed) = n
        BY <2>2, <2>5
    <2>7. Uploaded(c, a, confirmed, n)
        BY <2>1, <2>3, <2>6 DEF Uploaded
    <2> QED BY <2>1, <2>6, <2>7
<1>6. /\ round'[c] = [round[c] EXCEPT !.revision = Len(remote'[a]), !.sandbox = v, !.uploaded = TRUE]
      /\ round' = [round EXCEPT ![c] = round'[c]]
    <2> DEFINE m == Len(remote'[a])
    <2> HIDE DEF m
    <2>1. round' = [round EXCEPT ![c].revision = m, ![c].sandbox = v, ![c].uploaded = TRUE]
        BY <1>7 DEF m
    <2>2. round \in [Computers -> Rounds]
        BY DEF SyncInv, SyncType
    <2> QED BY <2>1, <2>2 DEF m
<1> QED BY <1>4, <1>5, <1>6, <1>7

LEMMA PutInv ==
    ASSUME SyncInv, NEW c \in Computers, Put(c)
    PROVE  SyncInv'
<1> DEFINE a == round[c].account
<1>0. /\ pc[c] = "uploading" /\ a \in Accounts /\ round[c] \in Rounds /\ row[c] \in Rows
      /\ round[c].row \in Rows /\ Uploads(c) /\ Founded(c, round[c].row) /\ ~round[c].uploaded
      /\ UNCHANGED <<account, row, saving, edits>>
      /\ Founded(c, row[c]) /\ RoundFounded(c)
    BY DEF Put, SyncInv, SyncType, RoundFounded, Rounds
<1>1. CASE pc'[c] = "again"
    <2>1. pc' = [pc EXCEPT ![c] = "again"] /\ UNCHANGED <<remote, round>>
        BY <1>1 DEF Put, Goto, SyncInv, SyncType
    <2>2. SyncType'
        BY <1>0, <2>1 DEF SyncInv, SyncType, Places
    <2>3. Grows /\ \A x \in Accounts : \A k \in 1 .. Len(remote'[x]) : ChangeFounded(x, k)'
        BY <2>1, SameRemote
    <2>4. Founded(c, row[c])' /\ RoundFounded(c)'
        BY <1>0, <1>1, <2>1 DEF RoundFounded, Founded, Edited
    <2>5. ASSUME NEW d \in Computers \ {c} PROVE Founded(d, row[d])' /\ RoundFounded(d)'
        <3>1. pc'[d] = pc[d]
            BY <2>1 DEF SyncInv, SyncType
        <3> QED BY <1>0, <2>1, <2>2, <2>3, <3>1, OthersFounded
    <2> QED BY <2>2, <2>3, <2>4, <2>5 DEF SyncInv
<1>2. CASE pc'[c] # "again"
    <2> DEFINE new == remote'[a]
               last == Len(new)
    <2>1. /\ Uploaded(c, a, new, last)
          /\ round'[c] = [round[c] EXCEPT !.revision = last,
                                          !.sandbox = round[c].row.sandbox, !.uploaded = TRUE]
          /\ round' = [round EXCEPT ![c] = round'[c]] /\ pc' = [pc EXCEPT ![c] = "applying"]
        BY <1>2, PutUploads
    <2>2. remote' = [remote EXCEPT ![a] = new] /\ new \in Seq(Changes) /\ last \in Nat
          /\ remote[a] \in Seq(Changes) /\ Len(remote[a]) \in Nat
          /\ \A x \in Accounts : Len(remote[x]) \in Nat
          /\ \A b \in Accounts \ {a} : remote'[b] = remote[b]
        <3>1. remote \in [Accounts -> Seq(Changes)]
            BY DEF SyncInv, SyncType
        <3> HIDE DEF a, new
        <3>2. remote' = [remote EXCEPT ![a] = new] /\ new \in Seq(Changes)
            BY <2>1 DEF Uploaded
        <3> QED BY <1>0, <3>1, <3>2 DEF a
    <2> HIDE DEF a, new, last
    <2>3. /\ round'[c] \in Rounds /\ round'[c].account = a /\ round'[c].row = round[c].row
          /\ round'[c].revision = last /\ round'[c].uploaded
        BY <1>0, <2>1, <2>2 DEF Rounds, Rows, a
    <2>13. a' = a
        BY <2>3 DEF a
    <2>4. SyncType'
        <3>1. SyncType
            BY DEF SyncInv
        <3>2. remote' \in [Accounts -> Seq(Changes)] /\ pc' \in [Computers -> Places]
            BY <2>1, <2>2, <3>1 DEF SyncType, Places
        <3>3. round' \in [Computers -> Rounds]
              /\ \A d \in Computers \ {c} : round'[d] = round[d] /\ pc'[d] = pc[d]
            BY <2>1, <2>3, <3>1 DEF SyncType
        <3> QED BY <1>0, <2>3, <3>1, <3>2, <3>3 DEF SyncType, a
    <2>12. Uploaded(c, a, new, last)
        BY <2>1
    <2>5. Grows
        <3>1. Len(remote[a]) <= Len(new)
            BY <2>2, <2>12 DEF Uploaded
        <3>2. \A k \in 1 .. Len(remote[a]) :
                /\ remote[a][k].by \subseteq new[k].by
                /\ new[k].as = remote[a][k].as /\ new[k].seen = remote[a][k].seen
            BY <2>12 DEF Uploaded
        <3> QED BY <2>2, <3>1, <3>2 DEF Grows, new
    <2>6. last > 0 => c \in new[last].by
        BY <2>12 DEF Uploaded
    <2>7. Founded(c, row[c])' /\ Founded(c, round[c].row)'
        <3>1. \A r \in Rows : Founded(c, r) => Founded(c, r)'
            BY <2>4, <2>5, FoundedStays DEF SyncInv
        <3>2. \A r \in Rows : r = row[c] => Founded(c, r)'
            BY <1>0, <3>1
        <3>3. \A r \in Rows : r = round[c].row => Founded(c, r)'
            BY <1>0, <3>1
        <3> QED BY <1>0, <2>3, <3>2, <3>3 DEF Founded
    <2>8. RoundFounded(c)'
        <3>1. pc'[c] = "applying"
            BY <2>1 DEF SyncInv, SyncType
        <3>2. (round[c].revision <= Len(remote[round[c].account]))'
            BY <2>2, <2>3 DEF new, last
        <3>3. (round[c].revision > 0 => c \in remote[round[c].account][round[c].revision].by)'
            BY <2>3, <2>6 DEF new
        <3>4. (Edited(c) => row[c].as = row[c].sync.account)'
            BY <1>0, <2>3 DEF RoundFounded, Edited
        <3> QED BY <2>7, <3>1, <3>2, <3>3, <3>4 DEF RoundFounded
    <2>9. ASSUME NEW d \in Computers \ {c} PROVE Founded(d, row[d])' /\ RoundFounded(d)'
        <3>1. pc'[d] = pc[d] /\ round'[d] = round[d] /\ row'[d] = row[d]
            BY <1>0, <2>1 DEF SyncInv, SyncType
        <3> QED BY <2>4, <2>5, <3>1, OthersFounded
    <2>10. ASSUME NEW k \in 1 .. Len(new) PROVE ChangeFounded(a, k)'
        <3>1. CASE k \in 1 .. Len(remote[a])
            <4>1. ChangeFounded(a, k)
                BY <1>0, <3>1 DEF SyncInv, a
            <4>2. /\ new[k].as = remote[a][k].as /\ new[k].seen = remote[a][k].seen
                  /\ remote[a][k].by \subseteq new[k].by
                  /\ k - 1 \in 1 .. Len(remote[a]) => remote[a][k - 1].by \subseteq new[k - 1].by
                BY <2>12, <3>1 DEF Uploaded
            <4>3. remote[a][k].seen \in Nat
                <5>1. remote[a][k] \in Changes
                    BY <2>2, <3>1
                <5> QED BY <5>1 DEF Changes
            <4>4. k - 1 > remote[a][k].seen => k - 1 \in 1 .. Len(remote[a])
                BY <2>2, <3>1, <4>3
            <4>5. /\ new[k].as = a
                  /\ k - 1 > new[k].seen => \E d \in new[k].by : d \in new[k - 1].by
                BY <4>1, <4>2, <4>4 DEF ChangeFounded
            <4> QED BY <2>13, <4>5 DEF ChangeFounded, new
        <3>2. CASE k \notin 1 .. Len(remote[a])
            <4>1. /\ k = last /\ k = Len(remote[a]) + 1 /\ new[k].by = {c}
                  /\ new[k].as = round[c].row.as /\ new[k].seen = round[c].row.seen
                  /\ Sent(c) = Len(remote[a])
                BY <2>2, <2>12, <3>2 DEF Uploaded, last
            <4>2. /\ round[c].row.sync.account = a /\ round[c].row.sync.dirty
                  /\ round[c].row.sync.revision = Len(remote[a])
                BY <1>0, <4>1 DEF Uploads, Sent, a
            <4>3. /\ round[c].row.as = a
                  /\ Len(remote[a]) > round[c].row.seen => c \in remote[a][Len(remote[a])].by
                BY <1>0, <4>2 DEF Founded
            <4>4. round[c].row.seen \in Nat
                BY <1>0 DEF Rows
            <4>5. k - 1 = Len(remote[a])
                BY <2>2, <4>1
            <4>6. k - 1 \in 1 .. Len(remote[a]) => remote[a][k - 1].by \subseteq new[k - 1].by
                BY <2>12 DEF Uploaded
            <4>7. new[k].as = a /\ (k - 1 > new[k].seen => c \in new[k].by /\ c \in new[k - 1].by)
                BY <2>2, <4>1, <4>3, <4>4, <4>5, <4>6
            <4> QED BY <2>13, <4>7 DEF ChangeFounded, new
        <3> QED BY <3>1, <3>2
    <2>11. \A x \in Accounts : \A k \in 1 .. Len(remote'[x]) : ChangeFounded(x, k)'
        <3>1. \A x \in Accounts \ {a} : \A k \in 1 .. Len(remote'[x]) : ChangeFounded(x, k)'
            BY <2>2 DEF SyncInv, ChangeFounded
        <3>2. \A k \in 1 .. Len(remote'[a]) : ChangeFounded(a, k)'
            BY <2>10 DEF new
        <3>3. ASSUME NEW x \in Accounts PROVE \A k \in 1 .. Len(remote'[x]) : ChangeFounded(x, k)'
            <4>1. CASE x = a
                BY <2>13, <3>2, <4>1 DEF ChangeFounded
            <4>2. CASE x # a
                BY <3>1, <4>2
            <4> QED BY <4>1, <4>2
        <3> QED BY <3>3
    <2> QED BY <2>4, <2>7, <2>8, <2>9, <2>11 DEF SyncInv
<1> QED BY <1>1, <1>2

LEMMA ApplyInv ==
    ASSUME SyncInv, NEW c \in Computers, Apply(c)
    PROVE  SyncInv'
<1> DEFINE r == round[c]
           sync == [account |-> r.account, revision |-> r.revision, dirty |-> Edited(c)]
           kept == [row[c] EXCEPT !.sync = sync, !.new = FALSE]
           taken == [row[c] EXCEPT !.sync = sync, !.sandbox = r.sandbox, !.set = TRUE, !.new = FALSE]
<1>0. /\ pc[c] = "applying" /\ r.account \in Accounts /\ r \in Rounds /\ row[c] \in Rows
      /\ Founded(c, row[c]) /\ RoundFounded(c)
    BY DEF Apply, SyncInv, SyncType
<1>1. /\ pc' = [pc EXCEPT ![c] = "idle"] /\ round' = [round EXCEPT ![c] = NoRound]
      /\ UNCHANGED <<remote, account, saving, edits>>
      /\ \/ Ignored(c) /\ row' = row
         \/ ~Ignored(c) /\ Edited(c) /\ row' = [row EXCEPT ![c] = kept]
         \/ ~Ignored(c) /\ ~Edited(c) /\ row' = [row EXCEPT ![c] = taken]
    BY DEF Apply, Goto
<1>2. sync \in [account : Who, revision : Nat, dirty : BOOLEAN]
    BY <1>0 DEF Rounds, Who, Edited
<1>3. kept \in Rows /\ taken \in Rows
    <2> HIDE DEF sync
    <2> QED BY <1>0, <1>2 DEF Rows, Rounds
<1>4. /\ kept.sync = sync /\ kept.as = row[c].as /\ kept.seen = row[c].seen
      /\ taken.sync = sync /\ taken.as = row[c].as /\ taken.seen = row[c].seen
    BY <1>0 DEF Rows
<1>5. NoRound \in Rounds /\ ~NoRound.uploaded
    BY DEF NoRound, NoRow, Unset, Rounds, Rows, Who, Sandboxes
<1>6. /\ sync.account = r.account /\ sync.revision = r.revision
      /\ sync.dirty = Edited(c)
    OBVIOUS
<1> HIDE DEF kept, taken, sync
<1>7. SyncType'
    BY <1>1, <1>3, <1>5 DEF SyncInv, SyncType, Places
<1>8. Grows /\ \A x \in Accounts : \A k \in 1 .. Len(remote'[x]) : ChangeFounded(x, k)'
    BY <1>1, SameRemote
<1>9. r.revision <= Len(remote[r.account]) /\ row[c].seen \in Nat /\ r.revision \in Nat
    BY <1>0 DEF RoundFounded, Rows, Rounds
<1>10. Founded(c, row[c])'
    <2>1. CASE row' = row
        BY <1>0, <1>1, <2>1 DEF Founded
    <2>2. CASE ~Ignored(c) /\ Edited(c) /\ row' = [row EXCEPT ![c] = kept]
        <3>1. row'[c] = kept
            BY <2>2 DEF SyncInv, SyncType
        <3>2. r.uploaded /\ row[c].sync.account = r.account /\ row[c].as = row[c].sync.account
            BY <1>0, <2>2 DEF Ignored, Acknowledged, RoundFounded
        <3>3. r.revision > row[c].seen => c \in remote[r.account][r.revision].by
            BY <1>0, <1>9, <3>2 DEF RoundFounded
        <3> QED BY <1>0, <1>1, <1>4, <1>6, <1>9, <3>1, <3>2, <3>3 DEF Founded
    <2>3. CASE ~Edited(c) /\ row' = [row EXCEPT ![c] = taken]
        <3>1. row'[c] = taken
            BY <2>3 DEF SyncInv, SyncType
        <3> QED BY <1>0, <1>1, <1>4, <1>6, <1>9, <2>3, <3>1 DEF Founded
    <2> QED BY <1>1, <2>1, <2>2, <2>3
<1>11. RoundFounded(c)'
    <2>1. pc'[c] = "idle" /\ round'[c] = NoRound
        BY <1>1 DEF SyncInv, SyncType
    <2> QED BY <1>5, <2>1 DEF RoundFounded
<1>12. ASSUME NEW d \in Computers \ {c} PROVE Founded(d, row[d])' /\ RoundFounded(d)'
    <2>1. pc'[d] = pc[d] /\ round'[d] = round[d] /\ row'[d] = row[d]
        BY <1>1 DEF SyncInv, SyncType
    <2> QED BY <1>7, <1>8, <2>1, OthersFounded
<1> QED BY <1>7, <1>8, <1>10, <1>11, <1>12 DEF SyncInv

LEMMA NextInv == SyncInv /\ [Next]_vars => SyncInv'
<1>1. CASE UNCHANGED vars
    BY <1>1 DEF vars, SyncInv, SyncType, Founded, RoundFounded, Edited, Uploads, ChangeFounded
<1> QED BY <1>1, SaveInv, UserInv, AskingInv, PutInv, ApplyInv DEF Next, Works

LEMMA InitInv == Init => SyncInv
<1> SUFFICES ASSUME Init PROVE SyncInv
    OBVIOUS
<1>1. NoRow \in Rows /\ NoRow.sync = Unset /\ ~Unset.dirty /\ Unset.account \notin Accounts
    BY SyncAssumption DEF SyncAssumption, NoRow, Unset, Rows, Who, Sandboxes
<1>2. NoRound \in Rounds /\ ~NoRound.uploaded
    BY <1>1 DEF NoRound, Rounds, Who, Sandboxes
<1>3. SyncType
    BY <1>1, <1>2, SyncAssumption
    DEF Init, SyncType, SyncAssumption, NoEdit, Who, Sandboxes, Places
<1>4. \A c \in Computers : Founded(c, row[c]) /\ RoundFounded(c)
    BY <1>1, <1>2 DEF Init, Founded, RoundFounded
<1>5. \A a \in Accounts : Len(remote[a]) = 0
    BY DEF Init
<1> QED BY <1>3, <1>4, <1>5 DEF SyncInv

\* An upload takes the place only of settings the user knew or of the same
\* computer's own: the revision that goes along is that of the edit and not the one
\* just fetched, and a newer edit is acknowledged only by this round's own upload.
THEOREM UploadsFounded == Spec => []UploadsAreFounded
<1>1. SyncInv => UploadsAreFounded
    <2>1. SyncInv => \A a \in Accounts : DOMAIN remote[a] = 1 .. Len(remote[a])
        BY DEF SyncInv, SyncType
    <2> QED BY <2>1 DEF SyncInv, ChangeFounded, UploadsAreFounded
<1> QED BY <1>1, InitInv, NextInv, PTL DEF Spec

-----------------------------------------------------------------------------
(* What an edit gives way to.  Whatever the platform has beyond the        *)
(* revision of a row comes from other computers too, unless the computer   *)
(* has lost an answer, did not know the account or has an upload under way.*)

Others(c, a, n) ==
    n < Len(remote[a]) => \E k \in n + 1 .. Len(remote[a]) : \E d \in remote[a][k].by : d # c

Excused(c) ==
    \/ c \in unheard \/ row[c].new
    \/ round[c].uploaded /\ round[c].account = row[c].sync.account

RowHeard(c) ==
    /\ row[c].edit <= edits /\ (saving[c].on => row[c].edit < edits)
    /\ row[c].sync.dirty => row[c].set
    /\ row[c].sync.account \in Accounts /\ ~Excused(c) =>
         Others(c, row[c].sync.account, row[c].sync.revision)

\* During a round the row is as it was read, or there is a newer edit, which is
\* at the same revision as long as the account stays the same.
RowKnown(c) ==
    /\ round[c].row.edit <= row[c].edit
    /\ ~Edited(c) => row[c] = round[c].row
    /\ Edited(c) => row[c].set
    /\ Edited(c) /\ row[c].sync.account = round[c].row.sync.account
         /\ row[c].sync.account \in Accounts /\ ~row[c].new =>
           row[c].sync.revision = round[c].row.sync.revision

\* An upload that was refused is behind the platform.
Refused(c) == pc[c] = "again" \/ (pc[c] = "applying" /\ ~round[c].uploaded /\ Uploads(c))

RoundHeard(c) ==
    /\ pc[c] \notin {"idle", "reading"} => RowKnown(c)
    /\ Refused(c) => Sent(c) < Len(remote[round[c].account])
    /\ pc[c] = "applying" => Others(c, round[c].account, round[c].revision)
    /\ round[c].uploaded => Uploads(c) /\ round[c].sandbox = round[c].row.sandbox

HeardInv == \A c \in Computers : RowHeard(c) /\ RoundHeard(c)

\* Changes of the others stay, and what is new comes from them.
Spares(c) == \A a \in Accounts : \A n \in Nat : Others(c, a, n) => Others(c, a, n)'

LEMMA SameSpares ==
    ASSUME remote' = remote, NEW c
    PROVE  Spares(c)
BY DEF Spares, Others

LEMMA Types ==
    ASSUME SyncInv, NEW c \in Computers
    PROVE  /\ row[c] \in Rows /\ row[c].edit \in Nat /\ row[c].sync.revision \in Nat
           /\ row[c].sync.account \in Who
           /\ round[c] \in Rounds /\ round[c].row \in Rows /\ round[c].revision \in Nat
           /\ round[c].row.edit \in Nat /\ round[c].row.sync.revision \in Nat
           /\ pc[c] # "idle" => round[c].account \in Accounts
           /\ round[c].uploaded => pc[c] = "applying"
           /\ edits \in Nat
           /\ \A a \in Accounts : remote[a] \in Seq(Changes) /\ Len(remote[a]) \in Nat
<1>1. row[c] \in Rows /\ round[c] \in Rounds /\ edits \in Nat
      /\ (pc[c] # "idle" => round[c].account \in Accounts)
      /\ \A a \in Accounts : remote[a] \in Seq(Changes)
      /\ (round[c].uploaded => pc[c] = "applying")
    BY DEF SyncInv, SyncType, RoundFounded
<1>2. round[c].row \in Rows /\ round[c].revision \in Nat
    BY <1>1 DEF Rounds
<1>3. \A r \in Rows : r.edit \in Nat /\ r.sync.revision \in Nat /\ r.sync.account \in Who
    BY DEF Rows
<1>4. \A a \in Accounts : Len(remote[a]) \in Nat
    BY <1>1
<1>5. row[c].edit \in Nat /\ row[c].sync.revision \in Nat /\ row[c].sync.account \in Who
    BY <1>1, <1>3
<1>6. round[c].row.edit \in Nat /\ round[c].row.sync.revision \in Nat
    BY <1>2, <1>3
<1>7. \A a \in Accounts : remote[a] \in Seq(Changes) /\ Len(remote[a]) \in Nat
    BY <1>1, <1>4
<1>8. round[c].uploaded => pc[c] = "applying"
    BY DEF SyncInv, RoundFounded
<1> HIDE DEF Rows, Rounds, Changes
<1> QED BY <1>1, <1>2, <1>5, <1>6, <1>7, <1>8

\* A computer that a step leaves alone.
LEMMA HeardStays ==
    ASSUME SyncInv, SyncInv', HeardInv, NEW c \in Computers, Spares(c), Grows,
           row'[c] = row[c], pc'[c] = pc[c], round'[c] = round[c],
           c \in unheard' <=> c \in unheard,
           edits <= edits', saving'[c].on => row[c].edit < edits'
    PROVE  RowHeard(c)' /\ RoundHeard(c)'
<1>1. RowHeard(c) /\ RoundHeard(c)
    BY DEF HeardInv
<1>2. edits' \in Nat /\ \A a \in Accounts : Len(remote'[a]) \in Nat
    BY DEF SyncInv, SyncType
<1>3. row[c].edit <= edits'
    BY <1>1, <1>2, Types DEF RowHeard
<1>4. Excused(c)' <=> Excused(c)
    BY DEF Excused
<1>5. row[c].sync.account \in Accounts /\ ~Excused(c) =>
        Others(c, row[c].sync.account, row[c].sync.revision)'
    BY <1>1, Types DEF RowHeard, Spares
<1>6. RowHeard(c)'
    BY <1>1, <1>3, <1>4, <1>5 DEF RowHeard, Others
<1>7. RowKnown(c)' <=> RowKnown(c)
    BY DEF RowKnown, Edited
<1>8. (Refused(c)' <=> Refused(c)) /\ Sent(c)' = Sent(c) /\ (Uploads(c)' <=> Uploads(c))
    BY DEF Refused, Uploads, Sent
<1>9. Refused(c) => Sent(c) < Len(remote'[round[c].account])
    <2>1. Refused(c) => round[c].account \in Accounts
        BY Types DEF Refused
    <2> QED BY <1>1, <1>2, <2>1, Types DEF RoundHeard, Grows, Sent
<1>10. pc[c] = "applying" => Others(c, round[c].account, round[c].revision)'
    BY <1>1, Types DEF RoundHeard, Spares
<1>11. RoundHeard(c)'
    BY <1>1, <1>7, <1>8, <1>9, <1>10 DEF RoundHeard, Others
<1> QED BY <1>6, <1>11

\* A user who signs in or begins an edit.
LEMMA UserHeard ==
    ASSUME SyncInv, SyncInv', HeardInv, NEW c \in Computers,
           \/ \E a \in Accounts \cup {NoAccount} : SignIn(c, a)
           \/ \E v \in Values : BeginSave(c, v)
    PROVE  HeardInv'
<1>1. UNCHANGED <<remote, row, pc, round, unheard>>
    BY DEF SignIn, BeginSave
<1>2. Grows
    BY <1>1, SameRemote
<1>3. ASSUME NEW d \in Computers PROVE edits <= edits' /\ (saving'[d].on => row[d].edit < edits')
    <2>1. row[d].edit \in Nat /\ edits \in Nat
        BY Types
    <2>2. row[d].edit <= edits /\ (saving[d].on => row[d].edit < edits)
        BY DEF HeardInv, RowHeard
    <2>3. \/ saving' = saving /\ edits' = edits
          \/ edits' = edits + 1
        BY DEF SignIn, BeginSave
    <2> QED BY <2>1, <2>2, <2>3
<1> QED BY <1>1, <1>2, <1>3, SameSpares, HeardStays DEF HeardInv

\* An edit that is made while a round runs is a newer one.
LEMMA SaveHeard ==
    ASSUME SyncInv, SyncInv', HeardInv, NEW c \in Computers, Save(c)
    PROVE  HeardInv'
<1> DEFINE a == saving[c].account
           knows == row[c].sync.account = a
           seen == IF knows THEN row[c].sync.revision ELSE 0
           sync == IF a = NoAccount THEN Unset ELSE [account |-> a, revision |-> seen, dirty |-> TRUE]
           new == [sandbox |-> saving[c].sandbox, set |-> TRUE, edit |-> edits,
                   as |-> a, seen |-> seen, new |-> knows => row[c].new, sync |-> sync]
<1>1. /\ row' = [row EXCEPT ![c] = new] /\ saving[c].on /\ saving' = [saving EXCEPT ![c] = NoEdit]
      /\ UNCHANGED <<remote, account, pc, round, edits, unheard>>
    BY DEF Save
<1>2. Grows /\ \A d \in Computers : Spares(d)
    BY <1>1, SameRemote, SameSpares
<1>3. /\ row'[c] = new /\ ~saving'[c].on
      /\ \A d \in Computers \ {c} : row'[d] = row[d] /\ saving'[d] = saving[d]
    BY <1>1 DEF SyncInv, SyncType, NoEdit
<1>4. ASSUME NEW d \in Computers \ {c} PROVE RowHeard(d)' /\ RoundHeard(d)'
    <2>1. edits \in Nat /\ (saving[d].on => row[d].edit < edits)
        BY Types DEF HeardInv, RowHeard
    <2> QED BY <1>1, <1>2, <1>3, <2>1, HeardStays
<1>5. /\ row'[c].edit = edits /\ row'[c].set /\ row'[c].sync = sync
      /\ row'[c].new = (knows => row[c].new)
    BY <1>3
<1>6. row[c].edit < edits /\ RowHeard(c) /\ RoundHeard(c)
    BY <1>1 DEF HeardInv, RowHeard
<1>7. sync.account = a /\ (~row'[c].new => knows /\ ~row[c].new)
      /\ (knows /\ a \in Accounts => sync.revision = row[c].sync.revision)
    <2>1. a \in Accounts => a # NoAccount
        BY SyncAssumption DEF SyncAssumption
    <2> QED BY <1>5, <2>1 DEF Unset
<1> HIDE DEF a, sync, new
<1>8. RowHeard(c)'
    <2>1. edits \in Nat /\ edits <= edits
        BY Types
    <2>2. row'[c].sync.account \in Accounts /\ ~Excused(c)' =>
            Others(c, row'[c].sync.account, row'[c].sync.revision)
        BY <1>1, <1>5, <1>6, <1>7 DEF Excused, RowHeard
    <2> QED BY <1>1, <1>3, <1>5, <2>1, <2>2 DEF RowHeard, Others
<1>9. pc[c] \notin {"idle", "reading"} => RowKnown(c)'
    <2> SUFFICES ASSUME pc[c] \notin {"idle", "reading"} PROVE RowKnown(c)'
        OBVIOUS
    <2>1. RowKnown(c)
        BY <1>6 DEF RoundHeard
    <2>2. round[c].row.edit < edits /\ round[c].row.edit <= edits
        BY <1>6, <2>1, Types DEF RowKnown
    <2>3. Edited(c)' /\ edits # round[c].row.edit
        BY <1>1, <1>5, <2>2, Types DEF Edited
    <2>4. row'[c].sync.account = round[c].row.sync.account
            /\ row'[c].sync.account \in Accounts /\ ~row'[c].new =>
              row'[c].sync.revision = round[c].row.sync.revision
        <3> SUFFICES ASSUME row'[c].sync.account = round[c].row.sync.account,
                            row'[c].sync.account \in Accounts, ~row'[c].new
                     PROVE  row'[c].sync.revision = round[c].row.sync.revision
            OBVIOUS
        <3>1. /\ knows /\ ~row[c].new /\ row'[c].sync.revision = row[c].sync.revision
              /\ row[c].sync.account = round[c].row.sync.account /\ row[c].sync.account \in Accounts
            BY <1>5, <1>7
        <3>2. CASE Edited(c)
            BY <2>1, <3>1, <3>2 DEF RowKnown
        <3>3. CASE ~Edited(c)
            BY <2>1, <3>1, <3>3 DEF RowKnown
        <3> QED BY <3>2, <3>3
    <2> QED BY <1>1, <1>5, <2>2, <2>3, <2>4 DEF RowKnown
<1>10. RoundHeard(c)'
    <2>1. /\ (Refused(c)' <=> Refused(c)) /\ Sent(c)' = Sent(c) /\ (Uploads(c)' <=> Uploads(c))
        BY <1>1 DEF Refused, Uploads, Sent
    <2> QED BY <1>1, <1>6, <1>9, <2>1 DEF RoundHeard, Others
<1> QED BY <1>4, <1>8, <1>10 DEF HeardInv

LEMMA AskingHeard ==
    ASSUME SyncInv, SyncInv', HeardInv, NEW c \in Computers,
           RoundBegins(c) \/ RoundReads(c) \/ Get(c) \/ RoundFails(c)
    PROVE  HeardInv'
<1>0. /\ RowHeard(c) /\ RoundHeard(c) /\ round[c] \in Rounds /\ round[c].row \in Rows
      /\ row[c].edit \in Nat
    BY Types DEF HeardInv
<1>1. UNCHANGED <<remote, row, saving, edits>> /\ \A d \in Computers \ {c} : d \in unheard' <=> d \in unheard
    BY DEF RoundBegins, RoundReads, Get, RoundFails
<1>2. /\ Grows /\ \A d \in Computers : Spares(d)
      /\ \A d \in Computers \ {c} : pc'[d] = pc[d] /\ round'[d] = round[d]
    BY <1>1, SameRemote, SameSpares
    DEF RoundBegins, RoundReads, Get, RoundFails, Answered, Goto, SyncInv, SyncType
<1>3. ASSUME NEW d \in Computers \ {c} PROVE RowHeard(d)' /\ RoundHeard(d)'
    <2>1. edits \in Nat /\ edits <= edits /\ (saving[d].on => row[d].edit < edits)
        BY Types DEF HeardInv, RowHeard
    <2> QED BY <1>1, <1>2, <2>1, HeardStays
<1>4. Excused(c)' \/ (~Excused(c)' /\ ~Excused(c)) => RowHeard(c)'
    BY <1>0, <1>1 DEF RowHeard, Others
<1>5. CASE RoundBegins(c)
    <2>1. /\ pc[c] = "idle" /\ pc'[c] = "reading" /\ round'[c].uploaded = round[c].uploaded
          /\ unheard' = unheard
        BY <1>5 DEF RoundBegins, Goto, SyncInv, SyncType
    <2>2. ~round[c].uploaded
        BY <2>1, Types
    <2>3. ~Excused(c)' => ~Excused(c)
        BY <1>1, <2>1, <2>2 DEF Excused
    <2>4. RoundHeard(c)'
        BY <2>1, <2>2 DEF RoundHeard, Refused
    <2> QED BY <1>3, <1>4, <2>3, <2>4 DEF HeardInv
<1>6. CASE RoundReads(c)
    <2>1. /\ pc[c] = "reading" /\ pc'[c] = "asking" /\ round'[c].uploaded = round[c].uploaded
          /\ round'[c].row = row[c] /\ unheard' = unheard
        BY <1>0, <1>6 DEF RoundReads, Goto, SyncInv, SyncType, Rounds
    <2>2. ~round[c].uploaded
        BY <2>1, Types
    <2>3. ~Excused(c)' => ~Excused(c)
        BY <1>1, <2>1, <2>2 DEF Excused
    <2>4. RowKnown(c)'
        BY <1>0, <1>1, <2>1 DEF RowKnown, Edited
    <2>5. RoundHeard(c)'
        BY <2>1, <2>2, <2>4 DEF RoundHeard, Refused
    <2> QED BY <1>3, <1>4, <2>3, <2>5 DEF HeardInv
<1>7. CASE Get(c)
    <2> DEFINE a == round[c].account
    <2>1. /\ pc[c] \in {"asking", "again"} /\ unheard' = unheard /\ a \in Accounts
          /\ pc'[c] = IF pc[c] = "asking" /\ Uploads(c) THEN "uploading" ELSE "applying"
          /\ round'[c].uploaded = round[c].uploaded /\ round'[c].row = round[c].row
          /\ round'[c].account = a /\ round'[c].revision = Len(remote[a])
        BY <1>0, <1>7, Types DEF Get, Answered, Goto, Revision, SyncInv, SyncType, Rounds
    <2>2. ~round[c].uploaded
        BY <2>1, Types
    <2>3. ~Excused(c)' => ~Excused(c)
        BY <1>1, <2>1, <2>2 DEF Excused
    <2>4. RowKnown(c)'
        BY <1>0, <1>1, <2>1 DEF RoundHeard, RowKnown, Edited
    <2>5. Refused(c)' => Refused(c)
        BY <2>1 DEF Refused, Uploads
    <2>6. Refused(c)' => Sent(c)' < Len(remote'[round'[c].account])
        BY <1>0, <1>1, <2>1, <2>5 DEF RoundHeard, Sent
    <2>7. Others(c, round[c].account, round[c].revision)'
        <3>1. Len(remote[a]) \in Nat
            BY <2>1, Types
        <3> QED BY <1>1, <2>1, <3>1 DEF Others
    <2>8. RoundHeard(c)'
        BY <2>1, <2>2, <2>4, <2>6, <2>7 DEF RoundHeard, Others
    <2> QED BY <1>3, <1>4, <2>3, <2>8 DEF HeardInv
<1>8. CASE RoundFails(c)
    <2>1. /\ pc'[c] = "idle" /\ round'[c] = NoRound
          /\ unheard' = IF round[c].uploaded THEN unheard \cup {c} ELSE unheard
        BY <1>8 DEF RoundFails, Goto, SyncInv, SyncType
    <2>2. ~NoRound.uploaded
        BY DEF NoRound
    <2>3. Excused(c)' \/ (~Excused(c)' /\ ~Excused(c))
        BY <1>1, <2>1, <2>2 DEF Excused
    <2>4. RoundHeard(c)'
        BY <2>1, <2>2 DEF RoundHeard, Refused
    <2> QED BY <1>3, <1>4, <2>3, <2>4 DEF HeardInv
<1> QED BY <1>5, <1>6, <1>7, <1>8

\* An upload is news from this computer to the others.
LEMMA PutSpares ==
    ASSUME SyncInv, SyncInv', NEW c \in Computers, Put(c), NEW d \in Computers \ {c}
    PROVE  Spares(d)
<1>1. CASE pc'[c] = "again"
    <2>1. remote' = remote
        BY <1>1 DEF Put, Goto, SyncInv, SyncType
    <2> QED BY <2>1, SameSpares
<1>2. CASE pc'[c] # "again"
    <2> DEFINE a == round[c].account
               new == remote'[a]
               last == Len(new)
    <2>1. Uploaded(c, a, new, last)
        BY <1>2, PutUploads
    <2>2. a \in Accounts /\ Len(remote[a]) \in Nat
        BY Types DEF Put
    <2> HIDE DEF a, last
    <2>3. /\ last = Len(new) /\ last \in {Len(remote[a]), Len(remote[a]) + 1}
          /\ \A k \in 1 .. Len(remote[a]) : remote[a][k].by \subseteq new[k].by
          /\ last # Len(remote[a]) => new[last].by = {c}
          /\ \A b \in Accounts \ {a} : remote'[b] = remote[b]
        <3>1. remote' = [remote EXCEPT ![a] = new]
            BY <2>1 DEF Uploaded
        <3>2. \A b \in Accounts \ {a} : remote'[b] = remote[b]
            <4> HIDE DEF new
            <4> QED BY <3>1 DEF SyncInv, SyncType
        <3> HIDE DEF new
        <3> QED BY <2>1, <3>2 DEF Uploaded
    <2>4. ASSUME NEW n \in Nat, Others(d, a, n), n < last
          PROVE  \E k \in n + 1 .. last : \E e \in new[k].by : e # d
        <3> HIDE DEF new
        <3>1. CASE last = Len(remote[a])
            <4>1. PICK k \in n + 1 .. Len(remote[a]) : \E e \in remote[a][k].by : e # d
                BY <2>2, <2>4, <3>1 DEF Others
            <4>2. k \in 1 .. Len(remote[a]) /\ k \in n + 1 .. last
                BY <2>2, <3>1, <4>1
            <4> QED BY <2>3, <4>1, <4>2
        <3>2. CASE last # Len(remote[a])
            <4>1. last \in n + 1 .. last /\ c \in new[last].by /\ c # d
                BY <2>2, <2>3, <2>4, <3>2
            <4> QED BY <4>1
        <3> QED BY <3>1, <3>2
    <2> SUFFICES ASSUME NEW b \in Accounts, NEW n \in Nat, Others(d, b, n)
                 PROVE  Others(d, b, n)'
        BY DEF Spares
    <2>5. CASE b = a
        BY <2>3, <2>4, <2>5 DEF Others
    <2>6. CASE b # a
        BY <2>3, <2>6 DEF Others
    <2> QED BY <2>5, <2>6
<1> QED BY <1>1, <1>2

LEMMA PutGrows ==
    ASSUME SyncInv, SyncInv', NEW c \in Computers, Put(c)
    PROVE  Grows
<1>1. CASE pc'[c] = "again"
    <2>1. remote' = remote
        BY <1>1 DEF Put, Goto, SyncInv, SyncType
    <2> QED BY <2>1, SameRemote
<1>2. CASE pc'[c] # "again"
    <2> DEFINE a == round[c].account
               new == remote'[a]
    <2>1. Uploaded(c, a, new, Len(new))
        BY <1>2, PutUploads
    <2>2. a \in Accounts /\ \A b \in Accounts : Len(remote[b]) \in Nat
        BY Types DEF Put
    <2> HIDE DEF a
    <2>3. /\ Len(new) \in {Len(remote[a]), Len(remote[a]) + 1}
          /\ \A k \in 1 .. Len(remote[a]) :
               /\ remote[a][k].by \subseteq new[k].by
               /\ new[k].as = remote[a][k].as /\ new[k].seen = remote[a][k].seen
          /\ \A b \in Accounts \ {a} : remote'[b] = remote[b]
        <3>1. remote' = [remote EXCEPT ![a] = new]
            BY <2>1 DEF Uploaded
        <3>2. \A b \in Accounts \ {a} : remote'[b] = remote[b]
            <4> HIDE DEF new
            <4> QED BY <3>1 DEF SyncInv, SyncType
        <3> HIDE DEF new
        <3> QED BY <2>1, <3>2 DEF Uploaded
    <2>4. Len(remote[a]) <= Len(new)
        <3> HIDE DEF new
        <3> QED BY <2>2, <2>3
    <2> QED BY <2>2, <2>3, <2>4 DEF Grows
<1> QED BY <1>1, <1>2

LEMMA PutHeard ==
    ASSUME SyncInv, SyncInv', HeardInv, NEW c \in Computers, Put(c)
    PROVE  HeardInv'
<1> DEFINE a == round[c].account
<1>0. /\ RowHeard(c) /\ RoundHeard(c) /\ pc[c] = "uploading" /\ a \in Accounts /\ ~round[c].uploaded
      /\ Uploads(c) /\ Founded(c, round[c].row)
      /\ UNCHANGED <<row, saving, edits, unheard>>
    BY Types DEF Put, HeardInv, SyncInv, RoundFounded
<1>1. \A d \in Computers \ {c} : pc'[d] = pc[d] /\ round'[d] = round[d]
    BY DEF Put, Goto, SyncInv, SyncType
<1>2. ASSUME NEW d \in Computers \ {c} PROVE RowHeard(d)' /\ RoundHeard(d)'
    <2>1. edits \in Nat /\ edits <= edits /\ (saving[d].on => row[d].edit < edits)
        BY Types DEF HeardInv, RowHeard
    <2>2. Grows /\ Spares(d)
        BY PutGrows, PutSpares
    <2> QED BY <1>0, <1>1, <2>1, <2>2, HeardStays
<1>3. CASE pc'[c] = "again"
    <2>1. UNCHANGED <<remote, round>> /\ Sent(c) # Len(remote[a])
        BY <1>3 DEF Put, Goto, Revision, SyncInv, SyncType
    <2>2. Sent(c) < Len(remote[a])
        <3>1. Sent(c) <= Len(remote[a])
            BY <1>0 DEF Founded, Uploads, Sent
        <3>2. Sent(c) \in Nat /\ Len(remote[a]) \in Nat
            BY <1>0, Types DEF Sent
        <3> QED BY <2>1, <3>1, <3>2
    <2>3. RowHeard(c)'
        BY <1>0, <2>1 DEF RowHeard, Excused, Others
    <2>4. RoundHeard(c)'
        BY <1>0, <1>3, <2>1, <2>2 DEF RoundHeard, RowKnown, Edited, Sent
    <2> QED BY <1>2, <2>3, <2>4 DEF HeardInv
<1>4. CASE pc'[c] # "again"
    <2>1. /\ pc'[c] = "applying" /\ round'[c].uploaded /\ round'[c].account = a
          /\ round'[c].row = round[c].row /\ round'[c].sandbox = round[c].row.sandbox
          /\ round'[c].revision = Len(remote'[a])
        <3> DEFINE last == Len(remote'[a])
        <3>1. /\ round'[c] = [round[c] EXCEPT !.revision = last,
                                              !.sandbox = round[c].row.sandbox, !.uploaded = TRUE]
              /\ pc' = [pc EXCEPT ![c] = "applying"]
            BY <1>4, PutUploads
        <3>2. pc'[c] = "applying" /\ round[c] \in Rounds
            BY <3>1, Types DEF SyncInv, SyncType
        <3> HIDE DEF last
        <3> QED BY <3>1, <3>2 DEF Rounds, last
    <2>2. \A b \in Accounts \ {a} : remote'[b] = remote[b]
        <3> DEFINE new == remote'[a]
        <3>1. remote' = [remote EXCEPT ![a] = new]
            BY <1>4, PutUploads DEF Uploaded
        <3> HIDE DEF new
        <3> QED BY <3>1 DEF SyncInv, SyncType
    <2>3. RowHeard(c)'
        <3>1. ASSUME row[c].sync.account \in Accounts, ~Excused(c)'
              PROVE  Others(c, row[c].sync.account, row[c].sync.revision)'
            <4>1. row[c].sync.account # a /\ ~Excused(c)
                BY <1>0, <2>1, <3>1 DEF Excused
            <4>2. remote'[row[c].sync.account] = remote[row[c].sync.account]
                BY <2>2, <3>1, <4>1
            <4> QED BY <1>0, <3>1, <4>1, <4>2 DEF RowHeard, Others
        <3> QED BY <1>0, <3>1 DEF RowHeard, Others
    <2>4. RowKnown(c)' /\ Uploads(c)'
        BY <1>0, <2>1 DEF RoundHeard, RowKnown, Edited, Uploads
    <2>5. Others(c, round[c].account, round[c].revision)'
        <3>1. Len(remote'[a]) \in Nat
            BY <1>0 DEF SyncInv, SyncType
        <3> QED BY <2>1, <3>1 DEF Others
    <2>6. RoundHeard(c)'
        BY <2>1, <2>4, <2>5 DEF RoundHeard, Refused
    <2> QED BY <1>2, <2>3, <2>6 DEF HeardInv
<1> QED BY <1>3, <1>4

LEMMA ApplyHeard ==
    ASSUME SyncInv, SyncInv', HeardInv, NEW c \in Computers, Apply(c)
    PROVE  HeardInv'
<1> DEFINE r == round[c]
           sync == [account |-> r.account, revision |-> r.revision, dirty |-> Edited(c)]
           kept == [row[c] EXCEPT !.sync = sync, !.new = FALSE]
           taken == [row[c] EXCEPT !.sync = sync, !.sandbox = r.sandbox, !.set = TRUE, !.new = FALSE]
<1>0. /\ RowHeard(c) /\ RoundHeard(c) /\ pc[c] = "applying" /\ r.account \in Accounts
      /\ RowKnown(c) /\ row[c] \in Rows /\ UNCHANGED <<remote, saving, edits>>
    BY Types DEF Apply, HeardInv, RoundHeard
<1>1. /\ pc'[c] = "idle" /\ round'[c] = NoRound
      /\ \A d \in Computers \ {c} : /\ pc'[d] = pc[d] /\ round'[d] = round[d] /\ row'[d] = row[d]
                                    /\ d \in unheard' <=> d \in unheard
    BY DEF Apply, Goto, SyncInv, SyncType
<1>2. ASSUME NEW d \in Computers \ {c} PROVE RowHeard(d)' /\ RoundHeard(d)'
    <2>1. edits \in Nat /\ edits <= edits /\ (saving[d].on => row[d].edit < edits)
        BY Types DEF HeardInv, RowHeard
    <2>2. Grows /\ Spares(d)
        BY <1>0, SameRemote, SameSpares
    <2> QED BY <1>0, <1>1, <2>1, <2>2, HeardStays
<1>3. RoundHeard(c)'
    <2>1. ~NoRound.uploaded
        BY DEF NoRound
    <2> QED BY <1>1, <2>1 DEF RoundHeard, Refused
<1>4. CASE Ignored(c)
    <2>1. /\ row' = row
          /\ unheard' = IF r.uploaded /\ account[c] # r.account THEN unheard \cup {c} ELSE unheard
        BY <1>4 DEF Apply
    <2>2. ~Excused(c)' /\ row[c].sync.account \in Accounts => ~Excused(c)
        <3> SUFFICES ASSUME ~Excused(c)', row[c].sync.account \in Accounts, Excused(c) PROVE FALSE
            OBVIOUS
        <3>1. ~row[c].new /\ r.uploaded /\ r.account = row[c].sync.account /\ account[c] = r.account
            BY <2>1 DEF Excused
        <3>2. Uploads(c)
            BY <1>0, <3>1 DEF RoundHeard
        <3>3. r.row.sync.account = r.account /\ Edited(c) /\ ~Acknowledged(c)
            BY <1>4, <3>1, <3>2 DEF Uploads, Ignored
        <3>4. row[c].sync.revision # r.row.sync.revision
            BY <3>1, <3>3 DEF Acknowledged
        <3> QED BY <1>0, <3>1, <3>3, <3>4 DEF RowKnown
    <2>3. RowHeard(c)'
        BY <1>0, <2>1, <2>2 DEF RowHeard, Others
    <2> QED BY <1>2, <1>3, <2>3 DEF HeardInv
<1>5. CASE ~Ignored(c)
    <2>1. \/ Edited(c) /\ row' = [row EXCEPT ![c] = kept]
          \/ ~Edited(c) /\ row' = [row EXCEPT ![c] = taken]
        BY <1>5 DEF Apply
    <2> HIDE DEF kept, taken
    <2>2. row'[c] = IF Edited(c) THEN kept ELSE taken
        BY <2>1 DEF SyncInv, SyncType
    <2> HIDE DEF sync
    <2>3. /\ row'[c].edit = row[c].edit /\ row'[c].sync = sync
          /\ row'[c].set = IF Edited(c) THEN row[c].set ELSE TRUE
        BY <1>0, <2>2 DEF kept, taken, Rows
    <2>4. row'[c].set
        BY <1>0, <2>3 DEF RowKnown
    <2>5. sync.account = r.account /\ sync.revision = r.revision
        BY DEF sync
    <2>6. Others(c, r.account, r.revision)
        BY <1>0 DEF RoundHeard
    <2>7. Others(c, row[c].sync.account, row[c].sync.revision)'
        BY <1>0, <2>3, <2>5, <2>6 DEF Others
    <2>8. RowHeard(c)'
        BY <1>0, <2>3, <2>4, <2>7 DEF RowHeard
    <2> QED BY <1>2, <1>3, <2>8 DEF HeardInv
<1> QED BY <1>4, <1>5

LEMMA NextHeard ==
    ASSUME SyncInv, SyncInv', HeardInv, [Next]_vars
    PROVE  HeardInv'
<1>1. CASE UNCHANGED vars
    BY <1>1 DEF vars, HeardInv, RowHeard, RoundHeard, RowKnown, Refused, Excused, Others, Edited, Uploads, Sent
<1> QED BY <1>1, UserHeard, SaveHeard, AskingHeard, PutHeard, ApplyHeard DEF Next, Works

LEMMA InitHeard == Init => HeardInv
<1> SUFFICES ASSUME Init, NEW c \in Computers PROVE RowHeard(c) /\ RoundHeard(c)
    BY DEF HeardInv
<1>1. /\ row[c] = NoRow /\ saving[c] = NoEdit /\ pc[c] = "idle" /\ round[c] = NoRound /\ edits = 0
    BY DEF Init
<1>2. /\ NoRow.edit = 0 /\ ~NoEdit.on /\ ~NoRow.sync.dirty /\ NoRow.sync.account \notin Accounts
      /\ ~NoRound.uploaded
    BY SyncAssumption DEF SyncAssumption, NoRow, NoEdit, NoRound, Unset
<1> QED BY <1>1, <1>2 DEF RowHeard, RoundHeard, Refused

\* A step that takes a queued edit's settings away.
LEMMA GivesWayStep ==
    ASSUME SyncInv, HeardInv, [Next]_vars, NEW c \in Computers,
           row[c].sync.dirty, row'[c].edit = row[c].edit, row'[c].sandbox # row[c].sandbox
    PROVE  \/ c \in unheard \/ row[c].new \/ row[c].sync.account # account[c]
           \/ \E k \in row[c].sync.revision + 1 .. Len(remote[account[c]]) :
                remote[account[c]][k].by # {c}
<1>1. row' # row
    OBVIOUS
<1>2. (\E d \in Computers : Save(d)) \/ (\E d \in Computers : Apply(d))
    BY <1>1 DEF Next, Works, SignIn, BeginSave, RoundBegins, RoundReads, Get, Put, RoundFails, vars
<1>3. ASSUME NEW d \in Computers, Save(d) PROVE FALSE
    <2>1. d = c
        BY <1>3 DEF Save, SyncInv, SyncType
    <2>2. row'[c].edit = edits /\ saving[c].on
        BY <1>3, <2>1 DEF Save, SyncInv, SyncType
    <2>3. row[c].edit < edits /\ row[c].edit \in Nat /\ edits \in Nat
        BY <2>2, Types DEF HeardInv, RowHeard
    <2> QED BY <2>2, <2>3
<1>4. PICK d \in Computers : Apply(d)
    BY <1>2, <1>3
<1>5. d = c
    BY <1>4 DEF Apply, SyncInv, SyncType
<1>6. ~Ignored(c) /\ pc[c] = "applying"
    BY <1>1, <1>4, <1>5 DEF Apply
<1>7. ~Edited(c) /\ row'[c].sandbox = round[c].sandbox
    <2>1. row[c] \in Rows
        BY Types
    <2> DEFINE sync == [account |-> round[c].account, revision |-> round[c].revision, dirty |-> Edited(c)]
    <2>2. row' = IF Edited(c) THEN [row EXCEPT ![c].sync = sync, ![c].new = FALSE]
                 ELSE [row EXCEPT ![c].sync = sync, ![c].sandbox = round[c].sandbox,
                                  ![c].set = TRUE, ![c].new = FALSE]
        BY <1>4, <1>5, <1>6 DEF Apply
    <2> HIDE DEF sync
    <2>3. row'[c].sandbox = IF Edited(c) THEN row[c].sandbox ELSE round[c].sandbox
        BY <2>1, <2>2 DEF SyncInv, SyncType, Rows
    <2> QED BY <2>3
<1>8. RowHeard(c) /\ RoundHeard(c) /\ RowKnown(c) /\ row[c] = round[c].row
    BY <1>6, <1>7 DEF HeardInv, RoundHeard, RowKnown
<1> SUFFICES ASSUME c \notin unheard, ~row[c].new, row[c].sync.account = account[c]
             PROVE  \E k \in row[c].sync.revision + 1 .. Len(remote[account[c]]) :
                      remote[account[c]][k].by # {c}
    OBVIOUS
<1>9. account[c] = round[c].account /\ account[c] \in Accounts
    BY <1>6, Types DEF Ignored
<1>10. Uploads(c)
    BY <1>8, <1>9 DEF Uploads, RowHeard
<1>11. ~round[c].uploaded
    BY <1>7, <1>8 DEF RoundHeard
<1>12. row[c].sync.revision < Len(remote[account[c]])
    BY <1>6, <1>8, <1>9, <1>10, <1>11 DEF RoundHeard, Refused, Sent
<1>13. Others(c, account[c], row[c].sync.revision)
    BY <1>8, <1>9, <1>11 DEF RowHeard, Excused
<1> QED BY <1>12, <1>13 DEF Others

\* An edit that is queued under the present account, by a computer that knew the
\* account and has lost no answer, gives way only to settings that another
\* computer has changed meanwhile: the platform refuses it, and the round takes
\* the platform's settings over.  (One queued under another account is dropped
\* when a round applies.)
THEOREM EditGivesWay == Spec => EditGivesWayToOthersOnly
<1> DEFINE Given == \A c \in Computers :
         LET r == row[c]
         IN  r.sync.dirty /\ row'[c].edit = r.edit /\ row'[c].sandbox # r.sandbox =>
               \/ c \in unheard \/ r.new \/ r.sync.account # account[c]
               \/ \E k \in r.sync.revision + 1 .. Len(remote[account[c]]) :
                    remote[account[c]][k].by # {c}
<1>1. Spec => []SyncInv
    BY InitInv, NextInv, PTL DEF Spec
<1>2. SyncInv /\ SyncInv' /\ HeardInv /\ [Next]_vars => HeardInv'
    BY NextHeard
<1>3. Spec => []HeardInv
    BY <1>1, <1>2, InitHeard, PTL DEF Spec
<1>4. SyncInv /\ HeardInv /\ [Next]_vars => [Given]_vars
    BY GivesWayStep
<1>5. Spec => [][Given]_vars
    <2> HIDE DEF Given
    <2> QED BY <1>1, <1>3, <1>4, PTL DEF Spec
<1> QED BY <1>5 DEF EditGivesWayToOthersOnly

=============================================================================
