--------------------- MODULE SessionMessageQueueDelivery ---------------------
(***************************************************************************)
(* What becomes of each message of a queue, proved for every value of the  *)
(* constants: none is lost, a later resume beats an earlier result, and    *)
(* the queue implements MessageDelivery for as long as it remembers the    *)
(* messages it is done with, which a chat of few messages always does.     *)
(* Every step is first reduced to its effect on the stages of the          *)
(* messages; the results follow from the effects.                          *)
(***************************************************************************)
EXTENDS SessionMessageQueueSafety, MCSessionMessageQueue

-----------------------------------------------------------------------------
(* The invariants.                                                         *)

\* What the dispatcher and the ticks take for confirmed, the engine has, and
\* it only has what it was asked for.
ConfirmedIsAccepted ==
    /\ \/ dispatch.phase = "returned"
       \/ dispatch.phase = "settling" /\ dispatch.outcome = "confirmed"
       => dispatch.id \in accepted
    /\ \A t \in Ticks : tick[t].at = "land" => tick[t].id \in accepted
    /\ \A i \in accepted : requests[i] # 0

\* What the code compares to know whether the user has resumed since the claim.
ResumeIsSeen ==
    /\ queue.resumeRevision <= queue.revision
    /\ dispatch.phase \in InHand /\ ~removed =>
          /\ dispatch.revision <= queue.revision
          /\ seen.resumed <=> queue.resumeRevision > dispatch.revision

KnownInv == ConfirmedIsAccepted /\ ResumeIsSeen

\* What is left of a chat that was deleted: nothing writes its queue again.
Cleared ==
    /\ gone /\ queue = NoQueue
    /\ removed \/ (dispatch.phase = "none" /\ \A t \in Ticks : tick[t].at = "idle")

\* Until then a message asked for is never one that waits or is new.
Life(q) ==
    [i \in Ids |->
       CASE q.entry[i].status \in {"queued", "failed"} -> "waiting"
         [] q.entry[i].status = "sending" -> "attempting"
         [] q.entry[i].status = "uncertain" -> "doubtful"
         [] OTHER -> IF i \in Range(q.completed) THEN "done" ELSE "none"]

HandedInv ==
    Cleared \/ /\ seen.forgotten = {}
               /\ \A i \in Ids : requests[i] # 0 =>
                     /\ Life(queue)[i] \in {"attempting", "doubtful", "done"}
                     /\ ~(NotYetAsked /\ dispatch.id = i)

\* The queue still remembers every message it was done with, until the chat is
\* deleted.
Remembers == [][Range(queue.completed) \subseteq Range(queue'.completed) \/ RemoveSession]_vars

-----------------------------------------------------------------------------
(* The effects of a step.                                                  *)

\* A failed message waits like a queued one.
Stage(q) ==
    [i \in Ids |-> IF q.entry[i].status = "failed" THEN "queued" ELSE q.entry[i].status]

Keeps(q) == Stage(q) = Stage(queue) /\ q.completed = queue.completed
Puts(q, i, to) == Stage(q) = [Stage(queue) EXCEPT ![i] = to] /\ q.completed = queue.completed
Retires(q, i) ==
    /\ Stage(q) = [Stage(queue) EXCEPT ![i] = "absent"]
    /\ q.completed = Remember(queue.completed, i)

Submits(i) ==
    /\ queue.entry[i].status = "absent" /\ i \notin Range(queue.completed) /\ ~gone
    /\ Puts(queue', i, "queued")
Withdraws(i) == RemoveEntry(i) /\ Retires(queue', i)
\* The engine has it, and whoever retires it knows so.  Only a tick retires one
\* that is gone already.
LandsOn(i) == \E t \in Ticks : TickLands(t) /\ tick[t].id = i
Completes(i) ==
    /\ i \in accepted /\ ~removed /\ Retires(queue', i)
    /\ Past(i) \/ (dispatch.phase \in {"returned", "settling"} /\ dispatch.id = i)
    /\ i \in seen.forgotten \/ queue.entry[i].status # "absent" \/ LandsOn(i)
Attempts(i) ==
    /\ ~queue.paused /\ queue.order # <<>> /\ queue.order[1] = i
    /\ queue.entry[i].status = "queued" /\ Puts(queue', i, "sending")
Settles(i) ==
    /\ dispatch.phase = "settling" /\ dispatch.id = i /\ ~removed
    /\ \/ dispatch.outcome = "prep" /\ Puts(queue', i, "queued")
       \/ Puts(queue', i, "uncertain")
Doubts(i) == queue.entry[i].status = "sending" /\ Puts(queue', i, "uncertain")
\* A message the queue does not remember to be done with is submitted again.
Reopens(i) == i \in seen.forgotten /\ Puts(queue', i, "queued")

Change ==
    \/ Keeps(queue')
    \/ \E i \in Ids : \/ Submits(i) \/ Withdraws(i) \/ Completes(i)
                      \/ Attempts(i) \/ Settles(i) \/ Doubts(i)
                      \/ Reopens(i)
    \/ RemoveSession

\* A message newly in hand and not asked for yet was just claimed.
Asks ==
    NotYetAsked' =>
        \/ NotYetAsked /\ dispatch'.id = dispatch.id /\ UNCHANGED requests
        \/ Attempts(dispatch'.id) /\ UNCHANGED requests

Issues ==
    /\ dispatch.phase = "calling" /\ ~gone /\ Keeps(queue')
    /\ requests' = [requests EXCEPT ![dispatch.id] = @ + 1]
Engine ==
    \/ UNCHANGED <<requests, gone>>
    \/ Issues /\ UNCHANGED gone
    \/ gone' /\ Keeps(queue') /\ UNCHANGED requests

Forgets ==
    \/ seen'.forgotten \subseteq
          seen.forgotten \cup (Range(queue.completed) \ Range(queue'.completed))
    \/ RemoveSession

Effect == Change /\ Asks /\ Engine /\ Forgets
Does == Effect /\ KnownInv'

\* The record a write publishes has the stages of the one it was given.
LEMMA Written ==
    ASSUME TypeOK, NEW q \in Queues, NEW owed \in SUBSET Debts, Write(q, owed)
    PROVE  /\ Stage(queue') = Stage(q) /\ queue'.completed = q.completed
           /\ queue'.paused = q.paused /\ queue'.revision = queue.revision + 1
           /\ queue'.resumeRevision = q.resumeRevision
           /\ seen'.forgotten =
                 seen.forgotten \cup (Range(queue.completed) \ Range(queue'.completed))
           /\ seen'.resumed <=> \/ q.resumeRevision # queue.resumeRevision
                                \/ seen.resumed /\ dispatch.phase # "claiming"
<1>1. queue' = [q EXCEPT !.revision = queue.revision + 1]  BY DEF Write
<1>2. /\ queue'.entry = q.entry /\ queue'.completed = q.completed
      /\ queue'.paused = q.paused /\ queue'.revision = queue.revision + 1
      /\ queue'.resumeRevision = q.resumeRevision
    BY <1>1 DEF Queues
<1>3. Stage(queue') = Stage(q)  BY <1>2 DEF Stage
<1> DEFINE f == seen.forgotten \cup (Range(queue.completed) \ Range(q.completed))
           b == \/ q.resumeRevision # queue.resumeRevision
                \/ seen.resumed /\ dispatch.phase # "claiming"
           d == IF q.resumeRevision # queue.resumeRevision THEN {} ELSE owed
<1>4. seen' = [forgotten |-> f, resumed |-> b, owed |-> d]  BY DEF Write
<1>5. seen'.forgotten = f /\ seen'.resumed = b
    <2> HIDE DEF f, b, d
    <2> QED BY <1>4
<1> QED BY <1>2, <1>3, <1>5

\* Resumes after the claim are told from earlier ones by their revision.
LEMMA WriteResumes ==
    ASSUME TypeOK, KnownInv, NEW q \in Queues, NEW owed \in SUBSET Debts, Write(q, owed),
           ~removed, q.resumeRevision \in {queue.resumeRevision, queue.revision + 1},
           dispatch'.phase \in InHand => /\ dispatch.phase \in InHand
                                         /\ dispatch'.revision = dispatch.revision
    PROVE  ResumeIsSeen'
<1>1. /\ queue'.revision = queue.revision + 1 /\ queue'.resumeRevision = q.resumeRevision
      /\ seen'.resumed <=> \/ q.resumeRevision # queue.resumeRevision
                           \/ seen.resumed /\ dispatch.phase # "claiming"
    BY Written
<1>2. /\ queue.revision \in Nat /\ queue.resumeRevision \in Nat /\ dispatch.revision \in Nat
      /\ queue.resumeRevision <= queue.revision
    BY DEF TypeOK, Queues, DispatchOK, Dispatches, KnownInv, ResumeIsSeen
<1>3. queue'.resumeRevision <= queue'.revision  BY <1>1, <1>2
<1>4. ASSUME dispatch'.phase \in InHand
      PROVE  /\ dispatch'.revision <= queue'.revision
             /\ seen'.resumed <=> queue'.resumeRevision > dispatch'.revision
    <2>1. /\ dispatch.phase \in InHand /\ dispatch'.revision = dispatch.revision
          /\ dispatch.phase # "claiming"
        BY <1>4 DEF InHand
    <2>2. /\ dispatch.revision <= queue.revision
          /\ seen.resumed <=> queue.resumeRevision > dispatch.revision
        BY <2>1 DEF KnownInv, ResumeIsSeen
    <2>3. CASE q.resumeRevision = queue.resumeRevision  BY <1>1, <1>2, <2>1, <2>2, <2>3
    <2>4. CASE q.resumeRevision = queue.revision + 1  BY <1>1, <1>2, <2>1, <2>2, <2>4
    <2> QED BY <2>3, <2>4
<1> QED BY <1>3, <1>4 DEF ResumeIsSeen

-----------------------------------------------------------------------------
(* Requests of the windows.                                                *)

\* A request does what its record says, and nothing to the engine.
LEMMA RequestDoes ==
    ASSUME TypeOK, KnownInv, NEW q \in Queues, NEW owed \in SUBSET Debts, Request(q, owed),
           q.resumeRevision \in {queue.resumeRevision, queue.revision + 1},
           \/ Keeps(q)
           \/ \E i \in Ids : \/ /\ queue.entry[i].status = "absent" /\ i \notin Range(queue.completed)
                                /\ Puts(q, i, "queued")
                             \/ RemoveEntry(i) /\ Retires(q, i)
                             \/ i \in seen.forgotten /\ Puts(q, i, "queued")
    PROVE  Does
<1>1. /\ Write(q, owed) /\ ~removed /\ ~gone
      /\ UNCHANGED <<removed, gone, requests, accepted, tick>>
      /\ dispatch' = dispatch \/ dispatch'.phase = "checking"
    <2>1. ~removed  BY DEF Request, TypeOK
    <2> QED BY <2>1 DEF Request, server, gate, engine, Start, NoDispatch
<1>2. /\ Stage(queue') = Stage(q) /\ queue'.completed = q.completed
      /\ seen'.forgotten = seen.forgotten \cup (Range(queue.completed) \ Range(queue'.completed))
    BY <1>1, Written
<1>3. Change
    BY <1>1, <1>2 DEF Change, Keeps, Submits, Withdraws, Reopens, Puts, Retires
<1>4. Asks  BY <1>1 DEF Asks, NotYetAsked
<1>5. Engine /\ Forgets  BY <1>1, <1>2 DEF Engine, Forgets
<1>6. ConfirmedIsAccepted'  BY <1>1 DEF KnownInv, ConfirmedIsAccepted
<1>7. ResumeIsSeen'  BY <1>1, WriteResumes DEF InHand
<1> QED BY <1>3, <1>4, <1>5, <1>6, <1>7 DEF Does, Effect, KnownInv

\* Dropping leases changes no stage.
LEMMA FreshKeeps ==
    ASSUME TypeOK
    PROVE  Keeps(Fresh) /\ Fresh.resumeRevision = queue.resumeRevision
<1>1. /\ queue \in Queues
      /\ Fresh = [queue EXCEPT !.entry = Fresh.entry]
      /\ \A i \in Ids : Fresh.entry[i].status = queue.entry[i].status
    BY DropDueType DEF TypeOK, Fresh
<1> DEFINE E == Fresh.entry
<1>2. Fresh.completed = queue.completed /\ Fresh.resumeRevision = queue.resumeRevision
    <2> HIDE DEF E
    <2>1. Fresh = [queue EXCEPT !.entry = E]  BY <1>1 DEF E
    <2> QED BY <1>1, <2>1 DEF Queues
<1>3. Stage(Fresh) = Stage(queue)  BY <1>1 DEF Stage
<1> QED BY <1>2, <1>3 DEF Keeps

\* A record is a queue with the stages of its entries.
LEMMA RetireStage ==
    ASSUME NEW q \in Queues, NEW i \in Ids
    PROVE  /\ Stage(Retire(q, i)) = [Stage(q) EXCEPT ![i] = "absent"]
           /\ Retire(q, i).completed = Remember(q.completed, i)
           /\ Retire(q, i).resumeRevision = q.resumeRevision
<1>1. /\ Retire(q, i).entry = [q.entry EXCEPT ![i] = Absent]
      /\ Retire(q, i).resumeRevision = q.resumeRevision
    BY RetireType
<1>2. Retire(q, i).completed = Remember(q.completed, i)  BY DEF Retire, Queues
<1>3. q.entry \in [Ids -> Entries]  BY DEF Queues
<1>4. Absent.status = "absent"  BY DEF Absent
<1>5. \A j \in Ids : Retire(q, i).entry[j] = IF j = i THEN Absent ELSE q.entry[j]
    BY <1>1, <1>3
<1>6. \A j \in Ids : Stage(Retire(q, i))[j] = [Stage(q) EXCEPT ![i] = "absent"][j]
    BY <1>4, <1>5 DEF Stage
<1>7. Stage(Retire(q, i)) = [Stage(q) EXCEPT ![i] = "absent"]
    BY <1>6 DEF Stage
<1> QED BY <1>1, <1>2, <1>7

\* One entry gets another status.
OneEntry(r, q, i, e) == r.entry = [q.entry EXCEPT ![i] = e]
OneStage(r, q, i, to) == Stage(r) = [Stage(q) EXCEPT ![i] = to]
LEMMA StageOne ==
    ASSUME NEW q \in Queues, NEW r, NEW i \in Ids, NEW e \in Entries,
           OneEntry(r, q, i, e),
           NEW to, to = IF e.status = "failed" THEN "queued" ELSE e.status
    PROVE  OneStage(r, q, i, to)
<1>1. q.entry \in [Ids -> Entries]  BY DEF Queues
<1>2. \A j \in Ids : r.entry[j] = IF j = i THEN e ELSE q.entry[j]  BY <1>1 DEF OneEntry
<1> DEFINE s == [Stage(q) EXCEPT ![i] = to]
<1>3. \A j \in Ids : Stage(r)[j] = s[j]  BY <1>2 DEF Stage
<1> QED BY <1>3 DEF Stage, OneStage

\* Every request of a window has its effect on the stages.
LEMMA ActDoes == TypeOK /\ Inv /\ KnownInv /\ Act => Does
<1> SUFFICES ASSUME TypeOK, Inv, KnownInv, Act PROVE Does
    OBVIOUS
<1>0. /\ Fresh \in Queues /\ seen.owed \in SUBSET Debts
      /\ Fresh.entry \in [Ids -> Entries] /\ Fresh.order \in Seq(Ids)
      /\ \A i \in Ids : /\ Fresh.entry[i].status = queue.entry[i].status
                        /\ Fresh.entry[i].token \in {NoToken, queue.entry[i].token}
                        /\ Fresh.entry[i] \in Entries
      /\ Fresh.completed = queue.completed
    BY FreshConsistent DEF Inv, TypeOK, Observations, Queues
<1>01. Keeps(Fresh) /\ Fresh.resumeRevision = queue.resumeRevision  BY FreshKeeps
<1>02. queue.revision + 1 \in Nat  BY DEF TypeOK, Queues
<1>03. \A i \in Ids : queue.entry[i] \in Entries  BY DEF TypeOK, Queues
<1>1. ASSUME NEW i \in Ids, NEW kind \in Kinds, EnqueueNew(i, kind) PROVE Does
    <2> DEFINE e == [Fresh.entry[i] EXCEPT !.status = "queued", !.kind = kind]
               added == [Fresh EXCEPT !.order = Append(@, i),
                                      !.entry[i] = [@ EXCEPT !.status = "queued", !.kind = kind]]
               resumes == queue.paused /\ queue.reason = "stop" /\ ~Has(queue, "uncertain")
    <2>1. /\ queue.entry[i].status = "absent" /\ i \notin Range(queue.completed)
          /\ Request(IF resumes THEN Unpause(added) ELSE added, seen.owed \ {"restart"})
        BY <1>1 DEF EnqueueNew
    <2>2. e \in Entries /\ e.status = "queued"
        <3>1. Fresh.entry[i] \in Entries  BY <1>0
        <3>2. e \in Entries  BY <3>1, EntryType
        <3> QED BY <3>1, <3>2 DEF Entries
    <2>3. /\ added \in Queues /\ added.entry = [Fresh.entry EXCEPT ![i] = e]
          /\ added.completed = Fresh.completed /\ added.resumeRevision = Fresh.resumeRevision
        <3>1. Append(Fresh.order, i) \in Seq(Ids)  BY <1>0, AppendProperties
        <3>2. [Fresh.entry EXCEPT ![i] = e] \in [Ids -> Entries]  BY <1>0, <2>2
        <3>3. added = [Fresh EXCEPT !.order = Append(Fresh.order, i),
                                    !.entry = [Fresh.entry EXCEPT ![i] = e]]
            BY <1>0 DEF Queues
        <3> HIDE DEF e, added
        <3> QED BY <1>0, <3>1, <3>2, <3>3 DEF Queues
    <2>4. \A r : r.entry = added.entry /\ r.completed = added.completed => Puts(r, i, "queued")
        <3> HIDE DEF added, e
        <3> SUFFICES ASSUME NEW r, r.entry = added.entry, r.completed = added.completed
                     PROVE  Puts(r, i, "queued")
            OBVIOUS
        <3>1. Stage(r) = [Stage(Fresh) EXCEPT ![i] = "queued"]
            <4>1. OneEntry(r, Fresh, i, e)  BY <2>3 DEF OneEntry
            <4>2. OneStage(r, Fresh, i, "queued")  BY <1>0, <2>2, <4>1, StageOne
            <4> QED BY <4>2 DEF OneStage
        <3> QED BY <1>01, <2>3, <3>1 DEF Puts, Keeps
    <2> HIDE DEF added
    <2>5. /\ Unpause(added) \in Queues /\ Unpause(added).entry = added.entry
          /\ Unpause(added).completed = added.completed
          /\ Unpause(added).resumeRevision = queue.revision + 1
        <3> DEFINE n == queue.revision + 1
        <3>1. Unpause(added) = [added EXCEPT !.paused = FALSE, !.reason = "none",
                                             !.restartPause = "none", !.resumeRevision = n]
            BY DEF Unpause
        <3>2. n \in Nat  BY <1>02
        <3> HIDE DEF n
        <3> QED BY <2>3, <3>1, <3>2 DEF Queues, n
    <2>6. seen.owed \ {"restart"} \in SUBSET Debts  BY <1>0
    <2>7. Puts(added, i, "queued") /\ Puts(Unpause(added), i, "queued")
        BY <2>4, <2>5
    <2> DEFINE q == IF resumes THEN Unpause(added) ELSE added
    <2>8. /\ q \in Queues /\ Puts(q, i, "queued")
          /\ q.resumeRevision \in {queue.resumeRevision, queue.revision + 1}
        BY <1>01, <2>3, <2>5, <2>7
    <2> HIDE DEF q, resumes
    <2>9. Request(q, seen.owed \ {"restart"})  BY <2>1 DEF q
    <2> QED BY <2>1, <2>6, <2>8, <2>9, RequestDoes
<1>2. ASSUME NEW i \in Ids, NEW k \in Tokens, RenewEdit(i, k) PROVE Does
    BY <1>0, <1>01, <1>2, RequestDoes DEF RenewEdit
<1>3. ASSUME NEW i \in Ids, EnqueueAgain(i) PROVE Does
    BY <1>0, <1>01, <1>3, RequestDoes DEF EnqueueAgain
<1>4. ASSUME NEW i \in Ids, RemoveEntry(i) PROVE Does
    <2> DEFINE q == Retire(Fresh, i)
    <2>1. q \in Queues /\ Retires(q, i) /\ q.resumeRevision = queue.resumeRevision
        <3>1. /\ Stage(q) = [Stage(Fresh) EXCEPT ![i] = "absent"]
              /\ q.completed = Remember(Fresh.completed, i)
              /\ q.resumeRevision = Fresh.resumeRevision
            BY <1>0, RetireStage
        <3>2. q \in Queues  BY <1>0, RetireType
        <3> HIDE DEF q
        <3> QED BY <1>01, <3>1, <3>2 DEF Retires, Keeps
    <2>2. Request(q, seen.owed)  BY <1>4 DEF RemoveEntry
    <2> HIDE DEF q
    <2> QED BY <1>0, <1>4, <2>1, <2>2, RequestDoes
<1>5. ASSUME NEW i \in Ids, NEW e \in Entries, Request([Fresh EXCEPT !.entry[i] = e], seen.owed),
             \/ e.status = queue.entry[i].status
             \/ e.status = "queued" /\ queue.entry[i].status = "failed"
             \/ e.status = "queued" /\ i \in seen.forgotten
      PROVE  Does
    <2> DEFINE q == [Fresh EXCEPT !.entry[i] = e]
    <2>1. /\ q \in Queues /\ q.entry = [Fresh.entry EXCEPT ![i] = e]
          /\ q.completed = Fresh.completed /\ q.resumeRevision = Fresh.resumeRevision
        <3>1. [Fresh.entry EXCEPT ![i] = e] \in [Ids -> Entries]  BY <1>0
        <3> QED BY <1>0, <3>1 DEF Queues
    <2>2. Request(q, seen.owed)  BY <1>5
    <2> HIDE DEF q
    <2> DEFINE to == IF e.status = "failed" THEN "queued" ELSE e.status
    <2>3. Stage(q) = [Stage(Fresh) EXCEPT ![i] = to]
        <3>1. to = IF e.status = "failed" THEN "queued" ELSE e.status  OBVIOUS
        <3> HIDE DEF to
        <3>2. OneEntry(q, Fresh, i, e)  BY <2>1 DEF OneEntry
        <3>3. OneStage(q, Fresh, i, to)  BY <1>0, <3>1, <3>2, StageOne
        <3> QED BY <3>3 DEF OneStage
    <2>4. CASE \/ e.status = queue.entry[i].status
               \/ e.status = "queued" /\ queue.entry[i].status = "failed"
        <3>1. Stage(Fresh)[i] = IF e.status = "failed" THEN "queued" ELSE e.status
            BY <1>0, <2>4 DEF Stage
        <3>2. Stage(q) = Stage(Fresh)  BY <2>3, <3>1 DEF Stage
        <3>3. Keeps(q)  BY <1>01, <2>1, <3>2 DEF Keeps
        <3> QED BY <1>0, <1>01, <2>1, <2>2, <3>3, RequestDoes
    <2>5. CASE e.status = "queued" /\ i \in seen.forgotten
        <3>1. Puts(q, i, "queued")  BY <1>01, <2>1, <2>3, <2>5 DEF Puts, Keeps
        <3> QED BY <1>0, <1>01, <2>1, <2>2, <2>5, <3>1, RequestDoes
    <2> QED BY <1>5, <2>4, <2>5
<1>6. ASSUME NEW i \in Ids, NEW k \in Tokens, NEW kind \in Kinds, SubmitEdit(i, k, kind)
      PROVE  Does
    <2> DEFINE e == [Absent EXCEPT !.status = "queued", !.kind = kind, !.last = k]
    <2>1. e \in Entries /\ e.status = "queued"
        BY KindAssumption DEF Absent, Entries, Statuses
    <2>2. /\ queue.entry[i].status \in {"queued", "failed", "uncertain"}
          /\ Fresh.entry[i].token = k
          /\ Request([Fresh EXCEPT !.entry[i] = e], seen.owed)
        BY <1>03, <1>6 DEF SubmitEdit, Editable, Entries, Statuses
    <2>3. queue.entry[i].status = "uncertain" => i \in seen.forgotten
        BY <1>0, <2>2, TokenAssumption DEF Inv, NobodyEditsASend
    <2> HIDE DEF e
    <2> QED BY <1>5, <2>1, <2>2, <2>3
<1>7. ASSUME NEW i \in Ids, NEW k \in Tokens, OpenEdit(i, k) PROVE Does
    <2> DEFINE e == [Fresh.entry[i] EXCEPT !.token = k]
    <2>1. e \in Entries /\ e.status = queue.entry[i].status
        <3>1. Fresh.entry[i] \in Entries /\ Fresh.entry[i].status = queue.entry[i].status
            BY <1>0
        <3>2. e \in Entries  BY <3>1, EntryType
        <3> QED BY <3>1, <3>2 DEF Entries
    <2>2. Request([Fresh EXCEPT !.entry[i] = e], seen.owed)
        BY <1>0, <1>7 DEF OpenEdit
    <2> HIDE DEF e
    <2> QED BY <1>5, <2>1, <2>2
<1>8. ASSUME NEW i \in Ids, NEW k \in Tokens, ReleaseEdit(i, k) PROVE Does
    <2> DEFINE e == Unlease(Fresh.entry[i])
    <2>1. e \in Entries /\ e.status = queue.entry[i].status
        <3>1. Fresh.entry[i] \in Entries /\ Fresh.entry[i].status = queue.entry[i].status
            BY <1>0
        <3>2. e = [Fresh.entry[i] EXCEPT !.token = NoToken, !.due = FALSE]
            BY DEF Unlease
        <3> HIDE DEF e
        <3> QED BY <3>1, <3>2 DEF Entries
    <2>2. Request([Fresh EXCEPT !.entry[i] = e], seen.owed)
        BY <1>0, <1>8 DEF ReleaseEdit
    <2> HIDE DEF e
    <2> QED BY <1>5, <2>1, <2>2
\* The rest writes the entries of Fresh, or makes the failed ones wait.
<1>9. ASSUME NEW q \in Queues, NEW owed \in SUBSET Debts, Request(q, owed),
             q.completed = Fresh.completed,
             q.resumeRevision \in {Fresh.resumeRevision, queue.revision + 1},
             \A i \in Ids : \/ q.entry[i] = Fresh.entry[i]
                            \/ q.entry[i].status = "queued" /\ Fresh.entry[i].status = "failed"
      PROVE  Does
    <2>1. Stage(q) = Stage(Fresh)  BY <1>9 DEF Stage
    <2>2. Keeps(q)  BY <1>01, <1>9, <2>1 DEF Keeps
    <2> QED BY <1>01, <1>9, <2>2, RequestDoes
<1>10. ASSUME NEW why \in {"stop", "none"}, Pause(why) PROVE Does
    <2> DEFINE q == [SetPause(Fresh, why) EXCEPT !.restartPause = "none"]
    <2>1. /\ q \in Queues /\ q.entry = Fresh.entry
          /\ q.completed = Fresh.completed /\ q.resumeRevision = Fresh.resumeRevision
        BY <1>0 DEF SetPause, Queues
    <2>2. Request(q, seen.owed \cup {"user"}) /\ seen.owed \cup {"user"} \in SUBSET Debts
        BY <1>0, <1>10 DEF Pause, Debts
    <2> HIDE DEF q
    <2> QED BY <1>9, <2>1, <2>2
<1>11. CASE Resume
    <2> DEFINE E == [i \in Ids |-> IF Fresh.entry[i].status = "failed"
                                   THEN [Fresh.entry[i] EXCEPT !.status = "queued"]
                                   ELSE Fresh.entry[i]]
               q == Unpause([Fresh EXCEPT !.entry = E])
    <2>1. E \in [Ids -> Entries] /\ \A i \in Ids :
              \/ E[i] = Fresh.entry[i]
              \/ Fresh.entry[i].status = "failed" /\ E[i].status = "queued"
        <3>1. \A i \in Ids : [Fresh.entry[i] EXCEPT !.status = "queued"] \in Entries
            BY <1>0, EntryType DEF Statuses
        <3>2. \A i \in Ids : [Fresh.entry[i] EXCEPT !.status = "queued"].status = "queued"
            BY <1>0 DEF Entries
        <3> QED BY <1>0, <3>1, <3>2
    <2>2. Request(q, {})  BY <1>11 DEF Resume
    <2> HIDE DEF E
    <2>3. /\ q \in Queues /\ q.entry = E
          /\ q.completed = Fresh.completed /\ q.resumeRevision = queue.revision + 1
        BY <1>0, <1>02, <2>1 DEF Unpause, Queues
    <2> HIDE DEF q
    <2>4. {} \in SUBSET Debts  OBVIOUS
    <2>5. \A i \in Ids : \/ q.entry[i] = Fresh.entry[i]
                         \/ q.entry[i].status = "queued" /\ Fresh.entry[i].status = "failed"
        BY <2>1, <2>3
    <2> QED BY <1>9, <2>2, <2>3, <2>4, <2>5
<1>12. CASE Reorder
    <2>1. PICK ids \in SetToSeqs(Waiting) : Request([Fresh EXCEPT !.order = InFlight \o ids], seen.owed)
        BY <1>12 DEF Reorder
    <2> DEFINE q == [Fresh EXCEPT !.order = InFlight \o ids]
    <2>2. ids \in Seq(Ids)
        <3>1. Cardinality(Waiting) \in Nat
            BY IdAssumption, FS_Subset, FS_CardinalityType DEF Waiting
        <3>2. ids \in [1..Cardinality(Waiting) -> Ids]  BY DEF SetToSeqs, Waiting
        <3> QED BY <3>1, <3>2, SeqDef
    <2>3. InFlight \in Seq(Ids)
        <3>1. queue.order \in Seq(Ids)  BY DEF TypeOK, Queues
        <3> QED BY <3>1, ElementOfSeq, EmptySeq, LenProperties DEF InFlight
    <2>4. /\ q \in Queues /\ q.entry = Fresh.entry
          /\ q.completed = Fresh.completed /\ q.resumeRevision = Fresh.resumeRevision
        <3>1. InFlight \o ids \in Seq(Ids)  BY <2>2, <2>3, ConcatProperties
        <3> QED BY <1>0, <3>1 DEF Queues
    <2>5. Request(q, seen.owed)  BY <2>1
    <2> HIDE DEF q
    <2> QED BY <1>0, <1>9, <2>4, <2>5
<1> QED BY <1>1, <1>2, <1>3, <1>4, <1>6, <1>7, <1>8, <1>10, <1>11, <1>12 DEF Act

-----------------------------------------------------------------------------
(* The dispatcher.                                                         *)

\* It moves on, or fails to write.
LEMMA MoveDoes ==
    ASSUME TypeOK, KnownInv, NEW d, MoveTo(d) \/ FailsTo(d),
           d.phase \in InHand => /\ dispatch.phase \in InHand /\ d.id = dispatch.id
                                 /\ d.revision = dispatch.revision,
           \/ d.phase \notin {"claimed", "calling", "settling"}
           \/ d.phase = "settling" /\ d.outcome # "prep"
           \/ NotYetAsked,
           \/ d.phase = "returned"
           \/ d.phase = "settling" /\ d.outcome = "confirmed"
           => dispatch.id \in accepted
    PROVE  Does
<1>1. /\ dispatch' = d
      /\ UNCHANGED <<queue, seen, removed, gone, requests, accepted, tick>>
    BY DEF MoveTo, FailsTo, WriteFails, DispatcherOnly, server, gate, engine
<1>2. Keeps(queue')  BY <1>1 DEF Keeps
<1>3. Asks  BY <1>1 DEF Asks, NotYetAsked, InHand
<1>4. Engine /\ Forgets  BY <1>1 DEF Engine, Forgets
<1>5. ConfirmedIsAccepted'  BY <1>1 DEF KnownInv, ConfirmedIsAccepted, InHand
<1>6. ResumeIsSeen'  BY <1>1 DEF KnownInv, ResumeIsSeen
<1> QED BY <1>2, <1>3, <1>4, <1>5, <1>6 DEF Does, Effect, Change, KnownInv

\* It writes and lets go of the message it has.
LEMMA LetGoDoes ==
    ASSUME TypeOK, Inv, KnownInv, NEW q \in Queues, NEW owed \in SUBSET Debts,
           Records(q, owed, NoDispatch), q.resumeRevision = queue.resumeRevision,
           \/ Keeps(q)
           \/ \E i \in Ids :
                 /\ dispatch.id = i
                 /\ \/ i \in accepted /\ dispatch.phase \in {"returned", "settling"} /\ Retires(q, i)
                    \/ /\ dispatch.phase = "settling"
                       /\ \/ dispatch.outcome = "prep" /\ Puts(q, i, "queued")
                          \/ Puts(q, i, "uncertain")
    PROVE  Does
<1>1. /\ dispatch' = NoDispatch /\ Write(q, owed) /\ ~removed
      /\ UNCHANGED <<removed, gone, requests, accepted, tick>>
    <2>1. ~removed  BY DEF Records, WriteHere, TypeOK
    <2> QED BY <2>1 DEF Records, WriteHere, DispatcherOnly, server, gate, engine
<1>2. dispatch'.phase = "none"  BY <1>1 DEF NoDispatch
<1>3. /\ Stage(queue') = Stage(q) /\ queue'.completed = q.completed
      /\ seen'.forgotten = seen.forgotten \cup (Range(queue.completed) \ Range(queue'.completed))
    BY <1>1, Written
<1>4. Change
    <2>1. dispatch.phase \in {"returned", "settling"} =>
              dispatch.id \in seen.forgotten \/ queue.entry[dispatch.id].status # "absent"
        BY <1>1 DEF Inv, InHandStays, InHand
    <2> QED BY <1>1, <1>3, <2>1 DEF Change, Keeps, Completes, Settles, Puts, Retires
<1>5. Asks  BY <1>2 DEF Asks, NotYetAsked
<1>6. Engine /\ Forgets  BY <1>1, <1>3 DEF Engine, Forgets
<1>7. ConfirmedIsAccepted'  BY <1>1, <1>2 DEF KnownInv, ConfirmedIsAccepted
<1>8. ResumeIsSeen'  BY <1>1, <1>2, WriteResumes DEF InHand
<1> QED BY <1>4, <1>5, <1>6, <1>7, <1>8 DEF Does, Effect, KnownInv

\* A pause changes no stage.
LEMMA PauseKeeps ==
    ASSUME NEW q \in Queues, NEW why \in {"none", "stop", "error"}
    PROVE  /\ SetPause(q, why) \in Queues /\ Stage(SetPause(q, why)) = Stage(q)
           /\ SetPause(q, why).completed = q.completed /\ SetPause(q, why).paused
           /\ SetPause(q, why).resumeRevision = q.resumeRevision
<1> DEFINE p == SetPause(q, why)
<1>1. /\ p \in Queues /\ p.entry = q.entry /\ p.completed = q.completed /\ p.paused
      /\ p.resumeRevision = q.resumeRevision
    BY DEF SetPause, Queues
<1> HIDE DEF p
<1>2. Stage(p) = Stage(q)  BY <1>1 DEF Stage
<1> QED BY <1>1, <1>2 DEF p

\* It takes the head of a queue that is not paused.
LEMMA ClaimDoes == TypeOK /\ Inv /\ KnownInv /\ Claim => Does
<1> SUFFICES ASSUME TypeOK, Inv, KnownInv, Claim PROVE Does
    OBVIOUS
<1> DEFINE h == queue.order[1]
           e == [queue.entry[h] EXCEPT !.status = "sending"]
           q == [queue EXCEPT !.entry[h].status = "sending"]
<1>1. /\ queue \in Queues /\ queue.entry \in [Ids -> Entries] /\ queue.order \in Seq(Ids)
      /\ ~queue.paused /\ queue.order # <<>> /\ queue.entry[h].status = "queued"
      /\ h \in Ids /\ seen.owed \in SUBSET Debts
    <2>1. /\ queue \in Queues /\ queue.entry \in [Ids -> Entries] /\ queue.order \in Seq(Ids)
          /\ seen.owed \in SUBSET Debts
        BY DEF TypeOK, Queues, Observations
    <2>2. ~queue.paused /\ queue.order # <<>> /\ queue.entry[h].status = "queued"
        BY DEF Claim, MayClaim, HeadQueued
    <2>3. h \in Ids  BY <2>1, <2>2, EmptySeq, ElementOfSeq
    <2> QED BY <2>1, <2>2, <2>3
<1>2. /\ Write(q, seen.owed) /\ ~removed /\ dispatch.phase = "claiming"
      /\ dispatch'.phase = "claimed" /\ dispatch'.id = h /\ dispatch'.revision = queue.revision
      /\ UNCHANGED <<removed, gone, requests, accepted, tick>>
    <2>1. ~removed  BY DEF Claim, Records, WriteHere, TypeOK
    <2> QED BY <2>1 DEF Claim, Records, WriteHere, DispatcherOnly, server, gate, engine
<1>3. e \in Entries /\ e.status = "sending"
    <2>1. queue.entry[h] \in Entries  BY <1>1
    <2>2. e \in Entries  BY <2>1, EntryType DEF Statuses
    <2> QED BY <2>1, <2>2 DEF Entries
<1>4. /\ q \in Queues /\ q.entry = [queue.entry EXCEPT ![h] = e]
      /\ q.completed = queue.completed /\ q.resumeRevision = queue.resumeRevision
    <2> HIDE DEF h
    <2>1. [queue.entry EXCEPT ![h] = e] \in [Ids -> Entries]  BY <1>1, <1>3
    <2> QED BY <1>1, <2>1 DEF Queues
<1> HIDE DEF q, e
<1>5. Puts(q, h, "sending")
    <2>1. OneEntry(q, queue, h, e)  BY <1>4 DEF OneEntry
    <2>2. OneStage(q, queue, h, "sending")  BY <1>1, <1>3, <2>1, StageOne
    <2> QED BY <1>4, <2>2 DEF OneStage, Puts
<1>6. /\ Stage(queue') = Stage(q) /\ queue'.completed = q.completed
      /\ queue'.revision = queue.revision + 1 /\ queue'.resumeRevision = queue.resumeRevision
      /\ seen'.forgotten = seen.forgotten \cup (Range(queue.completed) \ Range(queue'.completed))
      /\ ~seen'.resumed
    BY <1>1, <1>2, <1>4, Written
<1>7. Attempts(h) /\ dispatch'.id = h
    BY <1>1, <1>2, <1>5, <1>6 DEF Attempts, Puts
<1> HIDE DEF h
<1>8. Change /\ Asks  BY <1>1, <1>2, <1>7 DEF Change, Asks
<1>9. Engine /\ Forgets  BY <1>2, <1>6 DEF Engine, Forgets
<1>10. ConfirmedIsAccepted'  BY <1>2 DEF KnownInv, ConfirmedIsAccepted
<1>11. ResumeIsSeen'
    <2>1. queue.revision \in Nat /\ queue.resumeRevision \in Nat  BY <1>1 DEF Queues
    <2> QED BY <1>2, <1>6, <2>1 DEF KnownInv, ResumeIsSeen
<1> QED BY <1>8, <1>9, <1>10, <1>11 DEF Does, Effect, KnownInv

\* It asks the engine.
LEMMA IssueDoes == TypeOK /\ KnownInv /\ IssueRequest => Does
<1> SUFFICES ASSUME TypeOK, KnownInv, IssueRequest PROVE Does
    OBVIOUS
<1>1. /\ dispatch.phase = "calling" /\ ~gone
      /\ requests' = [requests EXCEPT ![dispatch.id] = @ + 1]
      /\ dispatch'.phase = "issued" /\ dispatch'.id = dispatch.id
      /\ dispatch'.revision = dispatch.revision /\ dispatch \in Dispatches
      /\ UNCHANGED <<queue, seen, removed, gone, accepted, tick>>
    BY DEF IssueRequest, DispatcherOnly, server, gate, TypeOK, DispatchOK, Dispatches
<1>2. Keeps(queue')  BY <1>1 DEF Keeps
<1>3. Asks /\ Engine /\ Forgets
    BY <1>1, <1>2 DEF Asks, NotYetAsked, Engine, Issues, Forgets
<1>4. \A i \in Ids : requests[i] # 0 => requests'[i] # 0
    <2> SUFFICES ASSUME NEW i \in Ids, requests[i] # 0 PROVE requests'[i] # 0
        OBVIOUS
    <2>1. requests[i] \in Nat  BY DEF TypeOK
    <2> QED BY <1>1, <2>1 DEF TypeOK
<1>5. ConfirmedIsAccepted'
    BY <1>1, <1>4 DEF KnownInv, ConfirmedIsAccepted, TypeOK
<1>6. ResumeIsSeen'  BY <1>1 DEF KnownInv, ResumeIsSeen, InHand
<1> QED BY <1>2, <1>3, <1>5, <1>6 DEF Does, Effect, Change, KnownInv

\* Every step of the dispatcher has its effect on the message it has in hand.
LEMMA DispatchDoes == TypeOK /\ Inv /\ KnownInv /\ Dispatch => Does
<1> SUFFICES ASSUME TypeOK, Inv, KnownInv, Dispatch PROVE Does
    OBVIOUS
<1>0. /\ queue \in Queues /\ seen.owed \in SUBSET Debts /\ queue.entry \in [Ids -> Entries]
      /\ NoDispatch.phase = "none" /\ dispatch \in Dispatches
      /\ dispatch.phase \in InHand => dispatch.id \in Ids
      /\ dispatch.phase = "returned" => dispatch.outcome \in Results
    BY DEF TypeOK, Observations, NoDispatch, DispatchOK, Queues
<1>1. CASE EngineBusy \/ AbandonClaim
    BY <1>0, <1>1, MoveDoes DEF EngineBusy, AbandonClaim, InHand
<1>2. CASE EngineIdle
    <2> DEFINE d == [dispatch EXCEPT !.phase = "claiming"]
    <2>1. d.phase = "claiming" /\ MoveTo(d)  BY <1>0, <1>2 DEF EngineIdle, GoTo, Dispatches
    <2> HIDE DEF d
    <2> QED BY <2>1, MoveDoes DEF InHand
<1>3. CASE Claim  BY <1>3, ClaimDoes
<1>4. CASE ClaimNothing
    <2>1. Keeps(queue)  BY DEF Keeps
    <2> QED BY <1>0, <1>4, <2>1, LetGoDoes DEF ClaimNothing
<1>5. CASE ClaimFails \/ SettleFails
    BY <1>0, <1>5, MoveDoes DEF ClaimFails, SettleFails, InHand
<1>6. CASE BeginSend
    <2> DEFINE d == [dispatch EXCEPT !.phase = "calling"]
    <2>1. /\ d.phase = "calling" /\ d.id = dispatch.id /\ d.revision = dispatch.revision
          /\ MoveTo(d) /\ dispatch.phase = "claimed"
        BY <1>0, <1>6 DEF BeginSend, GoTo, Dispatches
    <2> HIDE DEF d
    <2> QED BY <2>1, MoveDoes DEF InHand, NotYetAsked
<1>7. CASE PreparationFails
    <2> DEFINE d == [dispatch EXCEPT !.phase = "settling", !.outcome = "prep"]
    <2>1. /\ d.phase = "settling" /\ d.outcome = "prep" /\ d.id = dispatch.id
          /\ d.revision = dispatch.revision /\ MoveTo(d) /\ dispatch.phase = "calling"
        BY <1>0, <1>7 DEF PreparationFails, Dispatches
    <2> HIDE DEF d
    <2> QED BY <2>1, MoveDoes DEF InHand, NotYetAsked
<1>8. CASE IssueRequest  BY <1>8, IssueDoes
<1>9. CASE EngineAnswers
    <2>1. PICK result \in Results :
              MoveTo([dispatch EXCEPT !.phase = "returned", !.outcome = result])
        BY <1>9 DEF EngineAnswers
    <2> DEFINE d == [dispatch EXCEPT !.phase = "returned", !.outcome = result]
    <2>2. /\ d.phase = "returned" /\ d.id = dispatch.id /\ d.revision = dispatch.revision
          /\ MoveTo(d) /\ dispatch.phase = "issued" /\ dispatch.id \in accepted
        BY <1>0, <1>9, <2>1 DEF EngineAnswers, Dispatches
    <2> HIDE DEF d
    <2> QED BY <2>2, MoveDoes DEF InHand
<1>10. CASE SendFails \/ FinishFails
    <2> DEFINE d == [dispatch EXCEPT !.phase = "erred", !.outcome = "unknown"]
    <2>1. /\ d.phase = "erred" /\ d.id = dispatch.id /\ d.revision = dispatch.revision
          /\ MoveTo(d) \/ FailsTo(d)
          /\ dispatch.phase \in {"calling", "issued", "returned"}
        BY <1>0, <1>10 DEF SendFails, FinishFails, Dispatches
    <2> HIDE DEF d
    <2> QED BY <2>1, MoveDoes DEF InHand
<1>11. CASE FinishDelivery
    <2> DEFINE id == dispatch.id
               sent == Retire(queue, id)
               r == IF PauseApplies THEN SetPause(sent, dispatch.outcome) ELSE sent
    <2>1. /\ id \in Ids /\ id \in accepted /\ dispatch.phase = "returned"
          /\ dispatch.outcome \in Results /\ Records(r, seen.owed, NoDispatch)
        BY <1>0, <1>11 DEF FinishDelivery, InHand, KnownInv, ConfirmedIsAccepted
    <2>2. sent \in Queues /\ Retires(sent, id) /\ sent.resumeRevision = queue.resumeRevision
        BY <1>0, <2>1, RetireStage, RetireType DEF Retires
    <2> HIDE DEF sent
    <2>3. /\ r \in Queues /\ Stage(r) = Stage(sent) /\ r.completed = sent.completed
          /\ r.resumeRevision = queue.resumeRevision
        <3>1. PauseApplies => dispatch.outcome \in {"stop", "error"}
            BY <2>1 DEF PauseApplies, Results
        <3> QED BY <2>2, <3>1, PauseKeeps
    <2> HIDE DEF r
    <2>4. Retires(r, id)  BY <2>2, <2>3 DEF Retires
    <2> QED BY <1>0, <2>1, <2>3, <2>4, LetGoDoes
<1>12. CASE ConfirmSend
    <2> DEFINE c == [dispatch EXCEPT !.phase = "settling", !.outcome = "confirmed"]
               d == [dispatch EXCEPT !.phase = "settling"]
    <2>1. /\ c.phase = "settling" /\ c.id = dispatch.id /\ c.revision = dispatch.revision
          /\ c.outcome = "confirmed"
          /\ d.phase = "settling" /\ d.id = dispatch.id /\ d.outcome = dispatch.outcome
          /\ d.revision = dispatch.revision
          /\ dispatch.phase = "erred"
          /\ MoveTo(NoDispatch) \/ (MoveTo(c) /\ dispatch.id \in accepted) \/ MoveTo(d)
        BY <1>0, <1>12 DEF ConfirmSend, GoTo, Dispatches, CanConfirm
    <2>2. dispatch.outcome = "unknown"
        BY <2>1 DEF Inv, ErredIsUnknown
    <2> HIDE DEF c, d
    <2>3. CASE MoveTo(NoDispatch)  BY <1>0, <2>3, MoveDoes DEF InHand
    <2>4. CASE MoveTo(c) /\ dispatch.id \in accepted  BY <2>1, <2>4, MoveDoes DEF InHand
    <2>5. CASE MoveTo(d)  BY <2>1, <2>2, <2>5, MoveDoes DEF InHand
    <2> QED BY <2>1, <2>3, <2>4, <2>5
<1>13. CASE Settle
    <2> DEFINE id == dispatch.id
               status == Unsettled(dispatch.outcome)
               marked == IF queue.entry[id].status = "absent" THEN queue
                         ELSE [queue EXCEPT !.entry[id].status = status]
               p == SetPause(marked, "error")
               left == Retire(queue, id)
    <2>1. id \in Ids /\ dispatch.phase = "settling"
        BY <1>0, <1>13 DEF Settle, InHand
    <2>2. CASE dispatch.outcome = "confirmed"
        <3>1. Records(left, seen.owed, NoDispatch)
            BY <1>13, <2>2 DEF Settle
        <3>2. left \in Queues /\ Retires(left, id) /\ left.resumeRevision = queue.resumeRevision
            BY <1>0, <2>1, RetireStage, RetireType DEF Retires
        <3>3. id \in accepted  BY <2>1, <2>2 DEF KnownInv, ConfirmedIsAccepted
        <3> HIDE DEF left
        <3> QED BY <1>0, <2>1, <3>1, <3>2, <3>3, LetGoDoes
    <2>3. CASE dispatch.outcome # "confirmed"
        <3>1. Records(p, seen.owed, NoDispatch)
            BY <1>13, <2>3 DEF Settle
        <3> DEFINE to == IF dispatch.outcome = "prep" THEN "queued" ELSE "uncertain"
                   e == [queue.entry[id] EXCEPT !.status = status]
        <3>2. marked \in Queues /\ marked.resumeRevision = queue.resumeRevision
              /\ (Keeps(marked) \/ Puts(marked, id, to))
            <4>1. CASE queue.entry[id].status = "absent"  BY <1>0, <4>1 DEF Keeps
            <4>2. CASE queue.entry[id].status # "absent"
                <5>1. /\ status \in {"failed", "uncertain"}
                      /\ to = IF status = "failed" THEN "queued" ELSE status
                    BY DEF Unsettled
                <5> HIDE DEF status, to
                <5>2. queue.entry[id] \in Entries  BY <1>0, <2>1
                <5>3. e \in Entries /\ e.status = status
                    <6>1. e \in Entries  BY <5>1, <5>2, EntryType DEF Statuses
                    <6> QED BY <5>2, <6>1 DEF Entries
                <5>4. marked = [queue EXCEPT !.entry[id].status = status]  BY <4>2
                <5> HIDE DEF marked, id
                <5>5. /\ marked \in Queues /\ marked.entry = [queue.entry EXCEPT ![id] = e]
                      /\ marked.completed = queue.completed
                      /\ marked.resumeRevision = queue.resumeRevision
                    <6>1. [queue.entry EXCEPT ![id] = e] \in [Ids -> Entries]  BY <1>0, <5>3
                    <6> QED BY <1>0, <5>4, <6>1 DEF Queues
                <5> HIDE DEF e
                <5>6. OneEntry(marked, queue, id, e)  BY <5>5 DEF OneEntry
                <5>7. to = IF e.status = "failed" THEN "queued" ELSE e.status  BY <5>1, <5>3
                <5>8. OneStage(marked, queue, id, to)  BY <1>0, <2>1, <5>3, <5>6, <5>7, StageOne
                <5> QED BY <5>5, <5>8 DEF OneStage, Puts
            <4> QED BY <4>1, <4>2
        <3> HIDE DEF marked
        <3>3. /\ p \in Queues /\ Stage(p) = Stage(marked) /\ p.completed = marked.completed
              /\ p.resumeRevision = queue.resumeRevision
            BY <3>2, PauseKeeps
        <3> HIDE DEF p
        <3>4. Keeps(p) \/ Puts(p, id, to)  BY <3>2, <3>3 DEF Keeps, Puts
        <3>5. \/ Keeps(p)
              \/ dispatch.outcome = "prep" /\ Puts(p, id, "queued")
              \/ Puts(p, id, "uncertain")
            BY <3>4
        <3> QED BY <1>0, <2>1, <3>1, <3>3, <3>5, LetGoDoes
    <2> QED BY <2>2, <2>3
<1> QED BY <1>1, <1>2, <1>3, <1>4, <1>5, <1>6, <1>7, <1>8, <1>9, <1>10, <1>11, <1>12, <1>13
        DEF Dispatch

-----------------------------------------------------------------------------
(* The ticks.                                                              *)

\* Every step of a tick has its effect, whatever happened since it began.
LEMMA TickDoes == ASSUME NEW t \in Ticks PROVE TypeOK /\ Inv /\ KnownInv /\ Tick(t) => Does
<1> SUFFICES ASSUME TypeOK, Inv, KnownInv, Tick(t) PROVE Does
    OBVIOUS
<1>0. /\ queue \in Queues /\ seen.owed \in SUBSET Debts
      /\ tick \in [Ticks -> TickStates] /\ NoTick.at = "idle"
      /\ tick[t].at = "land" => tick[t].id \in Ids
    BY DEF TypeOK, Observations, NoTick
\* The tick knows of what it is about to retire.
<1>1. ASSUME NEW v, SetTick(t, v), v.at = "land" => v.id \in accepted,
             UNCHANGED <<accepted, requests>>,
             \/ dispatch' = dispatch
             \/ dispatch.phase = "none" /\ dispatch'.phase = "checking"
      PROVE  ConfirmedIsAccepted' /\ Asks
    <2>1. tick' = [tick EXCEPT ![t] = v]  BY <1>1 DEF SetTick
    <2>2. \A u \in Ticks : tick'[u].at = "land" => tick'[u].id \in accepted
        <3> SUFFICES ASSUME NEW u \in Ticks PROVE tick'[u].at = "land" => tick'[u].id \in accepted
            OBVIOUS
        <3>1. CASE u = t
            <4>1. tick'[u] = v  BY <1>0, <2>1, <3>1
            <4> QED BY <1>1, <4>1
        <3>2. CASE u # t
            <4>1. tick'[u] = tick[u]  BY <1>0, <2>1, <3>2
            <4> QED BY <4>1 DEF KnownInv, ConfirmedIsAccepted
        <3> QED BY <3>1, <3>2
    <2> QED BY <1>1, <2>2 DEF KnownInv, ConfirmedIsAccepted, Asks, NotYetAsked
\* It moves on without a write.
<1>2. ASSUME NEW v, SetTick(t, v), v.at = "land" => v.id \in accepted,
             UNCHANGED <<queue, seen>>, TickOnly, UNCHANGED dispatch \/ Start(queue)
      PROVE  Does
    <2>1. UNCHANGED <<removed, gone, requests, accepted>>
        BY <1>2 DEF TickOnly, server, gate, engine
    <2>2. dispatch' = dispatch \/ (dispatch.phase = "none" /\ dispatch'.phase = "checking")
        BY <1>2, StartType
    <2>3. Keeps(queue')  BY <1>2 DEF Keeps
    <2>4. Engine /\ Forgets  BY <1>2, <2>1 DEF Engine, Forgets
    <2>5. ResumeIsSeen'  BY <1>2, <2>1, <2>2 DEF KnownInv, ResumeIsSeen, InHand
    <2> QED BY <1>1, <1>2, <2>1, <2>2, <2>3, <2>4, <2>5 DEF Does, Effect, Change, KnownInv
\* It writes.
<1>3. ASSUME NEW q \in Queues, WriteHere(q, seen.owed), NEW v, SetTick(t, v), v.at # "land",
             TickOnly, UNCHANGED dispatch, q.resumeRevision = queue.resumeRevision,
             Keeps(q) \/ \E i \in Ids : i \in accepted /\ Past(i) /\ Retires(q, i) /\ LandsOn(i)
      PROVE  Does
    <2>1. /\ Write(q, seen.owed) /\ ~removed
          /\ UNCHANGED <<removed, gone, requests, accepted>>
        BY <1>3 DEF WriteHere, TickOnly, TypeOK, server, gate, engine
    <2>2. /\ Stage(queue') = Stage(q) /\ queue'.completed = q.completed
          /\ seen'.forgotten = seen.forgotten \cup (Range(queue.completed) \ Range(queue'.completed))
        BY <1>0, <1>3, <2>1, Written
    <2>3. Change
        BY <1>3, <2>1, <2>2 DEF Change, Keeps, Completes, Retires
    <2>4. Engine /\ Forgets  BY <2>1, <2>2 DEF Engine, Forgets
    <2>5. ResumeIsSeen'  BY <1>0, <1>3, <2>1, WriteResumes
    <2> QED BY <1>1, <1>3, <2>1, <2>3, <2>4, <2>5 DEF Does, Effect, KnownInv
<1>4. CASE TickBegin(t)
    <2> DEFINE v == [NoTick EXCEPT !.at = "scan", !.leased = Leased(queue),
                            !.todo = { i \in Ids : /\ queue.entry[i].status = "uncertain"
                                                   /\ IsPrompt(i) }]
    <2>1. v.at = "scan"  BY DEF NoTick
    <2>2. (TickTo(t, v) /\ UNCHANGED dispatch) \/ (TickTo(t, NoTick) /\ Start(queue))
        BY <1>4 DEF TickBegin
    <2> HIDE DEF v
    <2> QED BY <1>0, <1>2, <2>1, <2>2 DEF TickTo
<1>5. CASE TickLands(t)
    <2> DEFINE i == tick[t].id
               left == Retire(queue, i)
               q == IF LiftsPause(left) THEN [left EXCEPT !.paused = FALSE, !.reason = "none"]
                    ELSE left
               v == [tick[t] EXCEPT !.at = "scan", !.id = NoId]
    <2>1. /\ WriteHere(q, seen.owed) /\ SetTick(t, v) /\ UNCHANGED dispatch /\ TickOnly
          /\ tick[t].at = "land" /\ ~removed
        BY <1>5 DEF TickLands, WriteHere, TypeOK
    <2>2. i \in Ids /\ i \in accepted /\ Past(i) /\ LandsOn(i)
        <3>1. i \in Pursued(tick[t])  BY <2>1 DEF Pursued
        <3>2. LandsOn(i)  BY <1>5 DEF LandsOn
        <3> QED BY <1>0, <2>1, <3>1, <3>2
                DEF KnownInv, ConfirmedIsAccepted, Inv, TicksPursueThePast
    <2>3. v.at = "scan"  BY <1>0 DEF TickStates
    <2>4. left \in Queues /\ Retires(left, i) /\ left.resumeRevision = queue.resumeRevision
        BY <1>0, <2>2, RetireStage, RetireType DEF Retires
    <2> HIDE DEF left
    <2>5. /\ q \in Queues /\ q.entry = left.entry /\ q.completed = left.completed
          /\ q.resumeRevision = left.resumeRevision
        BY <2>4 DEF Queues
    <2> HIDE DEF q, v, i
    <2>6. Stage(q) = Stage(left)  BY <2>5 DEF Stage
    <2>7. Retires(q, i)  BY <2>4, <2>5, <2>6 DEF Retires
    <2> QED BY <1>3, <2>1, <2>2, <2>3, <2>4, <2>5, <2>7
<1>6. CASE TickFails(t)
    BY <1>0, <1>2, <1>6 DEF TickFails, WriteFails
<1>7. CASE TickDropsLeases(t)
    <2> DEFINE v == [tick[t] EXCEPT !.leased = FALSE]
    <2>1. /\ Fresh \in Queues /\ Keeps(Fresh) /\ Fresh.resumeRevision = queue.resumeRevision
        BY <1>0, DropDueType, FreshKeeps DEF Fresh
    <2>2. /\ WriteHere(Fresh, seen.owed) /\ SetTick(t, v) /\ UNCHANGED dispatch /\ TickOnly
          /\ tick[t].at = "scan"
        BY <1>7 DEF TickDropsLeases, Expiring, Fresh
    <2>3. v.at = "scan"  BY <1>0, <2>2 DEF TickStates
    <2> HIDE DEF v
    <2> QED BY <1>3, <2>1, <2>2, <2>3
<1>8. CASE TickStarts(t)
    BY <1>0, <1>2, <1>8 DEF TickStarts, TickTo
<1>9. ASSUME NEW i \in Ids, TickConfirms(t, i) PROVE Does
    <2> DEFINE v == [Scanned(t, i) EXCEPT !.at = "land", !.id = i]
    <2>1. TickTo(t, v) /\ UNCHANGED dispatch /\ i \in accepted
        BY <1>9 DEF TickConfirms, CanConfirm
    <2>2. v.id = i  BY <1>0 DEF Scanned, TickStates
    <2> HIDE DEF v
    <2> QED BY <1>2, <2>1, <2>2 DEF TickTo
<1>10. ASSUME NEW i \in Ids, TickMisses(t, i) PROVE Does
    <2> DEFINE v == Scanned(t, i)
    <2>1. TickTo(t, v) /\ UNCHANGED dispatch /\ tick[t].at = "scan"
        BY <1>10 DEF TickMisses
    <2>2. v.at = "scan"  BY <1>0, <2>1 DEF Scanned, TickStates
    <2> HIDE DEF v
    <2> QED BY <1>2, <2>1, <2>2 DEF TickTo
<1> QED BY <1>4, <1>5, <1>6, <1>7, <1>8, <1>9, <1>10 DEF Tick

-----------------------------------------------------------------------------
(* Leases, the engine, stopping, restarting and deleting.                  *)

\* Steps that leave the queue and what is asked of the engine alone.
LEMMA AsideDoes ==
    ASSUME TypeOK, KnownInv, Keeps(queue'), UNCHANGED <<seen, removed, dispatch, tick, requests>>,
           queue'.revision = queue.revision, queue'.resumeRevision = queue.resumeRevision,
           accepted \subseteq accepted', \A i \in accepted' : i \in accepted \/ requests[i] # 0,
           UNCHANGED gone \/ gone'
    PROVE  Does
<1>1. Asks  BY DEF Asks, NotYetAsked
<1>2. Engine /\ Forgets  BY DEF Engine, Forgets
<1>3. ConfirmedIsAccepted'  BY DEF KnownInv, ConfirmedIsAccepted
<1>4. ResumeIsSeen'  BY DEF KnownInv, ResumeIsSeen
<1> QED BY <1>1, <1>2, <1>3, <1>4 DEF Does, Effect, Change, KnownInv

LEMMA LeaseDoes == ASSUME NEW i \in Ids PROVE TypeOK /\ KnownInv /\ LeaseRunsOut(i) => Does
<1> SUFFICES ASSUME TypeOK, KnownInv, LeaseRunsOut(i) PROVE Does
    OBVIOUS
<1>1. /\ queue' = [queue EXCEPT !.entry[i].due = TRUE]
      /\ UNCHANGED <<seen, removed, dispatch, tick, gone, requests, accepted>>
    BY DEF LeaseRunsOut, server, gate, engine
<1> DEFINE E == [queue.entry EXCEPT ![i].due = TRUE]
<1>2. queue \in Queues /\ queue.entry \in [Ids -> Entries]  BY DEF TypeOK, Queues
<1>3. \A j \in Ids : E[j].status = queue.entry[j].status  BY <1>2 DEF Entries
<1>4. queue' = [queue EXCEPT !.entry = E]  BY <1>1, <1>2
<1> HIDE DEF E
<1>5. /\ queue'.entry = E /\ queue'.completed = queue.completed
      /\ queue'.revision = queue.revision /\ queue'.resumeRevision = queue.resumeRevision
    BY <1>2, <1>4 DEF Queues
<1>6. Stage(queue') = Stage(queue)  BY <1>3, <1>5 DEF Stage
<1> QED BY <1>1, <1>5, <1>6, AsideDoes DEF Keeps

\* The next process has nothing in hand, and doubts of what was being sent.
LEMMA RestartDoes == TypeOK /\ Inv /\ KnownInv /\ Restart => Does
<1> SUFFICES ASSUME TypeOK, Inv, KnownInv, Restart PROVE Does
    OBVIOUS
<1>1. /\ dispatch'.phase = "none" /\ \A t \in Ticks : tick'[t].at = "idle"
      /\ UNCHANGED <<gone, requests, accepted>> /\ seen'.forgotten = seen.forgotten
    BY DEF Restart, NoDispatch, NoTick, engine, TypeOK, Observations
<1>2. queue \in Queues /\ Consistent(queue) /\ \A i \in Ids : queue.entry[i] \in Entries
    BY DEF TypeOK, Inv, Queues
<1>3. /\ queue'.completed = queue.completed /\ queue'.resumeRevision = queue.resumeRevision
      /\ queue'.revision \in {queue.revision, queue.revision + 1}
      /\ \/ Stage(queue') = Stage(queue)
         \/ \E i \in Ids : /\ queue.entry[i].status = "sending"
                           /\ Stage(queue') = [Stage(queue) EXCEPT ![i] = "uncertain"]
    <2>1. CASE queue.revision = 0
        BY <2>1 DEF Inv, NoFileIsEmpty, Restart
    <2>2. CASE queue.revision # 0
        <3>1. /\ Loaded \in Queues /\ Interrupted \in Queues
              /\ Loaded.entry = [i \in Ids |-> Restored(queue.entry[i])]
              /\ Loaded.completed = queue.completed
            BY <1>2, LoadedType
        <3>2. \A i \in Ids : Loaded.entry[i].status =
                  IF queue.entry[i].status = "sending" THEN "uncertain" ELSE queue.entry[i].status
            <4> SUFFICES ASSUME NEW e \in Entries
                         PROVE  Restored(e).status =
                                   IF e.status = "sending" THEN "uncertain" ELSE e.status
                BY <1>2, <3>1
            <4> QED BY DEF Restored, Unlease, Entries
        <3>3. Loaded.resumeRevision = queue.resumeRevision
            <4> DEFINE E == [i \in Ids |-> Restored(queue.entry[i])]
            <4>1. Interrupted = IF Has(queue, "sending") THEN SetPause([queue EXCEPT !.entry = E], "error")
                                ELSE [queue EXCEPT !.entry = E]
                BY DEF Interrupted
            <4> HIDE DEF E
            <4>2. Interrupted.resumeRevision = queue.resumeRevision
                BY <1>2, <4>1 DEF SetPause, Queues
            <4> DEFINE why == IF Has(Interrupted, "uncertain") THEN "interrupted" ELSE "waiting"
            <4>3. \/ Loaded = [SetPause(Interrupted, "stop") EXCEPT !.restartPause = why]
                  \/ Loaded = Interrupted
                BY DEF Loaded
            <4> HIDE DEF why
            <4> QED BY <3>1, <4>2, <4>3 DEF SetPause, Queues
        <3>4. queue' = [Loaded EXCEPT !.revision = queue.revision + 1]
            BY <2>2 DEF Restart
        <3>5. /\ queue'.entry = Loaded.entry /\ queue'.completed = queue.completed
              /\ queue'.resumeRevision = queue.resumeRevision
              /\ queue'.revision = queue.revision + 1
            BY <3>1, <3>3, <3>4 DEF Queues
        <3>6. CASE ~\E i \in Ids : queue.entry[i].status = "sending"
            <4>1. Stage(queue') = Stage(queue)  BY <3>2, <3>5, <3>6 DEF Stage
            <4> QED BY <3>5, <4>1
        <3>7. CASE \E i \in Ids : queue.entry[i].status = "sending"
            <4>1. PICK i \in Ids : queue.entry[i].status = "sending"  BY <3>7
            <4>2. \A j \in Ids : j # i => queue.entry[j].status # "sending"
                BY <1>2, <4>1 DEF Consistent, SendingFirst
            <4>3. \A j \in Ids : queue'.entry[j].status =
                      IF j = i THEN "uncertain" ELSE queue.entry[j].status
                BY <3>2, <3>5, <4>1, <4>2
            <4> DEFINE s == [Stage(queue) EXCEPT ![i] = "uncertain"]
            <4>4. \A j \in Ids : Stage(queue')[j] = s[j]  BY <4>3 DEF Stage
            <4>5. Stage(queue') = s  BY <4>4 DEF Stage
            <4> QED BY <3>5, <4>1, <4>5
        <3> QED BY <3>6, <3>7
    <2> QED BY <2>1, <2>2
<1>4. Change  BY <1>3 DEF Change, Keeps, Doubts, Puts
<1>5. Asks  BY <1>1 DEF Asks, NotYetAsked
<1>6. Engine /\ Forgets  BY <1>1 DEF Engine, Forgets
<1>7. ConfirmedIsAccepted'  BY <1>1 DEF KnownInv, ConfirmedIsAccepted
<1>8. ResumeIsSeen'
    <2>1. queue.revision \in Nat /\ queue.resumeRevision \in Nat  BY <1>2 DEF Queues
    <2> QED BY <1>1, <1>3, <2>1 DEF KnownInv, ResumeIsSeen, InHand
<1> QED BY <1>4, <1>5, <1>6, <1>7, <1>8 DEF Does, Effect, KnownInv

LEMMA RemoveDoes == TypeOK /\ KnownInv /\ RemoveSession => Does
<1> SUFFICES ASSUME TypeOK, KnownInv, RemoveSession PROVE Does
    OBVIOUS
<1>1. /\ removed' /\ queue' = NoQueue
      /\ UNCHANGED <<dispatch, tick, requests, accepted, gone>>
    BY DEF RemoveSession, GateOnly, gate, engine
<1>2. Asks  BY <1>1 DEF Asks, NotYetAsked
<1>3. KnownInv'
    BY <1>1 DEF KnownInv, ConfirmedIsAccepted, ResumeIsSeen, NoQueue
<1> QED BY <1>1, <1>2, <1>3 DEF Does, Effect, Change, Engine, Forgets

\* Every step has one of the effects, and keeps what is known.
LEMMA NextDoes == TypeOK /\ Inv /\ KnownInv /\ [Next]_vars => Does
<1> SUFFICES ASSUME TypeOK, Inv, KnownInv, [Next]_vars PROVE Does
    OBVIOUS
<1>0. Keeps(queue)  BY DEF Keeps
<1>1. CASE Act  BY <1>1, ActDoes
<1>2. CASE Dispatch  BY <1>2, DispatchDoes
<1>3. ASSUME NEW i \in Ids, LeaseRunsOut(i) PROVE Does  BY <1>3, LeaseDoes
<1>4. ASSUME NEW i \in Ids, EngineAccepts(i) PROVE Does
    <2>1. requests[i] # 0 /\ accepted' = accepted \cup {i}
        BY <1>4 DEF EngineAccepts, TypeOK
    <2> QED BY <1>0, <1>4, <2>1, AsideDoes DEF EngineAccepts, server, gate
<1>5. ASSUME NEW t \in Ticks, Tick(t) PROVE Does  BY <1>5, TickDoes
<1>6. CASE Stop  BY <1>0, <1>6, AsideDoes DEF Stop, gate, engine
<1>7. CASE Restart  BY <1>7, RestartDoes
<1>8. CASE BeginDeletion \/ EngineDeletes \/ MarkRemoved \/ EndDeletion
    BY <1>0, <1>8, AsideDoes
       DEF BeginDeletion, EngineDeletes, MarkRemoved, EndDeletion, GateOnly, gate, engine
<1>9. CASE RemoveSession  BY <1>9, RemoveDoes
<1>10. CASE UNCHANGED vars
    BY <1>0, <1>10, AsideDoes DEF vars, server, gate, engine
<1> QED BY <1>1, <1>2, <1>3, <1>4, <1>5, <1>6, <1>7, <1>8, <1>9, <1>10 DEF Next

-----------------------------------------------------------------------------
(* Nothing is lost, and a later resume wins.                               *)

\* What is taken for confirmed the engine has, and a resume is known by its
\* revision, in every state.
LEMMA KnownAlways == Spec => [](TypeOK /\ Inv /\ KnownInv)
<1>1. Init => KnownInv
    BY DEF Init, KnownInv, ConfirmedIsAccepted, ResumeIsSeen, NoQueue, NoDispatch, NoTick, InHand
<1>2. TypeOK /\ Inv /\ KnownInv /\ [Next]_vars => KnownInv'  BY NextDoes DEF Does
<1> QED BY <1>1, <1>2, Invariant, PTL DEF Spec

\* A message leaves the queue only when the engine has it, when a user removed
\* it, or when the chat was deleted; no crash, failed write or late tick drops
\* one.
THEOREM NothingIsLost == Spec => NoSilentLoss
<1> DEFINE Leaves == \A i \in Ids :
               queue.entry[i].status # "absent" /\ queue'.entry[i].status = "absent" =>
                   i \in accepted \/ RemoveEntry(i) \/ RemoveSession
<1>1. TypeOK /\ Inv /\ KnownInv /\ [Next]_vars => Leaves
    <2> SUFFICES ASSUME TypeOK, Inv, KnownInv, [Next]_vars, NEW i \in Ids,
                        queue.entry[i].status # "absent", queue'.entry[i].status = "absent"
                 PROVE  i \in accepted \/ RemoveEntry(i) \/ RemoveSession
        OBVIOUS
    <2>1. Change  BY NextDoes DEF Does, Effect
    <2>2. Stage(queue)[i] # "absent" /\ Stage(queue')[i] = "absent"  BY DEF Stage
    <2>3. ~Keeps(queue')  BY <2>2 DEF Keeps
    <2>4. ASSUME NEW j \in Ids, NEW to \in {"queued", "sending", "uncertain"}
          PROVE  ~Puts(queue', j, to)
        <3> SUFFICES ASSUME Puts(queue', j, to) PROVE FALSE
            OBVIOUS
        <3> QED BY <2>2, <2>4 DEF Puts, Stage
    <2>5. CASE \E j \in Ids : Withdraws(j) \/ Completes(j)
        <3>1. PICK j \in Ids : Withdraws(j) \/ Completes(j)  BY <2>5
        <3>2. Stage(queue') = [Stage(queue) EXCEPT ![j] = "absent"]
            BY <3>1 DEF Withdraws, Completes, Retires
        <3>3. j = i  BY <2>2, <3>2 DEF Stage
        <3> QED BY <3>1, <3>3 DEF Withdraws, Completes
    <2>6. ~\E j \in Ids : \/ Submits(j) \/ Attempts(j) \/ Settles(j) \/ Doubts(j) \/ Reopens(j)
        BY <2>4 DEF Submits, Attempts, Settles, Doubts, Reopens
    <2> QED BY <2>1, <2>3, <2>5, <2>6 DEF Change
<1>2. TypeOK /\ Inv /\ KnownInv /\ [Next]_vars => [Leaves]_vars  BY <1>1
<1> HIDE DEF Leaves
<1>3. Spec => [][Leaves]_vars  BY <1>2, KnownAlways, PTL DEF Spec
<1> QED BY <1>3 DEF NoSilentLoss, Leaves

\* A pause that the result of a delivery asks for is applied exactly when the
\* user has not resumed since that delivery was claimed.
THEOREM LaterResumeStands == Spec => LaterResumeWins
<1> DEFINE Obeys == FinishDelivery =>
               IF dispatch.outcome = "plain" \/ seen.resumed
               THEN queue'.paused = queue.paused ELSE queue'.paused
<1>1. TypeOK /\ Inv /\ KnownInv /\ [Next]_vars => Obeys
    <2> SUFFICES ASSUME TypeOK, KnownInv, FinishDelivery
                 PROVE  IF dispatch.outcome = "plain" \/ seen.resumed
                        THEN queue'.paused = queue.paused ELSE queue'.paused
        OBVIOUS
    <2> DEFINE sent == Retire(queue, dispatch.id)
               r == IF PauseApplies THEN SetPause(sent, dispatch.outcome) ELSE sent
    <2>1. /\ dispatch.phase = "returned" /\ dispatch.id \in Ids /\ dispatch.outcome \in Results
          /\ queue \in Queues /\ seen.owed \in SUBSET Debts
          /\ queue.resumeRevision \in Nat /\ dispatch.revision \in Nat
        BY DEF FinishDelivery, InHand, TypeOK, DispatchOK, Dispatches, Queues, Observations
    <2>2. sent \in Queues /\ sent.paused = queue.paused  BY <2>1, RetireType
    <2>3. Records(r, seen.owed, NoDispatch)  BY DEF FinishDelivery
    <2>4. ~removed /\ Write(r, seen.owed)  BY <2>3 DEF Records, WriteHere, TypeOK
    <2>5. PauseApplies <=> dispatch.outcome # "plain" /\ ~seen.resumed
        BY <2>1, <2>4 DEF PauseApplies, KnownInv, ResumeIsSeen, InHand
    <2> HIDE DEF sent
    <2>6. /\ r \in Queues
          /\ IF PauseApplies THEN r.paused ELSE r.paused = queue.paused
        <3>1. PauseApplies => dispatch.outcome \in {"none", "stop", "error"}
            BY <2>1 DEF PauseApplies, Results
        <3> QED BY <2>2, <3>1, PauseKeeps
    <2> HIDE DEF r
    <2>7. queue'.paused = r.paused  BY <2>1, <2>4, <2>6, Written
    <2> QED BY <2>5, <2>6, <2>7
<1>2. TypeOK /\ Inv /\ KnownInv /\ [Next]_vars => [Obeys]_vars  BY <1>1
<1> HIDE DEF Obeys
<1>3. Spec => [][Obeys]_vars  BY <1>2, KnownAlways, PTL DEF Spec
<1> QED BY <1>3 DEF LaterResumeWins, Obeys

-----------------------------------------------------------------------------
(* The queue implements MessageDelivery.                                   *)

\* A message's place in its life follows from its stage.
Placed(stage, remembered) ==
    CASE stage = "queued" -> "waiting"
      [] stage = "sending" -> "attempting"
      [] stage = "uncertain" -> "doubtful"
      [] OTHER -> IF remembered THEN "done" ELSE "none"

LEMMA LifeIs ==
    ASSUME NEW q \in Queues
    PROVE  Life(q) = [i \in Ids |-> Placed(Stage(q)[i], i \in Range(q.completed))]
<1>1. \A i \in Ids : q.entry[i] \in Entries  BY DEF Queues
<1>2. ASSUME NEW i \in Ids
      PROVE  Life(q)[i] = Placed(Stage(q)[i], i \in Range(q.completed))
    <2>1. q.entry[i].status \in Statuses  BY <1>1 DEF Entries
    <2> QED BY <2>1 DEF Life, Stage, Placed, Statuses
<1> QED BY <1>2 DEF Life

LEMMA KeepsLife ==
    ASSUME TypeOK, NEW q \in Queues, Keeps(q)
    PROVE  Life(q) = Life(queue)
<1>1. queue \in Queues  BY DEF TypeOK
<1> QED BY <1>1, LifeIs DEF Keeps

OneLife(q, i, place) == Life(q) = [Life(queue) EXCEPT ![i] = place]

LEMMA PutsLife ==
    ASSUME TypeOK, NEW q \in Queues, NEW i \in Ids,
           NEW to \in {"queued", "sending", "uncertain"}, Puts(q, i, to)
    PROVE  OneLife(q, i, Placed(to, FALSE))
<1>1. queue \in Queues  BY DEF TypeOK
<1> DEFINE new == [Life(queue) EXCEPT ![i] = Placed(to, FALSE)]
<1>2. ASSUME NEW j \in Ids PROVE Life(q)[j] = new[j]
    <2>0. /\ Life(q)[j] = Placed(Stage(q)[j], j \in Range(q.completed))
          /\ Life(queue)[j] = Placed(Stage(queue)[j], j \in Range(queue.completed))
        BY <1>1, LifeIs
    <2>1. CASE j = i
        <3>1. Stage(q)[i] = to  BY DEF Puts, Stage
        <3>2. Life(q)[j] = Placed(to, FALSE)  BY <2>0, <2>1, <3>1 DEF Placed
        <3>3. new[j] = Placed(to, FALSE)  BY <2>1 DEF Life
        <3> QED BY <3>2, <3>3
    <2>2. CASE j # i
        <3>1. Stage(q)[j] = Stage(queue)[j] /\ q.completed = queue.completed
            BY <2>2 DEF Puts, Stage
        <3>2. new[j] = Life(queue)[j]  BY <2>2 DEF Life
        <3> QED BY <2>0, <3>1, <3>2
    <2> QED BY <2>1, <2>2
<1> QED BY <1>2 DEF Life, OneLife

\* Retiring a message moves no other one, if all that were remembered still are.
LEMMA RetiresLife ==
    ASSUME TypeOK, NEW q \in Queues, NEW i \in Ids, Retires(q, i),
           Range(queue.completed) \subseteq Range(q.completed)
    PROVE  Life(q) = [Life(queue) EXCEPT ![i] = "done"]
<1>1. queue \in Queues /\ queue.completed \in Seq(Ids)  BY DEF TypeOK, Queues
<1>2. i \in Range(q.completed) /\ Range(q.completed) \subseteq Range(queue.completed) \cup {i}
    BY <1>1, RememberHas, RememberOnly DEF Retires
<1> DEFINE new == [Life(queue) EXCEPT ![i] = "done"]
<1>3. ASSUME NEW j \in Ids PROVE Life(q)[j] = new[j]
    <2>0. /\ Life(q)[j] = Placed(Stage(q)[j], j \in Range(q.completed))
          /\ Life(queue)[j] = Placed(Stage(queue)[j], j \in Range(queue.completed))
        BY <1>1, LifeIs
    <2>1. CASE j = i
        <3>1. Stage(q)[i] = "absent"  BY DEF Retires, Stage
        <3>2. Life(q)[j] = "done"  BY <1>2, <2>0, <2>1, <3>1 DEF Placed
        <3>3. new[j] = "done"  BY <2>1 DEF Life
        <3> QED BY <3>2, <3>3
    <2>2. CASE j # i
        <3>1. Stage(q)[j] = Stage(queue)[j]  BY <2>2 DEF Retires, Stage
        <3>2. j \in Range(q.completed) <=> j \in Range(queue.completed)  BY <1>2, <2>2
        <3>3. new[j] = Life(queue)[j]  BY <2>2 DEF Life
        <3>4. CASE j \in Range(q.completed)
            <4>1. (j \in Range(q.completed)) = TRUE /\ (j \in Range(queue.completed)) = TRUE
                BY <3>2, <3>4
            <4> QED BY <2>0, <3>1, <3>3, <4>1
        <3>5. CASE j \notin Range(q.completed)
            <4>1. (j \in Range(q.completed)) = FALSE /\ (j \in Range(queue.completed)) = FALSE
                BY <3>2, <3>5
            <4> QED BY <2>0, <3>1, <3>3, <4>1
        <3> QED BY <3>4, <3>5
    <2> QED BY <2>1, <2>2
<1> QED BY <1>3 DEF Life

\* Nothing happens to a deleted chat any more.
LEMMA ClearedStays ==
    ASSUME TypeOK, Inv, KnownInv, Inv', Cleared, [Next]_vars
    PROVE  Cleared' /\ UNCHANGED <<requests, gone>> /\ queue' = queue
<1>1. gone' /\ gone /\ UNCHANGED requests
    <2>1. Engine  BY NextDoes DEF Does, Effect
    <2> QED BY <2>1 DEF Engine, Issues, Cleared
<1>2. CASE Restart
    <2>1. queue' = NoQueue  BY <1>2 DEF Restart, Cleared, NoQueue
    <2>2. dispatch'.phase = "none" /\ \A t \in Ticks : tick'[t].at = "idle"
        BY <1>2 DEF Restart, NoDispatch, NoTick
    <2> QED BY <1>1, <2>1, <2>2 DEF Cleared, TypeOK
<1>3. CASE RemoveSession
    BY <1>1, <1>3 DEF RemoveSession, Cleared, TypeOK
<1>4. CASE ~Restart /\ ~RemoveSession
    <2>1. UNCHANGED removed
        BY <1>4 DEF Next, vars, server, gate, engine, Act, EnqueueNew, EnqueueAgain, RemoveEntry,
               SubmitEdit, OpenEdit, ReleaseEdit, RenewEdit, Pause, Resume, Reorder, Request,
               Dispatch, EngineBusy, EngineIdle, Claim, ClaimNothing, ClaimFails, AbandonClaim,
               BeginSend, PreparationFails, IssueRequest, EngineAnswers, SendFails,
               FinishDelivery, FinishFails, ConfirmSend, Settle, SettleFails, GoTo, MoveTo,
               Records, FailsTo, DispatcherOnly, LeaseRunsOut, EngineAccepts, Tick, TickBegin,
               TickLands, TickFails, TickDropsLeases, TickStarts, TickConfirms, TickMisses,
               TickTo, TickOnly, Stop, BeginDeletion, EngineDeletes, MarkRemoved, EndDeletion,
               GateOnly
    <2>2. CASE removed
        BY <1>1, <2>1, <2>2 DEF Cleared, Inv, RemovedStaysEmpty, TypeOK
    <2>3. CASE ~removed
        <3>1. /\ dispatch.phase = "none" /\ \A t \in Ticks : tick[t].at = "idle"
              /\ queue = NoQueue /\ queue.order = <<>>
            BY <2>3 DEF Cleared, NoQueue
        <3>2. ~Act
            BY <1>1 DEF Act, EnqueueNew, EnqueueAgain, RemoveEntry, SubmitEdit, OpenEdit,
                        ReleaseEdit, RenewEdit, Pause, Resume, Reorder, Request
        <3>3. ~Dispatch
            BY <3>1 DEF Dispatch, EngineBusy, EngineIdle, Claim, ClaimNothing, ClaimFails,
                        AbandonClaim, BeginSend, PreparationFails, IssueRequest, EngineAnswers,
                        SendFails, FinishDelivery, FinishFails, ConfirmSend, Settle, SettleFails
        <3>4. ~\E i \in Ids : LeaseRunsOut(i)  BY <3>1, NoQueueFacts DEF LeaseRunsOut
        <3>5. ~\E i \in Ids : EngineAccepts(i)  BY <1>1 DEF EngineAccepts
        <3>6. ~\E t \in Ticks : Tick(t)
            BY <3>1 DEF Tick, TickBegin, TickLands, TickFails, TickDropsLeases, TickStarts,
                        TickConfirms, TickMisses, Expiring
        <3>7. ~BeginDeletion /\ ~EngineDeletes  BY <1>1 DEF BeginDeletion, EngineDeletes
        <3>8. Stop \/ MarkRemoved \/ EndDeletion \/ UNCHANGED vars
            BY <1>4, <3>2, <3>3, <3>4, <3>5, <3>6, <3>7 DEF Next
        <3>9. UNCHANGED <<queue, dispatch, tick>>
            BY <3>8 DEF Stop, MarkRemoved, EndDeletion, GateOnly, vars
        <3> QED BY <1>1, <3>1, <3>9 DEF Cleared, TypeOK
    <2> QED BY <2>2, <2>3
<1> QED BY <1>2, <1>3, <1>4

\* The mapping reads the life of the messages off the queue.
LEMMA LifeNow == [i \in Ids |-> LifeOf(i)] = Life(queue)
BY DEF Life, LifeOf
LEMMA LifeNext == [i \in Ids |-> LifeOf(i)]' = Life(queue')
BY DEF Life, LifeOf

Handed == { i \in Ids : requests[i] > 0 }

\* A step of a chat that was not deleted yet takes one message along the life
\* that MessageDelivery allows, or none, and no message asked for waits.
Onwards == HandedInv' /\ [Delivery!Next]_(Delivery!vars)

LEMMA LivingStep ==
    ASSUME TypeOK, TypeOK', Inv, Inv', KnownInv, HandedInv, ~Cleared, [Next]_vars, ~RemoveSession,
           Range(queue.completed) \subseteq Range(queue'.completed)
    PROVE  Onwards
<1> DEFINE L == Life(queue)
           M == Life(queue')
<1>0. /\ queue \in Queues /\ queue' \in Queues /\ Consistent(queue)
      /\ \A i \in Ids : requests[i] \in Nat /\ requests'[i] \in Nat
    BY DEF TypeOK, Inv
<1>1. /\ seen.forgotten = {} /\ seen'.forgotten = {} /\ ~removed
      /\ \A i \in Ids : requests[i] # 0 => /\ L[i] \in {"attempting", "doubtful", "done"}
                                           /\ ~(NotYetAsked /\ dispatch.id = i)
    <2>1. Forgets  BY NextDoes DEF Does, Effect
    <2>2. ~removed  BY DEF Inv, RemovedStaysEmpty, RemovedIsGone, Cleared
    <2>3. seen.forgotten = {}  BY DEF HandedInv
    <2>4. seen'.forgotten = {}  BY <2>1, <2>3 DEF Forgets
    <2> QED BY <2>2, <2>3, <2>4 DEF HandedInv
<1>2. Change /\ Asks /\ Engine /\ KnownInv'  BY NextDoes DEF Does, Effect
<1>3. \A i \in Ids : L[i] = Placed(Stage(queue)[i], i \in Range(queue.completed))
    BY <1>0, LifeIs
<1>4. /\ [i \in Ids |-> LifeOf(i)] = L /\ [i \in Ids |-> LifeOf(i)]' = M
      /\ DOMAIN L = Ids
    BY LifeNow, LifeNext DEF Life
\* A message newly asked for, or newly to be asked for, is not both.
<1>5. ASSUME \A i \in Ids : requests'[i] # 0 => M[i] \in {"attempting", "doubtful", "done"},
             UNCHANGED requests, ASSUME NEW i \in Ids, Attempts(i) PROVE requests[i] = 0
      PROVE  HandedInv'
    <2> SUFFICES ASSUME NEW i \in Ids, requests[i] # 0, NotYetAsked', dispatch'.id = i
                 PROVE  FALSE
        BY <1>1, <1>5 DEF HandedInv
    <2>1. (NotYetAsked /\ dispatch.id = i) \/ Attempts(i)  BY <1>2 DEF Asks
    <2> QED BY <1>1, <1>5, <2>1
<1>6. ASSUME NEW i \in Ids, Attempts(i) PROVE requests[i] = 0
    <2>1. Stage(queue)[i] = "queued"  BY <1>6 DEF Attempts, Stage
    <2>2. L[i] = "waiting"  BY <1>3, <2>1 DEF Placed
    <2> QED BY <1>1, <2>2
<1> HIDE DEF L, M
<1>7. CASE Keeps(queue')
    <2>1. M = L  BY <1>0, <1>7, KeepsLife DEF L, M
    <2>2. CASE UNCHANGED <<requests, gone>>
        <3>1. HandedInv'  BY <1>1, <1>5, <1>6, <2>1, <2>2
        <3>2. UNCHANGED Delivery!vars  BY <1>4, <2>1, <2>2 DEF Delivery!vars
        <3> QED BY <3>1, <3>2 DEF Onwards
    <2>3. CASE gone' /\ UNCHANGED requests
        <3>1. HandedInv'  BY <1>1, <1>5, <1>6, <2>1, <2>3
        <3>2. Delivery!Close  BY <1>4, <2>1, <2>3 DEF Delivery!Close
        <3> QED BY <3>1, <3>2 DEF Onwards, Delivery!Next
    <2>4. CASE Issues /\ UNCHANGED gone
        <3>0. dispatch.id \in Ids
            BY <2>4 DEF Issues, TypeOK, DispatchOK, InHand
        <3>1. PICK i \in Ids : /\ i = dispatch.id /\ dispatch.phase = "calling" /\ ~gone
                              /\ requests' = [requests EXCEPT ![i] = @ + 1]
            BY <2>4, <3>0 DEF Issues
        <3>2. requests[i] = 0  BY <1>1, <3>1 DEF NotYetAsked
        <3>3. queue.entry[i].status = "sending"
            BY <1>1, <3>1 DEF Inv, InHandStays, InHand
        <3>4. L[i] = "attempting"
            <4>1. Stage(queue)[i] = "sending"  BY <3>1, <3>3 DEF Stage
            <4> QED BY <1>3, <3>1, <4>1 DEF Placed
        <3>5. \A j \in Ids : requests'[j] = IF j = i THEN 1 ELSE requests[j]
            BY <3>1, <3>2 DEF TypeOK
        <3>6. Handed' = Handed \cup {i} /\ i \notin Handed
            BY <1>0, <3>1, <3>2, <3>5 DEF Handed
        <3>7. Delivery!HandOver(i)
            BY <1>4, <2>1, <2>4, <3>1, <3>4, <3>6 DEF Delivery!HandOver, Handed
        <3>8. ~NotYetAsked'  
            BY <1>2, <3>1, <3>2, <3>5 DEF Asks, Attempts, Puts
        <3>9. HandedInv'
            BY <1>1, <2>1, <3>4, <3>5, <3>8 DEF HandedInv, L, M
        <3> QED BY <3>7, <3>9 DEF Onwards, Delivery!Next
    <2> QED BY <1>2, <2>2, <2>3, <2>4 DEF Engine
<1>8. CASE ~Keeps(queue')
    <2>0. UNCHANGED <<requests, gone>>
        BY <1>2, <1>8 DEF Engine, Issues
    <2>1. Handed' = Handed  BY <2>0 DEF Handed
    \* One message moves, and is not made to wait or new if it was asked for.
    <2>2. ASSUME NEW i \in Ids, NEW to, M = [L EXCEPT ![i] = to],
                 requests[i] # 0 => to \in {"attempting", "doubtful", "done"}
          PROVE  HandedInv'
        <3>1. \A j \in Ids : M[j] = IF j = i THEN to ELSE L[j]  BY <1>4, <2>2
        <3>2. \A j \in Ids : requests'[j] # 0 => M[j] \in {"attempting", "doubtful", "done"}
            BY <1>1, <2>0, <2>2, <3>1
        <3> QED BY <1>5, <1>6, <2>0, <3>2
    <2>3. ASSUME NEW i \in Ids, NEW to \in {"queued", "sending", "uncertain"}, Puts(queue', i, to)
          PROVE  M = [L EXCEPT ![i] = Placed(to, FALSE)]
        <3>1. OneLife(queue', i, Placed(to, FALSE))  BY <1>0, <2>3, PutsLife
        <3> QED BY <3>1 DEF OneLife, L, M
    <2>4. ASSUME NEW i \in Ids, Retires(queue', i) PROVE M = [L EXCEPT ![i] = "done"]
        BY <1>0, <2>4, RetiresLife DEF L, M
    <2>5. /\ Placed("queued", FALSE) = "waiting" /\ Placed("sending", FALSE) = "attempting"
          /\ Placed("uncertain", FALSE) = "doubtful"
        BY DEF Placed
    <2>6. ASSUME NEW i \in Ids, Submits(i) PROVE Onwards
        <3>1. Stage(queue)[i] = "absent" /\ (i \in Range(queue.completed)) = FALSE /\ ~gone
            BY <2>6 DEF Submits, Stage
        <3>2. L[i] = "none"  BY <1>3, <3>1 DEF Placed
        <3>3. M = [L EXCEPT ![i] = "waiting"]  BY <2>3, <2>5, <2>6 DEF Submits
        <3>4. requests[i] = 0  BY <1>1, <3>2
        <3>5. HandedInv'  BY <2>2, <3>3, <3>4
        <3>6. Delivery!Submit(i)
            BY <1>4, <2>0, <2>1, <3>1, <3>2, <3>3 DEF Delivery!Submit, Delivery!Move, Handed
        <3> QED BY <3>5, <3>6 DEF Onwards, Delivery!Next
    <2>7. ASSUME NEW i \in Ids, Withdraws(i) PROVE Onwards
        <3>1. queue.entry[i].status \in {"queued", "failed", "uncertain"}
            <4>1. queue.entry[i] \in Entries  BY <1>0 DEF Queues
            <4> QED BY <2>7, <4>1 DEF Withdraws, RemoveEntry, Editable, Entries, Statuses
        <3>2. Stage(queue)[i] \in {"queued", "uncertain"}  BY <3>1 DEF Stage
        <3>3. L[i] \in {"waiting", "doubtful"}  BY <1>3, <3>2 DEF Placed
        <3>4. M = [L EXCEPT ![i] = "done"]  BY <2>4, <2>7 DEF Withdraws
        <3>5. HandedInv'  BY <2>2, <3>4
        <3>6. Delivery!Withdraw(i)
            BY <1>4, <2>0, <2>1, <3>3, <3>4 DEF Delivery!Withdraw, Delivery!Move, Handed
        <3> QED BY <3>5, <3>6 DEF Onwards, Delivery!Next
    <2>8. ASSUME NEW i \in Ids, Completes(i) PROVE Onwards
        <3>1. requests[i] # 0 /\ i \in Handed
            BY <1>0, <2>8 DEF Completes, KnownInv, ConfirmedIsAccepted, Handed
        <3>2. M = [L EXCEPT ![i] = "done"]  BY <2>4, <2>8 DEF Completes
        <3>3. HandedInv'  BY <2>2, <3>2
        <3>4. CASE L[i] = "done"
            <4>1. M = L  BY <1>4, <3>2, <3>4 DEF L, M, Life
            <4>2. UNCHANGED Delivery!vars  BY <1>4, <2>0, <4>1 DEF Delivery!vars
            <4> QED BY <3>3, <4>2 DEF Onwards
        <3>5. CASE L[i] \in {"attempting", "doubtful"}
            <4>1. Delivery!Complete(i)
                BY <1>4, <2>0, <2>1, <3>1, <3>2, <3>5 DEF Delivery!Complete, Delivery!Move, Handed
            <4> QED BY <3>3, <4>1 DEF Onwards, Delivery!Next
        <3> QED BY <1>1, <3>1, <3>4, <3>5
    <2>9. ASSUME NEW i \in Ids, Attempts(i) PROVE Onwards
        <3>1. /\ ~queue.paused /\ queue.order[1] = i /\ Stage(queue)[i] = "queued"
              /\ queue.entry[i].status = "queued"
            BY <2>9 DEF Attempts, Stage
        <3>2. L[i] = "waiting"  BY <1>3, <3>1 DEF Placed
        <3>3. M = [L EXCEPT ![i] = "attempting"]  BY <2>3, <2>5, <2>9 DEF Attempts
        <3>4. requests[i] = 0 /\ i \notin Handed  BY <1>6, <2>9 DEF Handed
        <3>5. HandedInv'  BY <2>2, <3>3
        <3>6. ASSUME NEW j \in Ids PROVE L[j] \notin {"attempting", "doubtful"}
            <4>1. queue.entry[j].status \notin {"sending", "uncertain"}
                BY <1>0, <3>1 DEF Consistent, SendingFirst, PausedIfUndecided, Has
            <4>2. Stage(queue)[j] \notin {"sending", "uncertain"}  BY <4>1 DEF Stage
            <4> QED BY <1>3, <4>2 DEF Placed
        <3>7. Delivery!Attempt(i)
            BY <1>4, <2>0, <2>1, <3>2, <3>3, <3>4, <3>6
               DEF Delivery!Attempt, Delivery!Busy, Delivery!Move, Handed
        <3> QED BY <3>5, <3>7 DEF Onwards, Delivery!Next
    <2>10. ASSUME NEW i \in Ids, L[i] = "attempting", Puts(queue', i, "uncertain") PROVE Onwards
        <3>1. M = [L EXCEPT ![i] = "doubtful"]  BY <2>3, <2>5, <2>10
        <3>2. HandedInv'  BY <2>2, <3>1
        <3>3. Delivery!Doubt(i)
            BY <1>4, <2>0, <2>1, <2>10, <3>1 DEF Delivery!Doubt, Delivery!Move, Handed
        <3> QED BY <3>2, <3>3 DEF Onwards, Delivery!Next
    <2>11. ASSUME NEW i \in Ids, queue.entry[i].status = "sending" PROVE L[i] = "attempting"
        <3>1. Stage(queue)[i] = "sending"  BY <2>11 DEF Stage
        <3> QED BY <1>3, <3>1 DEF Placed
    <2>12. ASSUME NEW i \in Ids, Doubts(i) PROVE Onwards
        BY <2>10, <2>11, <2>12 DEF Doubts
    <2>13. ASSUME NEW i \in Ids, Settles(i) PROVE Onwards
        <3>1. queue.entry[i].status = "sending"
            BY <1>1, <2>13 DEF Settles, Inv, InHandStays, InHand
        <3>2. L[i] = "attempting"  BY <2>11, <3>1
        <3>3. CASE Puts(queue', i, "uncertain")  BY <2>10, <3>2, <3>3
        <3>4. CASE dispatch.outcome = "prep" /\ Puts(queue', i, "queued")
            <4>1. NotYetAsked /\ dispatch.id = i  BY <2>13, <3>4 DEF Settles, NotYetAsked
            <4>2. requests[i] = 0 /\ i \notin Handed  BY <1>1, <4>1 DEF Handed
            <4>3. M = [L EXCEPT ![i] = "waiting"]  BY <2>3, <2>5, <3>4
            <4>4. HandedInv'  BY <2>2, <4>2, <4>3
            <4>5. Delivery!Refuse(i)
                BY <1>4, <2>0, <2>1, <3>2, <4>2, <4>3 DEF Delivery!Refuse, Delivery!Move, Handed
            <4> QED BY <4>4, <4>5 DEF Onwards, Delivery!Next
        <3> QED BY <2>13, <3>3, <3>4 DEF Settles
    <2>14. ~\E i \in Ids : Reopens(i)  BY <1>1 DEF Reopens
    <2> QED BY <1>2, <1>8, <2>6, <2>7, <2>8, <2>9, <2>12, <2>13, <2>14 DEF Change
<1> QED BY <1>7, <1>8

\* A chat that is deleted drops everything at once.
LEMMA DeliverStep ==
    ASSUME TypeOK, TypeOK', Inv, Inv', KnownInv, HandedInv, [Next]_vars,
           Range(queue.completed) \subseteq Range(queue'.completed) \/ RemoveSession
    PROVE  Onwards
<1>1. /\ [i \in Ids |-> LifeOf(i)] = Life(queue)
      /\ [i \in Ids |-> LifeOf(i)]' = Life(queue')
    BY LifeNow, LifeNext
<1>2. CASE RemoveSession
    <2>1. /\ gone /\ gone' /\ removed' /\ queue' = NoQueue /\ UNCHANGED requests
        BY <1>2 DEF RemoveSession, GateOnly, gate, engine
    <2>2. HandedInv'  BY <2>1 DEF HandedInv, Cleared
    <2>3. Life(queue') = [i \in Ids |-> "none"]
        BY <2>1, NoQueueFacts DEF Life, NoQueue, Absent
    <2>4. Delivery!Discard  BY <1>1, <2>1, <2>3 DEF Delivery!Discard
    <2> QED BY <2>2, <2>4 DEF Onwards, Delivery!Next
<1>3. CASE Cleared
    <2>1. Cleared' /\ UNCHANGED <<requests, gone>> /\ queue' = queue  BY <1>3, ClearedStays
    <2>2. HandedInv'  BY <2>1 DEF HandedInv
    <2>3. UNCHANGED Delivery!vars  BY <1>1, <2>1 DEF Delivery!vars
    <2> QED BY <2>2, <2>3 DEF Onwards
<1>4. CASE ~Cleared /\ ~RemoveSession  BY <1>4, LivingStep
<1> QED BY <1>2, <1>3, <1>4

\* For as long as the queue remembers the messages it is done with, a chat
\* delivers each message at most once, never attempts a doubtful one again and
\* attempts one at a time (the whole of session-message-queue.ts and
\* runtime.ts against what they promise).  An id that slid out of the
\* completed ids is a new message, which the hypothesis rules out.
THEOREM QueueDelivers == Spec /\ Remembers => DeliversOnce
<1> DEFINE Known == TypeOK /\ Inv /\ KnownInv
           Kept == Range(queue.completed) \subseteq Range(queue'.completed) \/ RemoveSession
<1>1. Init => Delivery!Init /\ HandedInv
    <2> SUFFICES ASSUME Init PROVE Delivery!Init /\ HandedInv
        OBVIOUS
    <2>1. /\ ~gone /\ queue = NoQueue /\ \A i \in Ids : requests[i] = 0
          /\ seen.forgotten = {}
        BY DEF Init
    <2>2. Life(queue) = [i \in Ids |-> "none"]
        BY <2>1, NoQueueFacts DEF Life, NoQueue, Absent
    <2>3. HandedInv  BY <2>1 DEF HandedInv
    <2>4. { i \in Ids : requests[i] > 0 } = {}  BY <2>1
    <2>5. Delivery!Init  BY <2>1, <2>2, <2>4, LifeNow DEF Delivery!Init
    <2> QED BY <2>3, <2>5
<1>2. Known /\ Known' /\ HandedInv /\ [Next]_vars /\ [Kept]_vars
         => HandedInv' /\ [Delivery!Next]_(Delivery!vars)
    <2> SUFFICES ASSUME Known, Known', HandedInv, [Next]_vars, [Kept]_vars
                 PROVE  Onwards
        BY DEF Onwards
    <2>1. CASE Kept  BY <2>1, DeliverStep
    <2>2. CASE UNCHANGED vars
        <3>1. Range(queue.completed) \subseteq Range(queue'.completed)  BY <2>2 DEF vars
        <3> QED BY <3>1, DeliverStep
    <2> QED BY <2>1, <2>2
<1>3. Spec => []Known  BY KnownAlways
<1> HIDE DEF Known, Kept
<1>4. Remembers => [][Kept]_vars  BY DEF Remembers, Kept
<1> QED BY <1>1, <1>2, <1>3, <1>4, PTL DEF Spec, DeliversOnce, Delivery!Spec

-----------------------------------------------------------------------------
(* A chat of few messages remembers them all.                              *)

\* Where an id is among the completed ones, and the ticks that are after it.
Spots(s, i) == { n \in 1 .. Len(s) : s[n] = i }
After(i) == { t \in Ticks : i \in Pursued(tick[t]) }

\* An id is entered when its message is retired, and once more by each tick that
\* was after it at that time.
Fits(s) ==
    \A i \in Ids : Cardinality(Spots(s, i)) + Cardinality(After(i)) <= Cardinality(Ticks) + 1
LandsOnce == \A t \in Ticks : tick[t].at = "land" => tick[t].id \notin tick[t].todo

SlotInv ==
    /\ LandsOnce
    /\ Cleared \/ (seen.forgotten = {} /\ Fits(queue.completed))

\* A list is no longer than its entries differ, times how often each is there.
LEMMA LengthBound ==
    ASSUME NEW s \in Seq(Ids), NEW c \in Nat, \A i \in Ids : Cardinality(Spots(s, i)) <= c
    PROVE  Len(s) <= Cardinality(Ids) * c
<1> DEFINE N == 1 .. Len(s)
           upTo(n) == { m \in N : s[m] = s[n] /\ m <= n }
           rank == [n \in N |-> <<s[n], Cardinality(upTo(n))>>]
           T == Ids \X (1 .. c)
<1>1. Len(s) \in Nat /\ IsFiniteSet(N) /\ Cardinality(N) = Len(s) /\ \A n \in N : s[n] \in Ids
    <2>1. Len(s) \in Nat /\ \A n \in N : s[n] \in Ids  BY LenProperties, ElementOfSeq
    <2>2. IsFiniteSet(N) /\ Cardinality(N) = Len(s)
        <3> DEFINE n == Len(s)
        <3>1. n \in Nat  BY <2>1
        <3> HIDE DEF n
        <3>2. IsFiniteSet(1 .. n) /\ Cardinality(1 .. n) = n  BY <3>1, FS_Interval
        <3> QED BY <3>2 DEF n
    <2> QED BY <2>1, <2>2
<1>2. \A n \in N : IsFiniteSet(upTo(n)) /\ Cardinality(upTo(n)) \in 1 .. c
    <2> SUFFICES ASSUME NEW n \in N
                 PROVE  IsFiniteSet(upTo(n)) /\ Cardinality(upTo(n)) \in 1 .. c
        OBVIOUS
    <2>1. s[n] \in Ids  BY <1>1
    <2>2. Spots(s, s[n]) \in SUBSET N /\ upTo(n) \in SUBSET Spots(s, s[n])  BY DEF Spots
    <2>3. IsFiniteSet(Spots(s, s[n]))  BY <1>1, <2>2, FS_Subset
    <2>4. IsFiniteSet(upTo(n)) /\ Cardinality(upTo(n)) <= Cardinality(Spots(s, s[n]))
        BY <2>2, <2>3, FS_Subset
    <2>5. Cardinality(upTo(n)) \in Nat /\ Cardinality(Spots(s, s[n])) \in Nat
        BY <2>3, <2>4, FS_CardinalityType
    <2>6. n \in upTo(n)  BY <1>1
    <2>7. Cardinality(upTo(n)) # 0  BY <2>4, <2>6, FS_EmptySet
    <2>8. Cardinality(Spots(s, s[n])) <= c  BY <2>1
    <2> HIDE DEF upTo
    <2> QED BY <2>4, <2>5, <2>7, <2>8
<1>3. ASSUME NEW m \in N, NEW n \in N, s[m] = s[n], m < n
      PROVE  Cardinality(upTo(m)) # Cardinality(upTo(n))
    <2>1. upTo(m) \in SUBSET upTo(n)  BY <1>1, <1>3
    <2>2. n \in upTo(n) /\ n \notin upTo(m)  BY <1>1, <1>3
    <2>3. IsFiniteSet(upTo(n))  BY <1>2
    <2> HIDE DEF upTo
    <2> QED BY <2>1, <2>2, <2>3, FS_Subset
<1>4. rank \in Injection(N, T)
    <2> HIDE DEF upTo
    <2>1. rank \in [N -> T]
        <3> HIDE DEF N
        <3> QED BY <1>1, <1>2
    <2>2. ASSUME NEW m \in N, NEW n \in N, rank[m] = rank[n] PROVE m = n
        <3>1. s[m] = s[n] /\ Cardinality(upTo(m)) = Cardinality(upTo(n))  BY <2>2
        <3>2. m \in Nat /\ n \in Nat  BY <1>1
        <3>3. ~(m < n) /\ ~(n < m)  BY <1>3, <3>1
        <3> HIDE DEF N
        <3> QED BY <3>2, <3>3
    <2> HIDE DEF N, T, rank
    <2> QED BY <2>1, <2>2 DEF Injection, IsInjective
<1>5. IsFiniteSet(T) /\ Cardinality(T) = Cardinality(Ids) * c
    <2>1. IsFiniteSet(1 .. c) /\ Cardinality(1 .. c) = c  BY FS_Interval
    <2> QED BY <2>1, IdAssumption, FS_Product
<1> HIDE DEF N, T, rank
<1> QED BY <1>1, <1>4, <1>5, FS_Injection

\* Entering an id gives it one place more.
LEMMA SpotsOfAppend ==
    ASSUME NEW s \in Seq(Ids), NEW i \in Ids, NEW j \in Ids
    PROVE  /\ IsFiniteSet(Spots(s, j)) /\ Cardinality(Spots(s, j)) \in Nat
           /\ Cardinality(Spots(Append(s, i), j)) =
                Cardinality(Spots(s, j)) + (IF i = j THEN 1 ELSE 0)
<1> DEFINE all == Append(s, i)
           n == Len(s)
<1>1. n \in Nat /\ Len(all) = n + 1 /\ all[n + 1] = i /\ \A m \in 1 .. n : all[m] = s[m]
    BY AppendProperties, LenProperties
<1>2. IsFiniteSet(Spots(s, j))
    <2>1. Spots(s, j) \in SUBSET (1 .. n) /\ IsFiniteSet(1 .. n)  BY <1>1, FS_Interval DEF Spots
    <2> QED BY <2>1, FS_Subset
<1>3. Spots(all, j) = IF i = j THEN Spots(s, j) \cup {n + 1} ELSE Spots(s, j)
    <2> HIDE DEF all
    <2> QED BY <1>1 DEF Spots
<1>4. n + 1 \notin Spots(s, j)  BY <1>1 DEF Spots
<1> QED BY <1>2, <1>3, <1>4, FS_AddElement, FS_CardinalityType

\* A tick that lands is not after the message any more, nor is another one newly.
LEMMA Landing ==
    ASSUME TypeOK, LandsOnce, NEW t \in Ticks, TickLands(t)
    PROVE  /\ LandsOnce'
           /\ tick[t].id \in Pursued(tick[t]) /\ tick[t].id \notin Pursued(tick'[t])
           /\ \A u \in Ticks : Pursued(tick'[u]) \subseteq Pursued(tick[u])
<1> DEFINE v == [tick[t] EXCEPT !.at = "scan", !.id = NoId]
<1>1. tick \in [Ticks -> TickStates] /\ tick[t].at = "land" /\ tick' = [tick EXCEPT ![t] = v]
    BY DEF TypeOK, TickLands, SetTick
<1>2. v.at = "scan" /\ v.todo = tick[t].todo
    BY <1>1 DEF TickStates
<1> HIDE DEF v
<1>3. tick'[t] = v /\ \A u \in Ticks \ {t} : tick'[u] = tick[u]
    BY <1>1
<1>4. Pursued(v) = tick[t].todo /\ tick[t].id \notin tick[t].todo
    BY <1>1, <1>2 DEF Pursued, LandsOnce
<1>5. \A u \in Ticks : Pursued(tick'[u]) \subseteq Pursued(tick[u])
    BY <1>3, <1>4 DEF Pursued
<1>6. LandsOnce'
    BY <1>2, <1>3 DEF LandsOnce
<1> QED BY <1>1, <1>3, <1>4, <1>5, <1>6 DEF Pursued

\* Only a tick that begins is after other messages than before, undecided ones.
LEMMA Pursuit ==
    ASSUME TypeOK, LandsOnce, [Next]_vars
    PROVE  /\ LandsOnce'
           /\ \A t \in Ticks : \A i \in Pursued(tick'[t]) :
                i \in Pursued(tick[t]) \/ queue.entry[i].status = "uncertain"
<1> DEFINE Good(t, v) ==
        /\ v.at = "land" => v.id \notin v.todo
        /\ \A i \in Pursued(v) : i \in Pursued(tick[t]) \/ queue.entry[i].status = "uncertain"
<1>0. /\ tick \in [Ticks -> TickStates]
      /\ \A t \in Ticks : Good(t, tick[t]) /\ Good(t, NoTick)
    BY DEF TypeOK, LandsOnce, Pursued, NoTick
<1>1. SUFFICES \A t \in Ticks : Good(t, tick'[t])
    BY <1>1 DEF LandsOnce
<1> HIDE DEF Good
<1>2. CASE UNCHANGED tick  BY <1>0, <1>2
<1>3. CASE Restart
    <2>1. tick' = [t \in Ticks |-> NoTick]  BY <1>3 DEF Restart
    <2> QED BY <1>0, <2>1
<1>4. ASSUME NEW t \in Ticks, NEW v, SetTick(t, v), Good(t, v)
      PROVE  \A u \in Ticks : Good(u, tick'[u])
    <2>1. tick' = [tick EXCEPT ![t] = v]  BY <1>4 DEF SetTick
    <2>2. tick'[t] = v /\ \A u \in Ticks \ {t} : tick'[u] = tick[u]  BY <1>0, <2>1
    <2> QED BY <1>0, <1>4, <2>2
<1>5. ASSUME NEW t \in Ticks, Tick(t) PROVE \A u \in Ticks : Good(u, tick'[u])
    <2>0. tick[t] \in TickStates  BY <1>0
    <2>1. CASE TickBegin(t)
        <3> DEFINE v == [NoTick EXCEPT !.at = "scan", !.leased = Leased(queue),
                                !.todo = { i \in Ids : /\ queue.entry[i].status = "uncertain"
                                                       /\ IsPrompt(i) }]
        <3>1. SetTick(t, v) \/ SetTick(t, NoTick)  BY <2>1 DEF TickBegin, TickTo
        <3>2. v.at = "scan" /\ \A i \in v.todo : queue.entry[i].status = "uncertain"
            BY DEF NoTick
        <3> HIDE DEF v
        <3>3. Good(t, v)  BY <3>2 DEF Good, Pursued
        <3> QED BY <1>0, <1>4, <3>1, <3>3
    <2>2. CASE TickLands(t)
        <3> DEFINE v == [tick[t] EXCEPT !.at = "scan", !.id = NoId]
        <3>1. SetTick(t, v)  BY <2>2 DEF TickLands
        <3>2. v.at = "scan" /\ v.todo = tick[t].todo  BY <2>0 DEF TickStates
        <3> HIDE DEF v
        <3>3. Good(t, v)  BY <3>2 DEF Good, Pursued
        <3> QED BY <1>4, <3>1, <3>3
    <2>3. CASE TickFails(t) \/ TickStarts(t)
        <3>1. SetTick(t, NoTick)  BY <2>3 DEF TickFails, TickStarts, TickTo
        <3> QED BY <1>0, <1>4, <3>1
    <2>4. CASE TickDropsLeases(t)
        <3> DEFINE v == [tick[t] EXCEPT !.leased = FALSE]
        <3>1. SetTick(t, v) /\ tick[t].at = "scan"  BY <2>4 DEF TickDropsLeases, Expiring
        <3>2. v.at = "scan" /\ v.todo = tick[t].todo  BY <2>0, <3>1 DEF TickStates
        <3> HIDE DEF v
        <3>3. Good(t, v)  BY <3>2 DEF Good, Pursued
        <3> QED BY <1>4, <3>1, <3>3
    <2>5. ASSUME NEW i \in Ids, TickConfirms(t, i) PROVE \A u \in Ticks : Good(u, tick'[u])
        <3> DEFINE v == [Scanned(t, i) EXCEPT !.at = "land", !.id = i]
        <3>1. SetTick(t, v) /\ i \in tick[t].todo  BY <2>5 DEF TickConfirms, TickTo
        <3>2. v.id = i /\ v.todo = tick[t].todo \ {i}  BY <2>0 DEF Scanned, TickStates
        <3> HIDE DEF v
        <3>3. Good(t, v)  BY <3>1, <3>2 DEF Good, Pursued
        <3> QED BY <1>4, <3>1, <3>3
    <2>6. ASSUME NEW i \in Ids, TickMisses(t, i) PROVE \A u \in Ticks : Good(u, tick'[u])
        <3> DEFINE v == Scanned(t, i)
        <3>1. SetTick(t, v) /\ tick[t].at = "scan"  BY <2>6 DEF TickMisses, TickTo
        <3>2. v.at = "scan" /\ v.todo = tick[t].todo \ {i}  BY <2>0, <3>1 DEF Scanned, TickStates
        <3> HIDE DEF v
        <3>3. Good(t, v)  BY <3>2 DEF Good, Pursued
        <3> QED BY <1>4, <3>1, <3>3
    <2> QED BY <1>5, <2>1, <2>2, <2>3, <2>4, <2>5, <2>6 DEF Tick
<1>6. UNCHANGED tick \/ Restart \/ \E t \in Ticks : Tick(t)
    <2>1. CASE Act
        BY <2>1 DEF Act, EnqueueNew, EnqueueAgain, RemoveEntry, SubmitEdit, OpenEdit,
               ReleaseEdit, RenewEdit, Pause, Resume, Reorder, Request, server, gate, engine
    <2>2. CASE Dispatch
        BY <2>2 DEF Dispatch, EngineBusy, EngineIdle, Claim, ClaimNothing, ClaimFails, AbandonClaim,
               BeginSend, PreparationFails, IssueRequest, EngineAnswers, SendFails,
               FinishDelivery, FinishFails, ConfirmSend, Settle, SettleFails, GoTo, MoveTo,
               Records, FailsTo, DispatcherOnly, server, gate, engine
    <2>3. CASE \E i \in Ids : LeaseRunsOut(i) \/ EngineAccepts(i)
        BY <2>3 DEF LeaseRunsOut, EngineAccepts, server, gate, engine
    <2>4. CASE Stop \/ BeginDeletion \/ EngineDeletes \/ MarkRemoved \/ RemoveSession \/ EndDeletion
        BY <2>4 DEF Stop, BeginDeletion, EngineDeletes, MarkRemoved, RemoveSession, EndDeletion,
                    GateOnly
    <2>5. CASE UNCHANGED vars  BY <2>5 DEF vars
    <2> QED BY <2>1, <2>2, <2>3, <2>4, <2>5 DEF Next
<1> QED BY <1>2, <1>3, <1>5, <1>6

\* As many ids as this are always remembered, and each is entered as often as
\* SlotInv says.
LEMMA SlotStep ==
    ASSUME IsFiniteSet(Ticks), Cardinality(Ids) * (Cardinality(Ticks) + 1) <= CompletedLimit,
           TypeOK, TypeOK', Inv, Inv', KnownInv, SlotInv, [Next]_vars
    PROVE  /\ SlotInv'
           /\ Range(queue.completed) \subseteq Range(queue'.completed) \/ RemoveSession
<1> DEFINE s == queue.completed
           T == Cardinality(Ticks)
<1>0. LandsOnce'  BY Pursuit DEF SlotInv
<1>1. s \in Seq(Ids) /\ queue'.completed \in Seq(Ids) /\ T \in Nat
    BY FS_CardinalityType DEF TypeOK, Queues
<1>2. CASE Cleared
    BY <1>0, <1>2, ClearedStays DEF SlotInv
<1>3. CASE RemoveSession
    <2>1. Cleared'  BY <1>3 DEF RemoveSession, GateOnly, gate, engine, Cleared
    <2> QED BY <1>0, <1>3, <2>1 DEF SlotInv
<1>4. CASE ~Cleared /\ ~RemoveSession
    <2>1. seen.forgotten = {} /\ Fits(s)  BY <1>4 DEF SlotInv
    <2>2. Change /\ Forgets  BY NextDoes DEF Does, Effect
    <2>3. \A i \in Ids : /\ IsFiniteSet(After(i)) /\ IsFiniteSet(After(i)')
                         /\ Cardinality(After(i)) \in Nat /\ Cardinality(After(i)') \in Nat
                         /\ Cardinality(After(i)') <= T
        <3> SUFFICES ASSUME NEW i \in Ids
                     PROVE  /\ IsFiniteSet(After(i)) /\ IsFiniteSet(After(i)')
                            /\ Cardinality(After(i)) \in Nat /\ Cardinality(After(i)') \in Nat
                            /\ Cardinality(After(i)') <= T
            OBVIOUS
        <3>1. After(i) \in SUBSET Ticks /\ After(i)' \in SUBSET Ticks  BY DEF After
        <3>2. IsFiniteSet(After(i)) /\ IsFiniteSet(After(i)')  BY <3>1, FS_Subset
        <3> QED BY <3>1, <3>2, FS_Subset, FS_CardinalityType
    \* Nobody new is after an id that is among the completed ones.
    <2>4. ASSUME NEW i \in Ids, i \in Range(s) PROVE After(i)' \subseteq After(i)
        <3>1. queue.entry[i].status = "absent"
            BY <2>4 DEF Inv, Consistent, CompletedIsGone
        <3> QED BY <3>1, Pursuit DEF After, SlotInv
    <2>5. ASSUME NEW i \in Ids, i \notin Range(s) PROVE Cardinality(Spots(s, i)) = 0
        <3>1. DOMAIN s = 1 .. Len(s)  BY <1>1, LenProperties
        <3>2. Spots(s, i) = {}  BY <2>5, <3>1 DEF Spots, Range
        <3> QED BY <3>2, FS_EmptySet
    <2>6. ASSUME queue'.completed = s PROVE Fits(queue.completed)' /\ Range(s) \subseteq Range(queue'.completed)
        <3> SUFFICES ASSUME NEW i \in Ids
                     PROVE  Cardinality(Spots(s, i)) + Cardinality(After(i)') <= T + 1
            BY <2>6 DEF Fits, Spots
        <3>1. CASE i \in Range(s)
            <4>1. Cardinality(After(i)') <= Cardinality(After(i))  BY <2>3, <2>4, <3>1, FS_Subset
            <4>2. Cardinality(Spots(s, i)) \in Nat  BY <1>1, SpotsOfAppend
            <4> QED BY <1>1, <2>1, <2>3, <4>1, <4>2 DEF Fits
        <3>2. CASE i \notin Range(s)
            BY <1>1, <2>3, <2>5, <3>2
        <3> QED BY <3>1, <3>2
    <2>7. ASSUME NEW i \in Ids, i \notin Range(s) \/ LandsOn(i),
                 queue'.completed = Remember(s, i)
          PROVE  Fits(queue.completed)' /\ Range(s) \subseteq Range(queue'.completed)
        <3> DEFINE all == Append(s, i)
        <3>1. \A j \in Ids : Cardinality(Spots(all, j)) + Cardinality(After(j)') <= T + 1
            <4> SUFFICES ASSUME NEW j \in Ids
                         PROVE  Cardinality(Spots(all, j)) + Cardinality(After(j)') <= T + 1
                OBVIOUS
            <4>1. /\ Cardinality(Spots(s, j)) \in Nat
                  /\ Cardinality(Spots(all, j)) = Cardinality(Spots(s, j)) + (IF i = j THEN 1 ELSE 0)
                  /\ Cardinality(Spots(s, j)) + Cardinality(After(j)) <= T + 1
                BY <1>1, <2>1, SpotsOfAppend DEF Fits
            <4> HIDE DEF all
            <4>2. CASE j \notin Range(s)
                BY <1>1, <2>3, <2>5, <4>1, <4>2
            <4>3. CASE j \in Range(s) /\ j # i
                <5>1. Cardinality(After(j)') <= Cardinality(After(j))  BY <2>3, <2>4, <4>3, FS_Subset
                <5> QED BY <1>1, <2>3, <4>1, <4>3, <5>1
            <4>4. CASE j \in Range(s) /\ j = i
                <5>1. PICK t \in Ticks : TickLands(t) /\ tick[t].id = i
                    BY <2>7, <4>4 DEF LandsOn
                <5>2. t \in After(i) /\ t \notin After(i)' /\ After(i)' \subseteq After(i)
                    BY <2>4, <4>4, <5>1, Landing DEF After, SlotInv
                <5>3. Cardinality(After(i)') <= Cardinality(After(i)) /\ Cardinality(After(i)') # Cardinality(After(i))
                    BY <2>3, <5>2, FS_Subset
                <5> QED BY <1>1, <2>3, <4>1, <4>4, <5>3
            <4> QED BY <4>2, <4>3, <4>4
        <3>2. all \in Seq(Ids) /\ Len(all) \in Nat /\ Range(s) \subseteq Range(all)
            <4>1. /\ all \in Seq(Ids) /\ Len(all) = Len(s) + 1 /\ Len(s) \in Nat
                  /\ DOMAIN s = 1 .. Len(s) /\ DOMAIN all = 1 .. Len(all)
                  /\ \A n \in 1 .. Len(s) : all[n] = s[n]
                BY <1>1, AppendProperties, LenProperties
            <4> HIDE DEF all, s
            <4> QED BY <4>1 DEF Range
        <3>3. \A j \in Ids : Cardinality(Spots(all, j)) <= T + 1
            <4> SUFFICES ASSUME NEW j \in Ids PROVE Cardinality(Spots(all, j)) <= T + 1
                OBVIOUS
            <4>1. Cardinality(Spots(all, j)) \in Nat  BY <3>2, SpotsOfAppend
            <4> HIDE DEF all
            <4> QED BY <1>1, <2>3, <3>1, <4>1
        <3>4. Len(all) <= CompletedLimit
            <4> HIDE DEF all, T
            <4>1. Len(all) <= Cardinality(Ids) * (T + 1)  BY <1>1, <3>2, <3>3, LengthBound
            <4> DEFINE b == Cardinality(Ids) * (T + 1)
            <4>2. b \in Nat
                <5>1. Cardinality(Ids) \in Nat  BY IdAssumption, FS_CardinalityType
                <5> QED BY <1>1, <5>1
            <4>3. b <= CompletedLimit  BY DEF T
            <4>4. Len(all) <= b  BY <4>1
            <4> HIDE DEF b
            <4> QED BY <3>2, <4>2, <4>3, <4>4, LimitAssumption
        <3>5. queue'.completed = all  BY <2>7, <3>2, <3>4, LimitAssumption DEF Remember
        <3>6. Fits(queue.completed)'  BY <3>1, <3>5 DEF Fits, Spots
        <3> QED BY <3>2, <3>5, <3>6
    <2>8. Fits(queue.completed)' /\ Range(s) \subseteq Range(queue'.completed)
        <3>1. CASE queue'.completed = s  BY <2>6, <3>1
        <3>2. ASSUME NEW i \in Ids, Withdraws(i)
              PROVE  i \notin Range(s) /\ queue'.completed = Remember(s, i)
            BY <3>2 DEF Withdraws, Retires, RemoveEntry, Editable, Inv, Consistent, CompletedIsGone
        <3>3. ASSUME NEW i \in Ids, Completes(i)
              PROVE  (i \notin Range(s) \/ LandsOn(i)) /\ queue'.completed = Remember(s, i)
            BY <2>1, <3>3 DEF Completes, Retires, Inv, Consistent, CompletedIsGone
        <3>4. \/ queue'.completed = s \/ \E i \in Ids : Withdraws(i) \/ Completes(i)
            BY <1>4, <2>2 DEF Change, Keeps, Submits, Attempts, Settles, Doubts, Reopens, Puts
        <3> QED BY <2>7, <3>1, <3>2, <3>3, <3>4
    <2>9. seen'.forgotten = {}  BY <1>4, <2>1, <2>2, <2>8 DEF Forgets
    <2> QED BY <1>0, <2>8, <2>9 DEF SlotInv
<1> QED BY <1>2, <1>3, <1>4

\* A chat of no more messages than the limit leaves room for, in the worst case
\* of overlapping ticks, keeps the whole promise: the hypothesis of
\* QueueDelivers holds of every behaviour.
THEOREM FewAreDelivered ==
    ASSUME IsFiniteSet(Ticks), Cardinality(Ids) * (Cardinality(Ticks) + 1) <= CompletedLimit
    PROVE  Spec => DeliversOnce
<1> DEFINE Known == TypeOK /\ Inv /\ KnownInv
           Kept == Range(queue.completed) \subseteq Range(queue'.completed) \/ RemoveSession
<1>1. Init => SlotInv
    <2> SUFFICES ASSUME Init PROVE SlotInv
        OBVIOUS
    <2>1. /\ queue.completed = <<>> /\ seen.forgotten = {}
          /\ \A t \in Ticks : tick[t].at = "idle" /\ tick[t].todo = {}
        BY DEF Init, NoQueue, NoTick
    <2>2. LandsOnce  BY <2>1 DEF LandsOnce
    <2>3. ASSUME NEW i \in Ids
          PROVE  Cardinality(Spots(queue.completed, i)) + Cardinality(After(i)) <= Cardinality(Ticks) + 1
        <3>1. Spots(queue.completed, i) = {}  BY <2>1 DEF Spots
        <3>2. After(i) = {}  BY <2>1 DEF After, Pursued
        <3> QED BY <3>1, <3>2, FS_EmptySet, FS_CardinalityType
    <2> QED BY <2>1, <2>2, <2>3 DEF SlotInv, Fits
<1>2. Known /\ Known' /\ SlotInv /\ [Next]_vars => SlotInv' /\ Kept
    BY SlotStep
<1>3. Spec => []Known  BY KnownAlways
<1> HIDE DEF Known, Kept
<1>4. Spec => [][Kept]_vars  BY <1>1, <1>2, <1>3, PTL DEF Spec
<1>5. Spec => Remembers  BY <1>4 DEF Remembers, Kept
<1> QED BY <1>5, QueueDelivers

=============================================================================
