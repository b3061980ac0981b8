--------------------- MODULE SessionMessageQueueProofs ---------------------
(***************************************************************************)
(* What the runs of SessionMessageQueue show on small instances, proved    *)
(* for every number of messages, tokens, overlapping ticks, requests,      *)
(* disk faults and restarts.                                               *)
(***************************************************************************)
EXTENDS SessionMessageQueue, SequenceTheorems, FiniteSetTheorems, TLAPS

-----------------------------------------------------------------------------
(* The operations on a queue record.                                       *)

\* Removing an id from the order keeps a sequence of ids.
LEMMA WithoutType ==
    ASSUME NEW s \in Seq(Ids), NEW i \in Ids
    PROVE  Without(s, i) \in Seq(Ids)
<1>1. CASE \E k \in DOMAIN s : s[k] = i
    <2> DEFINE k == CHOOSE k \in DOMAIN s : s[k] = i
    <2>1. k \in 1..Len(s)
        BY <1>1, LenProperties
    <2>2. SubSeq(s, 1, k - 1) \in Seq(Ids) /\ SubSeq(s, k + 1, Len(s)) \in Seq(Ids)
        <3>1. \A n \in 1..Len(s) : s[n] \in Ids  BY ElementOfSeq
        <3>2. Len(s) \in Nat  BY LenProperties
        <3>3. \A n \in 1..(k - 1) : s[n] \in Ids  BY <2>1, <3>1, <3>2
        <3>4. \A n \in (k + 1)..Len(s) : s[n] \in Ids  BY <2>1, <3>1, <3>2
        <3> HIDE DEF k
        <3>5. SubSeq(s, 1, k - 1) \in Seq(Ids)
            BY <2>1, <3>2, <3>3, SubSeqProperties
        <3>6. SubSeq(s, k + 1, Len(s)) \in Seq(Ids)
            BY <2>1, <3>2, <3>4, SubSeqProperties
        <3> QED BY <3>5, <3>6
    <2>3. RemoveAt(s, k) \in Seq(Ids)
        <3> HIDE DEF k
        <3> QED BY <2>2, ConcatProperties DEF RemoveAt
    <2> QED BY <1>1, <2>3 DEF Without
<1>2. CASE ~\E k \in DOMAIN s : s[k] = i
    BY <1>2 DEF Without
<1> QED BY <1>1, <1>2

\* The remembered ids stay a sequence of ids, and the new one is among them.
LEMMA RememberType ==
    ASSUME NEW s \in Seq(Ids), NEW i \in Ids
    PROVE  Remember(s, i) \in Seq(Ids)
<1> DEFINE all == Append(s, i)
<1>1. all \in Seq(Ids) /\ Len(all) \in Nat /\ \A n \in 1..Len(all) : all[n] \in Ids
    BY AppendProperties, LenProperties, ElementOfSeq
<1> HIDE DEF all
<1>2. CASE Len(all) > CompletedLimit
    <2>1. \A n \in (Len(all) - CompletedLimit + 1)..Len(all) : all[n] \in Ids
        BY <1>1, <1>2, LimitAssumption
    <2>2. SubSeq(all, Len(all) - CompletedLimit + 1, Len(all)) \in Seq(Ids)
        BY <1>1, <2>1, LimitAssumption, SubSeqProperties
    <2> QED BY <1>2, <2>2 DEF Remember, all
<1>3. CASE ~(Len(all) > CompletedLimit)
    BY <1>1, <1>3 DEF Remember, all
<1> QED BY <1>2, <1>3

LEMMA RememberHas ==
    ASSUME NEW s \in Seq(Ids), NEW i \in Ids
    PROVE  i \in Range(Remember(s, i))
<1> DEFINE all == Append(s, i)
           n == Len(all)
           kept == SubSeq(all, n - CompletedLimit + 1, n)
<1>1. n \in Nat \ {0} /\ all[n] = i /\ DOMAIN all = 1..n
    BY AppendProperties, LenProperties
<1>2. CASE n > CompletedLimit
    <2>1. Len(kept) = CompletedLimit /\ kept[CompletedLimit] = all[n] /\ DOMAIN kept = 1..CompletedLimit
        BY <1>1, <1>2, LimitAssumption
    <2>2. Remember(s, i) = kept  BY <1>2 DEF Remember
    <2>3. CompletedLimit \in DOMAIN kept /\ kept[CompletedLimit] = i
        BY <1>1, <2>1, LimitAssumption
    <2> HIDE DEF kept
    <2> QED BY <2>2, <2>3 DEF Range
<1>3. CASE ~(n > CompletedLimit)
    <2>1. Remember(s, i) = all  BY <1>3 DEF Remember
    <2>2. n \in DOMAIN all  BY <1>1
    <2> HIDE DEF all
    <2> QED BY <1>1, <2>1, <2>2 DEF Range
<1> QED BY <1>2, <1>3

\* The head of the order stays when another id is removed.
LEMMA WithoutHead ==
    ASSUME NEW s \in Seq(Ids), NEW i \in Ids, s # <<>>, s[1] # i
    PROVE  Without(s, i) # <<>> /\ Without(s, i)[1] = s[1]
<1>1. CASE \E k \in DOMAIN s : s[k] = i
    <2> DEFINE k == CHOOSE k \in DOMAIN s : s[k] = i
    <2>1. k \in 1..Len(s) /\ s[k] = i /\ Len(s) \in Nat
        BY <1>1, LenProperties
    <2>2. k \in 2..Len(s)  BY <2>1
    <2> HIDE DEF k
    <2> DEFINE a == SubSeq(s, 1, k - 1)
               b == SubSeq(s, k + 1, Len(s))
    <2>3. Len(a) = k - 1 /\ a[1] = s[1]  BY <2>1, <2>2
    <2>4. Len(b) \in Nat  BY <2>1, <2>2
    <2>5. Len(a \o b) # 0 /\ (a \o b)[1] = s[1]  BY <2>2, <2>3, <2>4
    <2>6. a \o b # <<>>
        <3> HIDE DEF a, b
        <3> QED BY <2>5, EmptySeq
    <2>7. Without(s, i) = a \o b  BY <1>1 DEF Without, RemoveAt, k
    <2> HIDE DEF a, b
    <2> QED BY <2>5, <2>6, <2>7
<1>2. CASE ~\E k \in DOMAIN s : s[k] = i
    BY <1>2 DEF Without
<1> QED BY <1>1, <1>2

\* What Retire leaves of a queue, and that it stays one.
LEMMA RetireType ==
    ASSUME NEW q \in Queues, NEW i \in Ids
    PROVE  /\ Retire(q, i) \in Queues
           /\ Retire(q, i).entry = [q.entry EXCEPT ![i] = Absent]
           /\ Retire(q, i).order = Without(q.order, i)
           /\ i \in Range(Retire(q, i).completed)
           /\ Retire(q, i).paused = q.paused /\ Retire(q, i).reason = q.reason
           /\ Retire(q, i).restartPause = q.restartPause
           /\ Retire(q, i).resumeRevision = q.resumeRevision
<1> DEFINE o == Without(q.order, i)
           c == Remember(q.completed, i)
           r == [q EXCEPT !.entry[i] = Absent, !.order = o, !.completed = c]
<1>1. q.order \in Seq(Ids) /\ q.completed \in Seq(Ids) /\ q.entry \in [Ids -> Entries]
    BY DEF Queues
<1>2. o \in Seq(Ids) /\ c \in Seq(Ids) /\ i \in Range(c)
    BY <1>1, WithoutType, RememberType, RememberHas
<1>3. Absent \in Entries  BY DEF Absent, Entries, Statuses
<1> HIDE DEF o, c
<1>4. /\ r \in Queues /\ r.entry = [q.entry EXCEPT ![i] = Absent] /\ r.order = o
      /\ r.completed = c
      /\ r.paused = q.paused /\ r.reason = q.reason /\ r.restartPause = q.restartPause
      /\ r.resumeRevision = q.resumeRevision
    <2>1. [q.entry EXCEPT ![i] = Absent] \in [Ids -> Entries]  BY <1>1, <1>3
    <2> QED BY <1>2, <2>1 DEF Queues
<1>5. Retire(q, i) = r  BY DEF Retire, o, c
<1> QED BY <1>2, <1>4, <1>5 DEF o

\* Dropping the leases that ran out changes no status.
LEMMA DropDueType ==
    ASSUME NEW q \in Queues
    PROVE  /\ DropDue(q) \in Queues
           /\ DropDue(q) = [q EXCEPT !.entry = DropDue(q).entry]
           /\ \A i \in Ids : /\ DropDue(q).entry[i].status = q.entry[i].status
                             /\ DropDue(q).entry[i].token \in {NoToken, q.entry[i].token}
<1> DEFINE E == [i \in Ids |-> IF q.entry[i].due THEN Unlease(q.entry[i]) ELSE q.entry[i]]
<1>1. \A i \in Ids : /\ E[i] \in Entries /\ E[i].status = q.entry[i].status
                     /\ E[i].token \in {NoToken, q.entry[i].token}
    <2>1. \A e \in Entries : /\ Unlease(e) \in Entries /\ Unlease(e).status = e.status
                             /\ Unlease(e).token = NoToken
        BY DEF Entries, Unlease
    <2> QED BY <2>1 DEF Queues
<1>2. E \in [Ids -> Entries]  BY <1>1
<1>3. DropDue(q) = [q EXCEPT !.entry = E]  BY DEF DropDue
<1> HIDE DEF E
<1>4. DropDue(q) \in Queues /\ DropDue(q).entry = E  BY <1>2, <1>3 DEF Queues
<1> QED BY <1>1, <1>3, <1>4

\* A write publishes the record it was given, with a later revision.
LEMMA WriteType ==
    ASSUME TypeOK, NEW q \in Queues, NEW owed \in SUBSET Debts, Write(q, owed)
    PROVE  /\ queue' \in Queues /\ seen' \in Observations
           /\ queue' = [q EXCEPT !.revision = queue.revision + 1]
           /\ \A i \in Ids : i \in Range(queue.completed) /\ i \notin seen'.forgotten =>
                                i \in Range(queue'.completed)
           /\ seen.forgotten \subseteq seen'.forgotten
<1>1. queue \in Queues /\ seen \in Observations  BY DEF TypeOK
<1>2. queue' = [q EXCEPT !.revision = queue.revision + 1] /\ queue' \in Queues
    <2>1. queue' = [q EXCEPT !.revision = queue.revision + 1]  BY DEF Write
    <2>2. queue.revision + 1 \in Nat  BY <1>1 DEF Queues
    <2> QED BY <2>1, <2>2 DEF Queues
<1>3. Range(queue.completed) \subseteq Ids
    <2>1. queue.completed \in Seq(Ids)  BY <1>1 DEF Queues
    <2> QED BY <2>1, ElementOfSeq, LenProperties DEF Range
<1>4. q.completed = queue'.completed  BY <1>2 DEF Queues
<1> DEFINE f == seen.forgotten \cup (Range(queue.completed) \ Range(q.completed))
           b == \/ q.resumeRevision # queue.resumeRevision
                \/ seen.resumed /\ dispatch.phase # "claiming"
           d == IF q.resumeRevision # queue.resumeRevision THEN {} ELSE owed
<1>5. seen' = [forgotten |-> f, resumed |-> b, owed |-> d]  BY DEF Write
<1>6. f \in SUBSET Ids /\ b \in BOOLEAN /\ d \in SUBSET Debts
    BY <1>1, <1>3 DEF Observations
<1>7. seen' \in Observations /\ seen'.forgotten = f
    <2> HIDE DEF f, b, d
    <2> QED BY <1>5, <1>6 DEF Observations
<1> QED BY <1>2, <1>4, <1>7

\* start() either leaves the dispatcher alone or begins an idle check.
LEMMA StartType ==
    ASSUME TypeOK, NEW q, Start(q)
    PROVE  /\ DispatchOK(dispatch')
           /\ \/ dispatch' = dispatch
              \/ dispatch.phase = "none" /\ dispatch'.phase = "checking"
BY DEF TypeOK, Start, DispatchOK, Dispatches, NoDispatch, InHand

-----------------------------------------------------------------------------
(* Type correctness.                                                       *)

\* A window's request leaves every variable in its type.
LEMMA RequestType ==
    ASSUME TypeOK, NEW q \in Queues, NEW owed \in SUBSET Debts, Request(q, owed)
    PROVE  TypeOK'
<1>1. queue' \in Queues /\ seen' \in Observations
    BY WriteType DEF Request
<1>2. DispatchOK(dispatch')
    BY StartType DEF Request
<1>3. used' \in [acts : Nat, faults : Nat, restarts : Nat]
    BY DEF Request, TypeOK
<1>4. UNCHANGED <<closing, server, tick, gate, engine>>  BY DEF Request
<1> QED BY <1>1, <1>2, <1>3, <1>4 DEF TypeOK, server, gate, engine

\* An entry stays one when its status, its kind, its token or its lease changes.
LEMMA EntryType ==
    ASSUME NEW e \in Entries
    PROVE  /\ \A status \in Statuses : [e EXCEPT !.status = status] \in Entries
           /\ \A kind \in Kinds : [e EXCEPT !.status = "queued", !.kind = kind] \in Entries
           /\ \A k \in Tokens : [e EXCEPT !.token = k] \in Entries
           /\ [e EXCEPT !.due = TRUE] \in Entries
           /\ Unlease(e) \in Entries
BY KindAssumption DEF Entries, Statuses, Unlease

\* So does each of the requests.
LEMMA ActType == TypeOK /\ Act => TypeOK'
<1> SUFFICES ASSUME TypeOK, Act PROVE TypeOK'
    OBVIOUS
<1>0. queue \in Queues /\ Fresh \in Queues /\ seen.owed \in SUBSET Debts
    BY DropDueType DEF TypeOK, Fresh, Observations
<1>e. Fresh.entry \in [Ids -> Entries] /\ \A i \in Ids : Fresh.entry[i] \in Entries
    BY <1>0 DEF Queues
<1>1. ASSUME NEW i \in Ids, NEW kind \in Kinds, EnqueueNew(i, kind) PROVE TypeOK'
    <2> DEFINE added == [Fresh EXCEPT !.order = Append(@, i),
                                      !.entry[i] = [@ EXCEPT !.status = "queued", !.kind = kind]]
    <2>1. added \in Queues
        <3>1. Append(Fresh.order, i) \in Seq(Ids)
            BY <1>0, AppendProperties DEF Queues
        <3>2. [Fresh.entry EXCEPT ![i] = [@ EXCEPT !.status = "queued", !.kind = kind]]
                \in [Ids -> Entries]
            BY <1>e, EntryType
        <3> QED BY <1>0, <3>1, <3>2 DEF Queues
    <2>2. Unpause(added) \in Queues
        <3> HIDE DEF added
        <3>1. queue.revision + 1 \in Nat  BY <1>0 DEF Queues
        <3> QED BY <2>1, <3>1 DEF Queues, Unpause
    <2>3. seen.owed \ {"restart"} \in SUBSET Debts  BY <1>0
    <2> DEFINE resumes == queue.paused /\ queue.reason = "stop" /\ ~Has(queue, "uncertain")
    <2>4. Request(IF resumes THEN Unpause(added) ELSE added, seen.owed \ {"restart"})
        BY <1>1 DEF EnqueueNew
    <2> HIDE DEF added, resumes
    <2> QED BY <2>1, <2>2, <2>3, <2>4, RequestType
<1>2. ASSUME NEW i \in Ids, EnqueueAgain(i) PROVE TypeOK'
    BY <1>0, <1>2, RequestType DEF EnqueueAgain
<1>3. ASSUME NEW i \in Ids, RemoveEntry(i) PROVE TypeOK'
    <2>1. Retire(Fresh, i) \in Queues  BY <1>0, RetireType
    <2> QED BY <1>0, <1>3, <2>1, RequestType DEF RemoveEntry
<1>4. ASSUME NEW i \in Ids, NEW k \in Tokens, NEW kind \in Kinds, SubmitEdit(i, k, kind)
      PROVE  TypeOK'
    <2> DEFINE e == [Absent EXCEPT !.status = "queued", !.kind = kind, !.last = k]
    <2>1. e \in Entries  BY KindAssumption DEF Absent, Entries, Statuses
    <2> HIDE DEF e
    <2>2. [Fresh EXCEPT !.entry[i] = e] \in Queues  BY <1>0, <2>1 DEF Queues
    <2> QED BY <1>0, <1>4, <2>2, RequestType DEF SubmitEdit, e
<1>5. ASSUME NEW i \in Ids, NEW k \in Tokens, OpenEdit(i, k) PROVE TypeOK'
    <2>1. [Fresh.entry EXCEPT ![i].token = k] \in [Ids -> Entries]
        BY <1>e, EntryType
    <2>2. [Fresh EXCEPT !.entry[i].token = k] \in Queues  BY <1>0, <2>1 DEF Queues
    <2> QED BY <1>0, <1>5, <2>2, RequestType DEF OpenEdit
<1>6. ASSUME NEW i \in Ids, NEW k \in Tokens, ReleaseEdit(i, k) PROVE TypeOK'
    <2>1. [Fresh.entry EXCEPT ![i] = Unlease(@)] \in [Ids -> Entries]
        BY <1>e, EntryType
    <2>2. [Fresh EXCEPT !.entry[i] = Unlease(@)] \in Queues  BY <1>0, <2>1 DEF Queues
    <2> QED BY <1>0, <1>6, <2>2, RequestType DEF ReleaseEdit
<1>7. ASSUME NEW i \in Ids, NEW k \in Tokens, RenewEdit(i, k) PROVE TypeOK'
    BY <1>0, <1>7, RequestType DEF RenewEdit
<1>8. ASSUME NEW why \in {"stop", "none"}, Pause(why) PROVE TypeOK'
    <2>1. [SetPause(Fresh, why) EXCEPT !.restartPause = "none"] \in Queues
        BY <1>0 DEF Queues, SetPause
    <2>2. seen.owed \cup {"user"} \in SUBSET Debts  BY <1>0 DEF Debts
    <2> QED BY <1>8, <2>1, <2>2, RequestType DEF Pause
<1>9. CASE Resume
    <2> DEFINE E == [i \in Ids |-> IF Fresh.entry[i].status = "failed"
                                   THEN [Fresh.entry[i] EXCEPT !.status = "queued"]
                                   ELSE Fresh.entry[i]]
    <2>1. E \in [Ids -> Entries]  BY <1>e, EntryType DEF Statuses
    <2>2. Request(Unpause([Fresh EXCEPT !.entry = E]), {})  BY <1>9 DEF Resume
    <2> HIDE DEF E
    <2>3. queue.revision + 1 \in Nat  BY <1>0 DEF Queues
    <2>4. Unpause([Fresh EXCEPT !.entry = E]) \in Queues
        BY <1>0, <2>1, <2>3 DEF Queues, Unpause
    <2> QED BY <2>2, <2>4, RequestType
<1>10. CASE Reorder
    <2>1. PICK ids \in SetToSeqs(Waiting) : Request([Fresh EXCEPT !.order = InFlight \o ids], seen.owed)
        BY <1>10 DEF Reorder
    <2>2. ids \in Seq(Ids)
        <3>1. Cardinality(Waiting) \in Nat
            BY IdAssumption, FS_Subset, FS_CardinalityType DEF Waiting
        <3>2. ids \in [1..Cardinality(Waiting) -> Ids]  BY DEF SetToSeqs, Waiting
        <3> QED BY <3>1, <3>2, SeqDef
    <2>3. InFlight \in Seq(Ids)
        BY <1>0, ElementOfSeq, EmptySeq, LenProperties DEF InFlight, Queues
    <2>4. InFlight \o ids \in Seq(Ids)  BY <2>2, <2>3, ConcatProperties
    <2>5. [Fresh EXCEPT !.order = InFlight \o ids] \in Queues
        BY <1>0, <2>4 DEF Queues
    <2> QED BY <1>0, <2>1, <2>5, RequestType
<1> QED BY <1>1, <1>2, <1>3, <1>4, <1>5, <1>6, <1>7, <1>8, <1>9, <1>10 DEF Act

\* A write of the dispatcher or a tick leaves a session that is removed closed.
LEMMA ClosingType ==
    ASSUME TypeOK, UNCHANGED removed,
           \/ UNCHANGED closing \/ Landed \/ WriteFails
           \/ \E q \in Queues, owed \in SUBSET Debts : WriteHere(q, owed)
    PROVE  closing' \in {"open", "writing", "closed"} /\ (removed' => closing' = "closed")
BY DEF TypeOK, Landed, WriteFails, WriteHere

\* The dispatcher moves on, writes, or fails to write.
LEMMA DispatcherTypes ==
    ASSUME TypeOK, NEW d, DispatchOK(d)
    PROVE  /\ MoveTo(d) => TypeOK'
           /\ FailsTo(d) => TypeOK'
           /\ \A q \in Queues, owed \in SUBSET Debts : Records(q, owed, d) => TypeOK'
<1>1. MoveTo(d) => TypeOK'
    BY DEF MoveTo, DispatcherOnly, DispatchOK, TypeOK, server, gate, engine
<1>2. ASSUME FailsTo(d) PROVE TypeOK'
    <2>1. used' \in [acts : Nat, faults : Nat, restarts : Nat]
        BY <1>2 DEF FailsTo, WriteFails, TypeOK
    <2>2. UNCHANGED <<queue, seen, engine>> /\ dispatch' = d /\ DispatcherOnly
        BY <1>2 DEF FailsTo, WriteFails
    <2>3. closing' \in {"open", "writing", "closed"} /\ (removed' => closing' = "closed")
        BY <1>2, <2>2, ClosingType DEF FailsTo, DispatcherOnly, server
    <2> QED BY <2>1, <2>2, <2>3 DEF DispatcherOnly, DispatchOK, TypeOK, server, gate, engine
<1>3. ASSUME NEW q \in Queues, NEW owed \in SUBSET Debts, Records(q, owed, d) PROVE TypeOK'
    <2>1. queue' \in Queues /\ seen' \in Observations
        BY <1>3, WriteType DEF Records, WriteHere
    <2>2. UNCHANGED <<used, engine>> /\ dispatch' = d /\ DispatcherOnly
        BY <1>3 DEF Records, WriteHere
    <2>3. closing' \in {"open", "writing", "closed"} /\ (removed' => closing' = "closed")
        BY <1>3, <2>2, ClosingType DEF Records, DispatcherOnly, server
    <2> QED BY <2>1, <2>2, <2>3 DEF DispatcherOnly, DispatchOK, TypeOK, server, gate, engine
<1> QED BY <1>1, <1>2, <1>3

\* Every step of the dispatcher leaves every variable in its type.
LEMMA DispatchType == TypeOK /\ Dispatch => TypeOK'
<1> SUFFICES ASSUME TypeOK, Dispatch PROVE TypeOK'
    OBVIOUS
<1>0. /\ queue \in Queues /\ queue.entry \in [Ids -> Entries]
      /\ queue.order \in Seq(Ids) /\ queue.revision \in Nat
      /\ dispatch \in Dispatches /\ (dispatch.phase \in InHand => dispatch.id \in Ids)
      /\ dispatch.phase = "returned" => dispatch.outcome \in Results
      /\ seen.owed \in SUBSET Debts
    BY DEF TypeOK, DispatchOK, Queues, Observations
<1>1. DispatchOK(NoDispatch)
    BY DEF DispatchOK, NoDispatch, Dispatches, InHand
<1>2. CASE EngineBusy \/ AbandonClaim
    BY <1>1, <1>2, DispatcherTypes DEF EngineBusy, AbandonClaim
<1>3. CASE EngineIdle
    <2>1. DispatchOK([dispatch EXCEPT !.phase = "claiming"])
        BY <1>0 DEF DispatchOK, Dispatches, InHand
    <2> QED BY <1>3, <2>1, DispatcherTypes DEF EngineIdle, GoTo
<1>4. CASE Claim
    <2> DEFINE h == queue.order[1]
               d == [phase |-> "claimed", id |-> h, revision |-> queue.revision,
                     outcome |-> "none"]
    <2>1. h \in Ids
        BY <1>0, <1>4, EmptySeq, ElementOfSeq DEF Claim, MayClaim, HeadQueued
    <2>2. DispatchOK(d)
        BY <1>0, <2>1 DEF DispatchOK, Dispatches, InHand
    <2>3. [queue EXCEPT !.entry[h].status = "sending"] \in Queues
        <3> HIDE DEF h
        <3>1. [queue.entry EXCEPT ![h].status = "sending"] \in [Ids -> Entries]
            BY <1>0, <2>1, EntryType DEF Statuses
        <3> QED BY <1>0, <3>1 DEF Queues
    <2> QED BY <1>0, <1>4, <2>2, <2>3, DispatcherTypes DEF Claim
<1>5. CASE ClaimNothing \/ ClaimFails
    BY <1>0, <1>1, <1>5, DispatcherTypes DEF ClaimNothing, ClaimFails
<1>6. CASE BeginSend
    <2>1. DispatchOK([dispatch EXCEPT !.phase = "calling"])
        BY <1>0, <1>6 DEF BeginSend, DispatchOK, Dispatches, InHand
    <2> QED BY <1>6, <2>1, DispatcherTypes DEF BeginSend, GoTo
<1>7. CASE PreparationFails
    <2>1. DispatchOK([dispatch EXCEPT !.phase = "settling", !.outcome = "prep"])
        BY <1>0, <1>7 DEF PreparationFails, DispatchOK, Dispatches, InHand
    <2> QED BY <1>7, <2>1, DispatcherTypes DEF PreparationFails
<1>8. CASE IssueRequest
    <2>1. DispatchOK([dispatch EXCEPT !.phase = "issued"])
        BY <1>0, <1>8 DEF IssueRequest, DispatchOK, Dispatches, InHand
    <2>2. requests' \in [Ids -> Nat]
        BY <1>0, <1>8 DEF IssueRequest, TypeOK, InHand
    <2> QED BY <1>8, <2>1, <2>2
            DEF IssueRequest, DispatcherOnly, DispatchOK, TypeOK, server, gate
<1>9. CASE EngineAnswers
    <2>1. PICK result \in Results :
              MoveTo([dispatch EXCEPT !.phase = "returned", !.outcome = result])
        BY <1>9 DEF EngineAnswers
    <2>2. DispatchOK([dispatch EXCEPT !.phase = "returned", !.outcome = result])
        BY <1>0, <1>9 DEF EngineAnswers, DispatchOK, Dispatches, InHand
    <2> QED BY <2>1, <2>2, DispatcherTypes
<1>10. CASE SendFails
    <2>1. DispatchOK([dispatch EXCEPT !.phase = "erred", !.outcome = "unknown"])
        BY <1>0, <1>10 DEF SendFails, DispatchOK, Dispatches, InHand
    <2> QED BY <1>10, <2>1, DispatcherTypes DEF SendFails
<1>11. CASE FinishDelivery
    <2> DEFINE sent == Retire(queue, dispatch.id)
    <2>1. sent \in Queues
        BY <1>0, <1>11, RetireType DEF FinishDelivery, InHand
    <2>2. PauseApplies => SetPause(sent, dispatch.outcome) \in Queues
        <3> SUFFICES ASSUME PauseApplies PROVE SetPause(sent, dispatch.outcome) \in Queues
            OBVIOUS
        <3> HIDE DEF sent
        <3>1. dispatch.outcome \in {"stop", "error"}
            BY <1>0, <1>11 DEF PauseApplies, FinishDelivery, Results
        <3> QED BY <2>1, <3>1 DEF SetPause, Queues
    <2> DEFINE q == IF PauseApplies THEN SetPause(sent, dispatch.outcome) ELSE sent
    <2>3. q \in Queues  BY <2>1, <2>2
    <2>4. Records(q, seen.owed, NoDispatch)  BY <1>11 DEF FinishDelivery
    <2> HIDE DEF q, sent
    <2> QED BY <1>0, <1>1, <2>3, <2>4, DispatcherTypes
<1>12. CASE FinishFails
    <2>1. DispatchOK([dispatch EXCEPT !.phase = "erred", !.outcome = "unknown"])
        BY <1>0, <1>12 DEF FinishFails, DispatchOK, Dispatches, InHand
    <2> QED BY <1>12, <2>1, DispatcherTypes DEF FinishFails
<1>13. CASE ConfirmSend
    <2>1. DispatchOK([dispatch EXCEPT !.phase = "settling", !.outcome = "confirmed"])
          /\ DispatchOK([dispatch EXCEPT !.phase = "settling"])
        BY <1>0, <1>13 DEF ConfirmSend, DispatchOK, Dispatches, InHand
    <2> QED BY <1>1, <1>13, <2>1, DispatcherTypes DEF ConfirmSend, GoTo
<1>14. CASE Settle
    <2> DEFINE id == dispatch.id
               marked == IF queue.entry[id].status = "absent" THEN queue
                         ELSE [queue EXCEPT !.entry[id].status = Unsettled(dispatch.outcome)]
    <2>1. id \in Ids  BY <1>0, <1>14 DEF Settle, InHand
    <2>2. marked \in Queues
        <3> HIDE DEF id
        <3>1. Unsettled(dispatch.outcome) \in Statuses  BY DEF Unsettled, Statuses
        <3>2. [queue.entry EXCEPT ![id].status = Unsettled(dispatch.outcome)] \in [Ids -> Entries]
            BY <1>0, <2>1, <3>1, EntryType
        <3> QED BY <1>0, <3>2 DEF Queues
    <2>3. SetPause(marked, "error") \in Queues
        <3> HIDE DEF marked
        <3> QED BY <2>2 DEF SetPause, Queues
    <2>4. Retire(queue, id) \in Queues  BY <1>0, <2>1, RetireType
    <2>5. Records(IF dispatch.outcome = "confirmed" THEN Retire(queue, id)
                  ELSE SetPause(marked, "error"), seen.owed, NoDispatch)
        BY <1>14 DEF Settle
    <2> HIDE DEF marked, id
    <2> QED BY <1>0, <1>1, <2>3, <2>4, <2>5, DispatcherTypes
<1>15. CASE SettleFails
    BY <1>1, <1>15, DispatcherTypes DEF SettleFails
<1> QED BY <1>2, <1>3, <1>4, <1>5, <1>6, <1>7, <1>8, <1>9, <1>10, <1>11, <1>12, <1>13,
           <1>14, <1>15 DEF Dispatch

\* A timer tick leaves every variable in its type.
LEMMA TickType == ASSUME NEW t \in Ticks PROVE TypeOK /\ Tick(t) => TypeOK'
<1> SUFFICES ASSUME TypeOK, Tick(t) PROVE TypeOK'
    OBVIOUS
<1> DEFINE OK(v) == v \in TickStates /\ (v.at = "land" => v.id \in Ids)
<1>0. queue \in Queues /\ seen.owed \in SUBSET Debts /\ OK(tick[t]) /\ OK(NoTick)
    BY DEF TypeOK, Observations, NoTick, TickStates
<1>1. ASSUME NEW v, OK(v), tick' = [tick EXCEPT ![t] = v]
      PROVE  tick' \in [Ticks -> TickStates] /\ \A u \in Ticks : tick'[u].at = "land" => tick'[u].id \in Ids
    BY <1>1 DEF TypeOK
<1>2. ASSUME NEW v, OK(v), TickTo(t, v), UNCHANGED dispatch \/ Start(queue) PROVE TypeOK'
    <2>1. DispatchOK(dispatch')
        BY <1>2, StartType DEF TypeOK, DispatchOK
    <2>2. UNCHANGED <<queue, closing, seen, used, server, gate, engine>>
        BY <1>2 DEF TickTo, TickOnly
    <2>3. tick' \in [Ticks -> TickStates] /\ \A u \in Ticks : tick'[u].at = "land" => tick'[u].id \in Ids
        BY <1>1, <1>2 DEF TickTo, SetTick
    <2> QED BY <2>1, <2>2, <2>3 DEF TypeOK, server, gate, engine
<1>3. ASSUME NEW q \in Queues, WriteHere(q, seen.owed), UNCHANGED dispatch, TickOnly,
             NEW v, OK(v), SetTick(t, v)
      PROVE TypeOK'
    <2>1. queue' \in Queues /\ seen' \in Observations
        BY <1>0, <1>3, WriteType DEF WriteHere
    <2>2. tick' \in [Ticks -> TickStates] /\ \A u \in Ticks : tick'[u].at = "land" => tick'[u].id \in Ids
        BY <1>1, <1>3 DEF SetTick
    <2>3. UNCHANGED <<dispatch, used, server, gate, engine>>
        BY <1>3 DEF TickOnly, WriteHere
    <2>4. closing' \in {"open", "writing", "closed"} /\ (removed' => closing' = "closed")
        BY <1>0, <1>3, <2>3, ClosingType DEF server
    <2> QED BY <2>1, <2>2, <2>3, <2>4 DEF TypeOK, DispatchOK, server, gate, engine
<1>4. CASE TickBegin(t)
    <2> DEFINE v == [NoTick EXCEPT !.at = "scan", !.leased = Leased(queue),
                            !.todo = { i \in Ids : /\ queue.entry[i].status = "uncertain"
                                                   /\ IsPrompt(i) }]
    <2>1. OK(v)  BY DEF NoTick, TickStates, Leased
    <2>2. (TickTo(t, v) /\ UNCHANGED dispatch) \/ (TickTo(t, NoTick) /\ Start(queue))
        BY <1>4 DEF TickBegin
    <2> HIDE DEF v, OK
    <2> QED BY <1>0, <1>2, <2>1, <2>2
<1>5. CASE TickLands(t)
    <2> DEFINE left == Retire(queue, tick[t].id)
               q == IF LiftsPause(left) THEN [left EXCEPT !.paused = FALSE, !.reason = "none"]
                    ELSE left
               v == [tick[t] EXCEPT !.at = "scan", !.id = NoId]
    <2>1. left \in Queues  BY <1>0, <1>5, RetireType DEF TickLands
    <2>2. [left EXCEPT !.paused = FALSE, !.reason = "none"] \in Queues
        <3> HIDE DEF left
        <3> QED BY <2>1 DEF Queues
    <2>3. OK(v)  BY <1>0 DEF TickStates
    <2>4. WriteHere(q, seen.owed) /\ UNCHANGED dispatch /\ TickOnly /\ SetTick(t, v)
        BY <1>5 DEF TickLands
    <2>5. q \in Queues  BY <2>1, <2>2
    <2> HIDE DEF q, v, OK
    <2> QED BY <1>3, <2>3, <2>4, <2>5
<1>6. CASE TickFails(t)
    <2>1. UNCHANGED <<queue, seen, dispatch, server, gate, engine>> /\ SetTick(t, NoTick)
        BY <1>6 DEF TickFails, WriteFails, TickOnly
    <2>2. used' \in [acts : Nat, faults : Nat, restarts : Nat]
        BY <1>6 DEF TickFails, WriteFails, TypeOK
    <2>3. tick' \in [Ticks -> TickStates] /\ \A u \in Ticks : tick'[u].at = "land" => tick'[u].id \in Ids
        BY <1>0, <1>1, <2>1 DEF SetTick
    <2>4. closing' \in {"open", "writing", "closed"} /\ (removed' => closing' = "closed")
        BY <1>6, <2>1, ClosingType DEF TickFails, server
    <2> QED BY <2>1, <2>2, <2>3, <2>4 DEF TypeOK, DispatchOK, server, gate, engine
<1>7. CASE TickDropsLeases(t)
    <2>1. DropDue(queue) \in Queues  BY <1>0, DropDueType
    <2>2. OK([tick[t] EXCEPT !.leased = FALSE])  BY <1>0 DEF TickStates
    <2> QED BY <1>3, <1>7, <2>1, <2>2 DEF TickDropsLeases
<1>8. CASE TickStarts(t)
    BY <1>0, <1>2, <1>8 DEF TickStarts
<1>9. ASSUME NEW i \in Ids, TickConfirms(t, i) PROVE TypeOK'
    <2> DEFINE v == [Scanned(t, i) EXCEPT !.at = "land", !.id = i]
    <2>1. OK(v)  BY <1>0 DEF Scanned, TickStates
    <2>2. TickTo(t, v) /\ UNCHANGED dispatch  BY <1>9 DEF TickConfirms
    <2> HIDE DEF v, OK
    <2> QED BY <1>2, <2>1, <2>2
<1>10. ASSUME NEW i \in Ids, TickMisses(t, i) PROVE TypeOK'
    <2>1. OK(Scanned(t, i))  BY <1>0 DEF Scanned, TickStates
    <2> QED BY <1>2, <1>10, <2>1 DEF TickMisses
<1> QED BY <1>4, <1>5, <1>6, <1>7, <1>8, <1>9, <1>10 DEF Tick

\* The file as the next process reads it is a queue again.
LEMMA LoadedType ==
    ASSUME queue \in Queues
    PROVE  /\ Interrupted \in Queues /\ Loaded \in Queues
           /\ Interrupted.entry = [i \in Ids |-> Restored(queue.entry[i])]
           /\ Loaded.entry = Interrupted.entry /\ Loaded.order = queue.order
           /\ Loaded.completed = queue.completed
<1> DEFINE E == [i \in Ids |-> Restored(queue.entry[i])]
           q == [queue EXCEPT !.entry = E]
<1>1. \A i \in Ids : queue.entry[i] \in Entries  BY DEF Queues
<1>2. \A i \in Ids : Restored(queue.entry[i]) \in Entries
    <2> SUFFICES ASSUME NEW i \in Ids PROVE Restored(queue.entry[i]) \in Entries
        OBVIOUS
    <2>1. Unlease(queue.entry[i]) \in Entries  BY <1>1, EntryType
    <2>2. [Unlease(queue.entry[i]) EXCEPT !.status = "uncertain"] \in Entries
        BY <2>1, EntryType DEF Statuses
    <2> QED BY <2>1, <2>2 DEF Restored
<1>3. E \in [Ids -> Entries]  BY <1>2
<1>4. Interrupted = IF Has(queue, "sending") THEN SetPause(q, "error") ELSE q
    BY DEF Interrupted
<1> HIDE DEF E
<1>5. /\ Interrupted \in Queues /\ Interrupted.entry = E
      /\ Interrupted.order = queue.order /\ Interrupted.completed = queue.completed
    BY <1>3, <1>4 DEF Queues, SetPause
<1>6. Loaded \in Queues /\ Loaded.entry = E /\ Loaded.order = queue.order
      /\ Loaded.completed = queue.completed
    <2>1. CASE LiftsItself(Interrupted) /\ Has(Interrupted, "queued")
        <3> DEFINE why == IF Has(Interrupted, "uncertain") THEN "interrupted" ELSE "waiting"
        <3>1. Loaded = [SetPause(Interrupted, "stop") EXCEPT !.restartPause = why]
            BY <2>1 DEF Loaded
        <3>2. why \in {"none", "interrupted", "waiting"}  OBVIOUS
        <3> HIDE DEF why
        <3> QED BY <1>5, <3>1, <3>2 DEF SetPause, Queues
    <2>2. CASE ~(LiftsItself(Interrupted) /\ Has(Interrupted, "queued"))
        BY <1>5, <2>2 DEF Loaded
    <2> QED BY <2>1, <2>2
<1> QED BY <1>5, <1>6 DEF E

LEMMA NoQueueType == NoQueue \in Queues
<1>1. Absent \in Entries  BY DEF Absent, Entries, Statuses
<1>2. [i \in Ids |-> Absent] \in [Ids -> Entries]  BY <1>1
<1> QED BY <1>2, EmptySeq DEF NoQueue, Queues

\* The initial state, and every step from a state of the type.
LEMMA InitType == Init => TypeOK
<1> SUFFICES ASSUME Init PROVE TypeOK
    OBVIOUS
<1>1. DispatchOK(dispatch)  BY DEF Init, DispatchOK, NoDispatch, Dispatches, InHand
<1>2. tick \in [Ticks -> TickStates] /\ \A t \in Ticks : tick[t].at # "land"
    BY DEF Init, NoTick, TickStates
<1>3. seen \in Observations /\ used \in [acts : Nat, faults : Nat, restarts : Nat]
    BY DEF Init, Observations
<1> QED BY <1>1, <1>2, <1>3, NoQueueType DEF Init, TypeOK

LEMMA NextType == TypeOK /\ [Next]_vars => TypeOK'
<1> SUFFICES ASSUME TypeOK, [Next]_vars PROVE TypeOK'
    OBVIOUS
<1>1. CASE Act  BY <1>1, ActType
<1>2. CASE Dispatch  BY <1>2, DispatchType
<1>3. ASSUME NEW i \in Ids, LeaseRunsOut(i) PROVE TypeOK'
    <2>0. queue \in Queues /\ queue.entry \in [Ids -> Entries]  BY DEF TypeOK, Queues
    <2>1. [queue.entry EXCEPT ![i].due = TRUE] \in [Ids -> Entries]
        BY <2>0, EntryType
    <2>2. queue' \in Queues
        BY <1>3, <2>0, <2>1 DEF LeaseRunsOut, Queues
    <2> QED BY <1>3, <2>2 DEF LeaseRunsOut, TypeOK, DispatchOK, server, gate, engine
<1>4. ASSUME NEW i \in Ids, EngineAccepts(i) PROVE TypeOK'
    BY <1>4 DEF EngineAccepts, TypeOK, DispatchOK, server, gate
<1>5. ASSUME NEW t \in Ticks, Tick(t) PROVE TypeOK'  BY <1>5, TickType
<1>6. CASE Stop
    BY <1>6 DEF Stop, TypeOK, DispatchOK, gate, engine
<1>7. CASE Restart
    <2>0. queue \in Queues /\ queue.revision + 1 \in Nat  BY DEF TypeOK, Queues
    <2>1. queue' \in Queues
        <3>1. Loaded \in Queues  BY <2>0, LoadedType
        <3>2. [Loaded EXCEPT !.revision = queue.revision + 1] \in Queues
            BY <2>0, <3>1 DEF Queues
        <3> QED BY <1>7, <3>2, NoQueueType DEF Restart
    <2>2. DispatchOK(dispatch')
        BY <1>7 DEF Restart, DispatchOK, NoDispatch, Dispatches, InHand
    <2>3. tick' \in [Ticks -> TickStates] /\ \A t \in Ticks : tick'[t].at # "land"
        BY <1>7 DEF Restart, NoTick, TickStates
    <2>4. seen' \in Observations
        BY <1>7 DEF Restart, TypeOK, Observations, Debts
    <2>5. used' \in [acts : Nat, faults : Nat, restarts : Nat]
        BY <1>7 DEF Restart, TypeOK
    <2> QED BY <1>7, <2>1, <2>2, <2>3, <2>4, <2>5 DEF Restart, TypeOK, engine
<1>8. CASE BeginDeletion \/ EngineDeletes \/ EndDeletion
    <2>1. /\ UNCHANGED <<queue, closing, removed, seen>> /\ GateOnly
          /\ deleting' \in BOOLEAN /\ gone' \in BOOLEAN
        BY <1>8 DEF BeginDeletion, EngineDeletes, EndDeletion, TypeOK
    <2> QED BY <2>1 DEF GateOnly, TypeOK, DispatchOK, engine
<1>9. CASE RemoveSession
    <2>1. Range(queue.completed) \subseteq Ids
        <3>1. queue.completed \in Seq(Ids)  BY DEF TypeOK, Queues
        <3> QED BY <3>1, ElementOfSeq, LenProperties DEF Range
    <2>2. seen' \in Observations
        BY <1>9, <2>1 DEF RemoveSession, TypeOK, Observations
    <2> QED BY <1>9, <2>2, NoQueueType
            DEF RemoveSession, GateOnly, TypeOK, DispatchOK, gate, engine
<1>10. CASE MarkRemoved
    <2>1. closing' \in {"writing", "closed"} /\ ~removed /\ UNCHANGED removed
        BY <1>10 DEF MarkRemoved, TypeOK
    <2> QED BY <1>10, <2>1 DEF MarkRemoved, GateOnly, TypeOK, DispatchOK, gate, engine
<1>11. CASE UNCHANGED vars
    BY <1>11 DEF vars, TypeOK, DispatchOK, server, gate, engine
<1> QED BY <1>1, <1>2, <1>3, <1>4, <1>5, <1>6, <1>7, <1>8, <1>9, <1>10, <1>11
    DEF Next

\* Every variable keeps its type through requests, sends, ticks, crashes and
\* deletions; in particular the order and the completed ids are sequences of
\* ids and a finished delivery has a result.
THEOREM TypeCorrect == Spec => []TypeOK
<1> QED BY InitType, NextType, PTL DEF Spec

=============================================================================
