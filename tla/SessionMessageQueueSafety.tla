---------------------- MODULE SessionMessageQueueSafety ----------------------
(***************************************************************************)
(* The safety properties of SessionMessageQueue, proved for every value of *)
(* its constants.  One invariant carries them all: Inv relates a queue     *)
(* record to itself (Consistent), to the dispatcher, to the ticks under    *)
(* way and to what the engine was ever asked to do.                        *)
(***************************************************************************)
EXTENDS SessionMessageQueueProofs

-----------------------------------------------------------------------------
(* The inductive invariant.                                                *)

\* What holds of a queue record by itself, also between two writes.
PausedIfUndecided(q) == Has(q, "uncertain") => q.paused
RestartIsStop(q) ==
    q.restartPause # "none" => q.paused /\ q.reason = "stop" /\ ~Has(q, "sending")
SendingFirst(q) ==
    \A i \in Ids : q.entry[i].status = "sending" => q.order # <<>> /\ q.order[1] = i
CompletedIsGone(q) == \A i \in Range(q.completed) : q.entry[i].status = "absent"

Consistent(q) ==
    PausedIfUndecided(q) /\ RestartIsStop(q) /\ SendingFirst(q) /\ CompletedIsGone(q)

\* The ids whose confirmation a tick is after, and what became of them since.
Pursued(v) == v.todo \cup (IF v.at = "land" THEN {v.id} ELSE {})
Past(i) ==
    \/ i \in seen.forgotten
    \/ queue.entry[i].status = "uncertain"
    \/ queue.entry[i].status = "absent" /\ i \in Range(queue.completed)

\* The dispatcher has the message in hand and did not ask for it yet.
NotYetAsked == \/ dispatch.phase \in {"claimed", "calling"}
               \/ dispatch.phase = "settling" /\ dispatch.outcome = "prep"

NoFileIsEmpty == queue.revision = 0 => queue = NoQueue
RemovedIsGone == removed => gone
NobodyEditsASend ==
    \A i \in Ids \ seen.forgotten :
        queue.entry[i].status \in {"sending", "uncertain"} => queue.entry[i].token = NoToken
TicksPursueThePast == removed \/ \A t \in Ticks : \A i \in Pursued(tick[t]) : Past(i)
RestartHoldsDispatch == queue.restartPause # "none" => dispatch.phase \notin InHand
ErredIsUnknown == dispatch.phase = "erred" => dispatch.outcome = "unknown"

\* An id that was asked for is being sent, undecided or completed, and the
\* dispatcher is past the request, unless the chat is deleted.
AskedIsPast ==
    \A i \in Ids \ seen.forgotten :
        /\ requests[i] <= 1
        /\ requests[i] # 0 /\ ~gone =>
              /\ queue.entry[i].status \in {"sending", "uncertain"} \/ i \in Range(queue.completed)
              /\ ~(NotYetAsked /\ dispatch.id = i)

Inv ==
    /\ Consistent(queue)
    /\ NoFileIsEmpty /\ RemovedIsGone /\ RemovedStaysEmpty /\ DeletionExcludesSend
    /\ NobodyEditsASend /\ TicksPursueThePast /\ RestartHoldsDispatch
    /\ ErredIsUnknown /\ InHandStays /\ AskedIsPast

-----------------------------------------------------------------------------
(* Operations on a queue record keep it consistent.                        *)

\* The bounded list of completed ids gains only the id it was given.
LEMMA RememberOnly ==
    ASSUME NEW s \in Seq(Ids), NEW i \in Ids
    PROVE  Range(Remember(s, i)) \subseteq Range(s) \cup {i}
<1> DEFINE all == Append(s, i)
           n == Len(all)
           m == n - CompletedLimit
           kept == SubSeq(all, m + 1, n)
<1>1. n \in Nat /\ DOMAIN all = 1..n /\ Len(s) \in Nat /\ DOMAIN s = 1..Len(s)
    BY AppendProperties, LenProperties
<1>2. \A k \in 1..n : all[k] \in Range(s) \cup {i}
    <2> SUFFICES ASSUME NEW k \in 1..n PROVE all[k] \in Range(s) \cup {i}
        OBVIOUS
    <2>1. CASE k \in 1..Len(s)
        <3>1. all[k] = s[k]  BY <2>1, AppendProperties
        <3>2. s[k] \in Range(s)  BY <1>1, <2>1 DEF Range
        <3> QED BY <3>1, <3>2
    <2>2. CASE k \notin 1..Len(s)
        <3>1. k = Len(s) + 1  BY <1>1, <2>2, AppendProperties
        <3> QED BY <3>1, AppendProperties
    <2> QED BY <2>1, <2>2
<1>3. CASE n > CompletedLimit
    <2>1. DOMAIN kept = 1..CompletedLimit /\ \A k \in 1..CompletedLimit : kept[k] = all[m + k]
        BY <1>1, <1>3, LimitAssumption
    <2>2. \A k \in 1..CompletedLimit : m + k \in 1..n
        BY <1>1, <1>3, LimitAssumption
    <2>3. Remember(s, i) = kept  BY <1>3 DEF Remember
    <2> HIDE DEF all, kept, n, m
    <2> QED BY <1>2, <2>1, <2>2, <2>3 DEF Range
<1>4. CASE ~(n > CompletedLimit)
    <2>1. Remember(s, i) = all  BY <1>4 DEF Remember
    <2> HIDE DEF all, n
    <2> QED BY <1>1, <1>2, <2>1 DEF Range
<1> QED BY <1>3, <1>4

\* What remains of a consistent record when an entry is retired is consistent.
LEMMA RetireConsistent ==
    ASSUME NEW q \in Queues, NEW i \in Ids, Consistent(q)
    PROVE  /\ Consistent(Retire(q, i)) /\ Retire(q, i).entry[i] = Absent
           /\ \A j \in Ids \ {i} : Retire(q, i).entry[j] = q.entry[j]
<1> DEFINE r == Retire(q, i)
<1>1. q.entry \in [Ids -> Entries] /\ q.order \in Seq(Ids) /\ q.completed \in Seq(Ids)
    BY DEF Queues
<1>2. /\ r.entry[i] = Absent /\ \A j \in Ids \ {i} : r.entry[j] = q.entry[j]
      /\ r.order = Without(q.order, i) /\ r.completed = Remember(q.completed, i)
      /\ r.paused = q.paused /\ r.reason = q.reason /\ r.restartPause = q.restartPause
    <2>1. r.completed = Remember(q.completed, i)
        BY DEF Retire, Queues
    <2>2. /\ r.entry = [q.entry EXCEPT ![i] = Absent] /\ r.order = Without(q.order, i)
          /\ r.paused = q.paused /\ r.reason = q.reason /\ r.restartPause = q.restartPause
        BY RetireType
    <2> HIDE DEF r
    <2> QED BY <1>1, <2>1, <2>2
<1>3. Range(r.completed) \subseteq Range(q.completed) \cup {i}
    BY <1>1, <1>2, RememberOnly
<1> HIDE DEF r
<1>4. \A j \in Ids : r.entry[j].status # "absent" => r.entry[j] = q.entry[j] /\ j # i
    BY <1>2 DEF Absent
<1>5. SendingFirst(r)
    <2> SUFFICES ASSUME NEW j \in Ids, r.entry[j].status = "sending"
                 PROVE  r.order # <<>> /\ r.order[1] = j
        BY DEF SendingFirst
    <2>1. q.order # <<>> /\ q.order[1] = j /\ j # i
        BY <1>4 DEF Consistent, SendingFirst
    <2> QED BY <1>1, <1>2, <2>1, WithoutHead
<1>6. CompletedIsGone(r)
    <2>1. Range(q.completed) \subseteq Ids
        BY <1>1, ElementOfSeq, LenProperties DEF Range
    <2> QED BY <1>2, <1>3, <2>1 DEF Consistent, CompletedIsGone, Absent
<1>7. PausedIfUndecided(r) /\ RestartIsStop(r)
    BY <1>2, <1>4 DEF Consistent, PausedIfUndecided, RestartIsStop, Has
<1> QED BY <1>2, <1>5, <1>6, <1>7 DEF Consistent, r

\* Changing the pause, and the status of entries that are there to "queued"
\* or "failed", keeps the order and the completed ids right.
LEMMA MarkConsistent ==
    ASSUME NEW q \in Queues, NEW r \in Queues, Consistent(q),
           r.order = q.order, r.completed = q.completed,
           \A i \in Ids : \/ r.entry[i].status = q.entry[i].status
                          \/ /\ q.entry[i].status # "absent"
                             /\ r.entry[i].status \in {"queued", "failed", "uncertain"},
           PausedIfUndecided(r), RestartIsStop(r)
    PROVE  Consistent(r)
<1>1. SendingFirst(r)  BY DEF Consistent, SendingFirst
<1>2. CompletedIsGone(r)
    <2>1. Range(q.completed) \subseteq Ids
        <3>1. q.completed \in Seq(Ids)  BY DEF Queues
        <3> QED BY <3>1, ElementOfSeq, LenProperties DEF Range
    <2> QED BY <2>1 DEF Consistent, CompletedIsGone
<1> QED BY <1>1, <1>2 DEF Consistent

\* The leases a request drops first.
LEMMA FreshConsistent ==
    ASSUME TypeOK, Consistent(queue)
    PROVE  /\ Fresh \in Queues /\ Consistent(Fresh)
           /\ \A i \in Ids : /\ Fresh.entry[i].status = queue.entry[i].status
                             /\ Fresh.entry[i].token \in {NoToken, queue.entry[i].token}
           /\ Fresh.order = queue.order /\ Fresh.completed = queue.completed
           /\ Fresh.paused = queue.paused /\ Fresh.reason = queue.reason
           /\ Fresh.restartPause = queue.restartPause
<1>1. queue \in Queues  BY DEF TypeOK
<1> DEFINE f == DropDue(queue)
<1>2. /\ f \in Queues /\ f = [queue EXCEPT !.entry = f.entry]
      /\ \A i \in Ids : /\ f.entry[i].status = queue.entry[i].status
                        /\ f.entry[i].token \in {NoToken, queue.entry[i].token}
    BY <1>1, DropDueType
<1> HIDE DEF f
<1>3. /\ f.order = queue.order /\ f.completed = queue.completed
      /\ f.paused = queue.paused /\ f.reason = queue.reason
      /\ f.restartPause = queue.restartPause
    BY <1>1, <1>2 DEF Queues
<1>4. PausedIfUndecided(f) /\ RestartIsStop(f)
    BY <1>2, <1>3 DEF Consistent, PausedIfUndecided, RestartIsStop, Has
<1>5. Consistent(f)  BY <1>1, <1>2, <1>3, <1>4, MarkConsistent
<1> QED BY <1>2, <1>3, <1>5 DEF Fresh, f

-----------------------------------------------------------------------------
(* The steps that neither claim a message nor ask for one, nor restart.    *)

\* What such a step does to a message whose id is remembered: one being sent
\* stays so until the dispatcher lets go of it, an undecided one can only be
\* completed, and no other joins them.
Quiet(i) ==
    LET was == queue.entry[i]
        is == queue'.entry[i]
        finished == is.status = "absent" /\ i \in Range(queue'.completed)
    IN /\ was.status = "sending" =>
              \/ is.status = "sending"
              \/ /\ dispatch'.phase \notin InHand
                 /\ \/ is.status = "uncertain" \/ finished
                    \/ is.status = "failed" /\ NotYetAsked /\ dispatch.id = i
       /\ was.status = "uncertain" => is.status = "uncertain" \/ finished
       /\ is.status \in {"sending", "uncertain"} =>
              was.status \in {"sending", "uncertain"} /\ is.token \in {NoToken, was.token}
       /\ i \in Range(queue.completed) => i \in Range(queue'.completed)

QuietStep ==
    /\ Consistent(queue') /\ NoFileIsEmpty' /\ RemovedStaysEmpty'
    /\ queue'.restartPause \in {"none", queue.restartPause}
    /\ seen.forgotten \subseteq seen'.forgotten
    /\ seen'.forgotten \subseteq seen.forgotten \cup Range(queue.completed)
    /\ \A i \in Ids \ seen'.forgotten : Quiet(i)

\* What every step must do: keep the invariant, and send nothing back to wait.
NothingRequeued ==
    \A i \in Ids \ seen.forgotten :
       LET was == queue.entry[i].status
           is == queue'.entry[i].status
       IN /\ was = "sending" => is # "queued"
          /\ was = "uncertain" => is \in {"uncertain", "absent"}
Safely == Inv' /\ NothingRequeued

\* What it does to the dispatcher.
Onward ==
    /\ dispatch'.phase \in InHand => dispatch.phase \in InHand /\ dispatch'.id = dispatch.id
    /\ NotYetAsked' => NotYetAsked
    /\ ErredIsUnknown'

\* The invariant survives a quiet step.
LEMMA QuietInv ==
    ASSUME TypeOK, TypeOK', Inv, QuietStep, Onward, DeletionExcludesSend',
           UNCHANGED <<removed, gone, requests>>,
           \A t \in Ticks : \A i \in Pursued(tick'[t]) : removed \/ Past(i)
    PROVE  Safely
<1>0. seen.forgotten \subseteq seen'.forgotten /\ \A i \in Ids \ seen'.forgotten : Quiet(i)
    BY DEF QuietStep
<1>1. NobodyEditsASend'
    <2> SUFFICES ASSUME NEW i \in Ids \ seen'.forgotten,
                        queue'.entry[i].status \in {"sending", "uncertain"}
                 PROVE  queue'.entry[i].token = NoToken
        BY DEF NobodyEditsASend
    <2>1. /\ queue.entry[i].status \in {"sending", "uncertain"}
          /\ queue'.entry[i].token \in {NoToken, queue.entry[i].token}
        BY <1>0 DEF Quiet
    <2>2. i \in Ids \ seen.forgotten  BY <1>0
    <2> QED BY <2>1, <2>2 DEF Inv, NobodyEditsASend
<1>2. TicksPursueThePast'
    <2> SUFFICES ASSUME ~removed, NEW t \in Ticks, NEW i \in Pursued(tick'[t]), i \notin seen'.forgotten
                 PROVE  \/ queue'.entry[i].status = "uncertain"
                        \/ queue'.entry[i].status = "absent" /\ i \in Range(queue'.completed)
        BY DEF TicksPursueThePast, Past, Pursued
    <2>1. i \in Ids  BY DEF TypeOK, TickStates, Pursued
    <2>2. Quiet(i) /\ i \notin seen.forgotten  BY <1>0, <2>1
    <2>3. \/ queue.entry[i].status = "uncertain"
          \/ queue.entry[i].status = "absent" /\ i \in Range(queue.completed)
        BY <2>2 DEF Past
    <2>4. CASE queue.entry[i].status = "uncertain"  BY <2>2, <2>4 DEF Quiet
    <2>5. CASE i \in Range(queue.completed)
        <3>1. i \in Range(queue'.completed)  BY <2>2, <2>5 DEF Quiet
        <3> QED BY <3>1 DEF QuietStep, Consistent, CompletedIsGone
    <2> QED BY <2>3, <2>4, <2>5
<1>3. RestartHoldsDispatch'
    BY DEF Inv, RestartHoldsDispatch, QuietStep, Onward
<1>4. InHandStays'
    <2> SUFFICES ASSUME dispatch'.phase \in InHand, ~removed, dispatch'.id \notin seen'.forgotten
                 PROVE  /\ queue'.entry[dispatch'.id].status = "sending"
                        /\ queue'.entry[dispatch'.id].token = NoToken
        BY DEF InHandStays
    <2> DEFINE i == dispatch.id
    <2>1. dispatch'.id = i /\ i \in Ids \ seen.forgotten /\ Quiet(i)
        BY <1>0 DEF Onward, TypeOK, DispatchOK
    <2>2. queue.entry[i].status = "sending" /\ queue.entry[i].token = NoToken
        BY <2>1 DEF Inv, InHandStays, Onward
    <2> QED BY <2>1, <2>2 DEF Quiet
<1>5. AskedIsPast'
    <2> SUFFICES ASSUME NEW i \in Ids \ seen'.forgotten
                 PROVE  /\ requests[i] <= 1
                        /\ requests[i] # 0 /\ ~gone =>
                              /\ \/ queue'.entry[i].status \in {"sending", "uncertain"}
                                 \/ i \in Range(queue'.completed)
                              /\ ~(NotYetAsked' /\ dispatch'.id = i)
        BY DEF AskedIsPast
    <2>1. i \in Ids \ seen.forgotten /\ Quiet(i)  BY <1>0
    <2>2. requests[i] <= 1  BY <2>1 DEF Inv, AskedIsPast
    <2>3. ASSUME requests[i] # 0, ~gone
          PROVE  /\ \/ queue'.entry[i].status \in {"sending", "uncertain"}
                    \/ i \in Range(queue'.completed)
                 /\ ~(NotYetAsked' /\ dispatch'.id = i)
        <3>1. /\ queue.entry[i].status \in {"sending", "uncertain"} \/ i \in Range(queue.completed)
              /\ ~(NotYetAsked /\ dispatch.id = i)
            BY <2>1, <2>3 DEF Inv, AskedIsPast
        <3>2. \/ queue'.entry[i].status \in {"sending", "uncertain"}
              \/ i \in Range(queue'.completed)
            BY <2>1, <3>1 DEF Quiet
        <3>3. ~(NotYetAsked' /\ dispatch'.id = i)
            BY <3>1 DEF Onward, NotYetAsked, InHand
        <3> QED BY <3>2, <3>3
    <2> QED BY <2>2, <2>3
<1>6. NothingRequeued
    <2>1. ASSUME NEW i \in seen'.forgotten, i \notin seen.forgotten
          PROVE  queue.entry[i].status = "absent"
        BY <2>1 DEF QuietStep, Inv, Consistent, CompletedIsGone
    <2>2. ASSUME NEW i \in Ids \ seen'.forgotten
          PROVE  /\ queue.entry[i].status = "sending" => queue'.entry[i].status # "queued"
                 /\ queue.entry[i].status = "uncertain" =>
                       queue'.entry[i].status \in {"uncertain", "absent"}
        BY <1>0 DEF Quiet
    <2> QED BY <2>1, <2>2 DEF NothingRequeued
<1> QED BY <1>1, <1>2, <1>3, <1>4, <1>5, <1>6 DEF Inv, QuietStep, Onward, RemovedIsGone, Safely

\* A write is quiet if the record it publishes is.
QuietOn(q, i) ==
    LET was == queue.entry[i]
        is == q.entry[i]
    IN /\ was.status = "sending" => is.status = "sending"
       /\ was.status = "uncertain" =>
              is.status = "uncertain" \/ (is.status = "absent" /\ i \in Range(q.completed))
       /\ is.status \in {"sending", "uncertain"} =>
              was.status \in {"sending", "uncertain"} /\ is.token \in {NoToken, was.token}

\* A write publishes the record it was given, and forgets only completed ids.
LEMMA WriteShape ==
    ASSUME TypeOK, NEW q \in Queues, NEW owed \in SUBSET Debts, Write(q, owed), ~removed',
           Consistent(q), q.restartPause \in {"none", queue.restartPause}
    PROVE  /\ Consistent(queue') /\ NoFileIsEmpty' /\ RemovedStaysEmpty'
           /\ queue'.restartPause \in {"none", queue.restartPause}
           /\ seen.forgotten \subseteq seen'.forgotten
           /\ seen'.forgotten \subseteq seen.forgotten \cup Range(queue.completed)
           /\ queue'.entry = q.entry /\ queue'.completed = q.completed
           /\ \A i \in Ids \ seen'.forgotten :
                 i \in Range(queue.completed) => i \in Range(q.completed)
<1>1. /\ queue' = [q EXCEPT !.revision = queue.revision + 1]
      /\ \A i \in Ids : i \in Range(queue.completed) /\ i \notin seen'.forgotten =>
                           i \in Range(queue'.completed)
      /\ seen.forgotten \subseteq seen'.forgotten
    BY WriteType
<1>2. /\ queue'.entry = q.entry /\ queue'.completed = q.completed /\ queue'.order = q.order
      /\ queue'.paused = q.paused /\ queue'.reason = q.reason
      /\ queue'.restartPause = q.restartPause /\ queue'.revision # 0
    BY <1>1 DEF Queues, TypeOK
<1>3. Consistent(queue')
    BY <1>2 DEF Consistent, PausedIfUndecided, RestartIsStop, SendingFirst, CompletedIsGone, Has
<1>4. seen'.forgotten \subseteq seen.forgotten \cup Range(queue.completed)
    BY DEF Write
<1> QED BY <1>1, <1>2, <1>3, <1>4 DEF NoFileIsEmpty, RemovedStaysEmpty

\* So a write of a consistent record that is quiet makes a quiet step.
LEMMA WriteQuiet ==
    ASSUME TypeOK, NEW q \in Queues, NEW owed \in SUBSET Debts, Write(q, owed), ~removed',
           Consistent(q), q.restartPause \in {"none", queue.restartPause},
           \A i \in Ids \ seen.forgotten : QuietOn(q, i)
    PROVE  QuietStep
<1>1. /\ Consistent(queue') /\ NoFileIsEmpty' /\ RemovedStaysEmpty'
      /\ queue'.restartPause \in {"none", queue.restartPause}
      /\ seen.forgotten \subseteq seen'.forgotten
      /\ seen'.forgotten \subseteq seen.forgotten \cup Range(queue.completed)
      /\ queue'.entry = q.entry /\ queue'.completed = q.completed
      /\ \A i \in Ids \ seen'.forgotten :
            i \in Range(queue.completed) => i \in Range(q.completed)
    BY WriteShape
<1>2. ASSUME NEW i \in Ids \ seen'.forgotten PROVE Quiet(i)
    <2>1. QuietOn(q, i)  BY <1>1
    <2> QED BY <1>1, <2>1 DEF Quiet, QuietOn
<1> QED BY <1>1, <1>2 DEF QuietStep

\* A step that leaves the queue and the observations alone is quiet.
LEMMA StillQuiet == TypeOK /\ Inv /\ UNCHANGED <<queue, seen, removed>> => QuietStep
BY DEF Inv, QuietStep, Quiet, NoFileIsEmpty, RemovedStaysEmpty

-----------------------------------------------------------------------------
(* Requests of the windows.                                                *)

\* A request keeps the invariant if the record it writes is in order.
Proper(q) ==
    /\ q \in Queues /\ Consistent(q) /\ q.restartPause \in {"none", queue.restartPause}
    /\ \A i \in Ids \ seen.forgotten : QuietOn(q, i)

LEMMA RequestInv ==
    ASSUME TypeOK, TypeOK', Inv, NEW q, Proper(q), NEW owed \in SUBSET Debts, Request(q, owed)
    PROVE  Safely
<1>1. /\ Write(q, owed) /\ ~removed /\ ~deleting /\ UNCHANGED <<removed, deleting, gone, requests, tick>>
      /\ dispatch' = dispatch \/ dispatch'.phase = "checking"
    <2>1. closing = "open" /\ ~removed  BY DEF Request, TypeOK
    <2> QED BY <2>1 DEF Request, server, gate, engine, Start, NoDispatch
<1>2. QuietStep  BY <1>1, WriteQuiet DEF Proper
<1>3. Onward  BY <1>1 DEF Onward, NotYetAsked, InHand, Inv, ErredIsUnknown
<1>4. DeletionExcludesSend'  BY <1>1 DEF DeletionExcludesSend
<1>5. \A t \in Ticks : \A i \in Pursued(tick'[t]) : removed \/ Past(i)
    BY <1>1 DEF Inv, TicksPursueThePast
<1> QED BY <1>1, <1>2, <1>3, <1>4, <1>5, QuietInv

\* An entry with only its lease dropped is quiet.
LEMMA SameQuiet ==
    ASSUME NEW q, NEW i \in Ids, q.entry[i].status = queue.entry[i].status,
           q.entry[i].token \in {NoToken, queue.entry[i].token}
    PROVE  QuietOn(q, i)
BY DEF QuietOn

\* A request that writes one entry: it leaves the status, or makes the message
\* wait again; it must not touch one being sent nor requeue an undecided one.
LEMMA OneEntryProper ==
    ASSUME TypeOK, Inv, NEW i \in Ids, NEW e \in Entries,
           queue.entry[i].status \notin {"absent", "sending"},
           \/ e.status = queue.entry[i].status /\ queue.entry[i].status # "uncertain"
           \/ e.status = queue.entry[i].status /\ e.token = NoToken
           \/ e.status = "queued" /\ (queue.entry[i].status = "uncertain" => i \in seen.forgotten)
    PROVE  Proper([Fresh EXCEPT !.entry[i] = e])
<1> DEFINE q == [Fresh EXCEPT !.entry[i] = e]
<1>0. /\ Fresh \in Queues /\ Consistent(Fresh) /\ Fresh.entry \in [Ids -> Entries]
      /\ \A j \in Ids : /\ Fresh.entry[j].status = queue.entry[j].status
                        /\ Fresh.entry[j].token \in {NoToken, queue.entry[j].token}
      /\ Fresh.paused = queue.paused /\ Fresh.restartPause = queue.restartPause
    BY FreshConsistent DEF Inv, Queues
<1>1. /\ q \in Queues /\ q.entry[i] = e /\ \A j \in Ids \ {i} : q.entry[j] = Fresh.entry[j]
      /\ q.order = Fresh.order /\ q.completed = Fresh.completed /\ q.paused = Fresh.paused
      /\ q.reason = Fresh.reason /\ q.restartPause = Fresh.restartPause
    <2>1. [Fresh.entry EXCEPT ![i] = e] \in [Ids -> Entries]  BY <1>0
    <2> QED BY <1>0, <2>1 DEF Queues
<1> HIDE DEF q
<1>2. \A j \in Ids : q.entry[j].status \in {"sending", "uncertain"} =>
                       q.entry[j].status = Fresh.entry[j].status
    BY <1>0, <1>1
<1>3. PausedIfUndecided(q) /\ RestartIsStop(q)
    BY <1>0, <1>1, <1>2 DEF Consistent, PausedIfUndecided, RestartIsStop, Has
<1>4. Consistent(q)
    <2>1. \A j \in Ids : \/ q.entry[j].status = Fresh.entry[j].status
                         \/ Fresh.entry[j].status # "absent" /\ q.entry[j].status = "queued"
        <3> SUFFICES ASSUME NEW j \in Ids
                     PROVE  \/ q.entry[j].status = Fresh.entry[j].status
                            \/ Fresh.entry[j].status # "absent" /\ q.entry[j].status = "queued"
            OBVIOUS
        <3>1. CASE j = i  BY <1>0, <1>1, <3>1
        <3>2. CASE j # i  BY <1>1, <3>2
        <3> QED BY <3>1, <3>2
    <2> QED BY <1>0, <1>1, <1>3, <2>1, MarkConsistent
<1>5. ASSUME NEW j \in Ids \ seen.forgotten PROVE QuietOn(q, j)
    <2>1. CASE j = i
        <3>1. q.entry[i] = e /\ i \notin seen.forgotten  BY <1>1, <2>1
        <3>2. e.status = "uncertain" => e.token = NoToken  BY <3>1
        <3> QED BY <2>1, <3>1, <3>2 DEF QuietOn
    <2>2. CASE j # i
        <3>1. q.entry[j] = Fresh.entry[j]  BY <1>1, <2>2
        <3> QED BY <1>0, <3>1, SameQuiet
    <2> QED BY <2>1, <2>2
<1> QED BY <1>0, <1>1, <1>4, <1>5 DEF Proper, q

\* Dropping the leases that ran out is proper.
LEMMA FreshProper == TypeOK /\ Inv => Proper(Fresh)
<1> SUFFICES ASSUME TypeOK, Inv PROVE Proper(Fresh)
    OBVIOUS
<1>1. Consistent(queue)  BY DEF Inv
<1>2. \A i \in Ids : QuietOn(Fresh, i)  BY <1>1, FreshConsistent, SameQuiet
<1> QED BY <1>1, <1>2, FreshConsistent DEF Proper

\* Every request of a window keeps the invariant.
LEMMA ActInv == TypeOK /\ TypeOK' /\ Inv /\ Act => Safely
<1> SUFFICES ASSUME TypeOK, TypeOK', Inv, Act PROVE Safely
    OBVIOUS
<1>0. /\ Fresh \in Queues /\ Consistent(Fresh) /\ seen.owed \in SUBSET Debts
      /\ Fresh.entry \in [Ids -> Entries] /\ Fresh.order \in Seq(Ids)
      /\ \A i \in Ids : /\ Fresh.entry[i].status = queue.entry[i].status
                        /\ Fresh.entry[i].token \in {NoToken, queue.entry[i].token}
                        /\ Fresh.entry[i] \in Entries
      /\ Fresh.order = queue.order /\ Fresh.completed = queue.completed
      /\ Fresh.paused = queue.paused /\ Fresh.restartPause = queue.restartPause
    BY FreshConsistent DEF Inv, TypeOK, Observations, Queues
<1>1. ASSUME NEW i \in Ids, NEW kind \in Kinds, EnqueueNew(i, kind) PROVE Safely
    <2> DEFINE added == [Fresh EXCEPT !.order = Append(@, i),
                                      !.entry[i] = [@ EXCEPT !.status = "queued", !.kind = kind]]
               resumes == queue.paused /\ queue.reason = "stop" /\ ~Has(queue, "uncertain")
    <2>1. /\ queue.entry[i].status = "absent" /\ i \notin Range(queue.completed)
          /\ Request(IF resumes THEN Unpause(added) ELSE added, seen.owed \ {"restart"})
        BY <1>1 DEF EnqueueNew
    <2>2. /\ added \in Queues /\ added.order = Append(queue.order, i)
          /\ added.entry[i].status = "queued"
          /\ \A j \in Ids \ {i} : added.entry[j] = Fresh.entry[j]
          /\ added.completed = queue.completed /\ added.paused = queue.paused
          /\ added.reason = Fresh.reason /\ added.restartPause = queue.restartPause
        <3>1. Append(Fresh.order, i) \in Seq(Ids)  BY <1>0, AppendProperties
        <3> DEFINE E == [Fresh.entry EXCEPT ![i] = [@ EXCEPT !.status = "queued", !.kind = kind]]
        <3>2. E \in [Ids -> Entries]
            BY <1>0, EntryType
        <3>3. E[i].status = "queued" /\ \A j \in Ids \ {i} : E[j] = Fresh.entry[j]
            BY <1>0 DEF Entries
        <3>4. added = [Fresh EXCEPT !.order = Append(Fresh.order, i), !.entry = E]
            BY <1>0 DEF Queues
        <3> HIDE DEF E, added
        <3> QED BY <1>0, <3>1, <3>2, <3>3, <3>4 DEF Queues
    <2> HIDE DEF added
    <2>3. \A j \in Ids : added.entry[j].status # "queued" => j # i /\ added.entry[j] = Fresh.entry[j]
        BY <2>2
    <2>4. SendingFirst(added)
        <3> SUFFICES ASSUME NEW j \in Ids, added.entry[j].status = "sending"
                     PROVE  added.order # <<>> /\ added.order[1] = j
            BY DEF SendingFirst
        <3>1. queue.order # <<>> /\ queue.order[1] = j /\ queue.order \in Seq(Ids)
            BY <1>0, <2>3 DEF Consistent, SendingFirst
        <3> QED BY <2>2, <3>1
    <2>5. CompletedIsGone(added)
        BY <1>0, <2>1, <2>2, <2>3, ElementOfSeq, LenProperties DEF Consistent, CompletedIsGone, Queues, Range
    <2>6. PausedIfUndecided(added) /\ RestartIsStop(added)
        BY <1>0, <2>2, <2>3 DEF Consistent, PausedIfUndecided, RestartIsStop, Has
    <2>7. \A j \in Ids : QuietOn(added, j)
        <3> SUFFICES ASSUME NEW j \in Ids PROVE QuietOn(added, j)
            OBVIOUS
        <3>1. CASE j = i  BY <2>1, <2>2, <3>1 DEF QuietOn
        <3>2. CASE j # i
            <4>1. added.entry[j] = Fresh.entry[j]  BY <2>2, <3>2
            <4> QED BY <1>0, <4>1, SameQuiet
        <3> QED BY <3>1, <3>2
    <2>8. Proper(added)  BY <2>2, <2>4, <2>5, <2>6, <2>7 DEF Proper, Consistent
    <2>9. resumes => Proper(Unpause(added))
        <3> DEFINE r == Unpause(added)
        <3>1. /\ r \in Queues /\ r.entry = added.entry /\ r.order = added.order
              /\ r.completed = added.completed /\ r.restartPause = "none"
            <4> DEFINE n == queue.revision + 1
            <4>1. n \in Nat
                <5>1. queue \in Queues  BY DEF TypeOK
                <5> QED BY <5>1 DEF Queues
            <4>2. r = [added EXCEPT !.paused = FALSE, !.reason = "none", !.restartPause = "none",
                                    !.resumeRevision = n]
                BY DEF Unpause
            <4> HIDE DEF n, r
            <4> QED BY <2>2, <4>1, <4>2 DEF Queues
        <3> HIDE DEF r
        <3>2. ~Has(queue, "uncertain") => ~Has(r, "uncertain")
            BY <1>0, <2>3, <3>1 DEF Has
        <3>3. resumes => Consistent(r)
            BY <2>4, <2>5, <3>1, <3>2
               DEF Consistent, SendingFirst, CompletedIsGone, PausedIfUndecided, RestartIsStop
        <3> QED BY <2>7, <3>1, <3>3 DEF Proper, QuietOn, r
    <2>10. seen.owed \ {"restart"} \in SUBSET Debts  BY <1>0
    <2> HIDE DEF resumes
    <2> QED BY <2>1, <2>8, <2>9, <2>10, RequestInv
<1>2. ASSUME NEW i \in Ids, NEW k \in Tokens, RenewEdit(i, k) PROVE Safely
    BY <1>0, <1>2, FreshProper, RequestInv DEF RenewEdit
<1>3. ASSUME NEW i \in Ids, EnqueueAgain(i) PROVE Safely
    BY <1>0, <1>3, FreshProper, RequestInv DEF EnqueueAgain
<1>4. ASSUME NEW i \in Ids, RemoveEntry(i) PROVE Safely
    <2>1. Editable(i) /\ Request(Retire(Fresh, i), seen.owed)
        BY <1>4 DEF RemoveEntry
    <2> DEFINE q == Retire(Fresh, i)
    <2>2. /\ q \in Queues /\ Consistent(q) /\ q.entry[i] = Absent
          /\ \A j \in Ids \ {i} : q.entry[j] = Fresh.entry[j]
          /\ i \in Range(q.completed) /\ q.restartPause = queue.restartPause
        BY <1>0, RetireConsistent, RetireType
    <2> HIDE DEF q
    <2>3. ASSUME NEW j \in Ids PROVE QuietOn(q, j)
        <3>1. CASE j = i  BY <2>1, <2>2, <3>1 DEF QuietOn, Absent, Editable
        <3>2. CASE j # i
            <4>1. q.entry[j] = Fresh.entry[j]  BY <2>2, <3>2
            <4> QED BY <1>0, <4>1, SameQuiet
        <3> QED BY <3>1, <3>2
    <2>4. Proper(q)  BY <2>2, <2>3 DEF Proper
    <2> QED BY <1>0, <2>1, <2>4, RequestInv DEF q
<1>5. ASSUME NEW i \in Ids, NEW k \in Tokens, NEW kind \in Kinds, SubmitEdit(i, k, kind)
      PROVE  Safely
    <2> DEFINE e == [Absent EXCEPT !.status = "queued", !.kind = kind, !.last = k]
    <2>1. e \in Entries /\ e.status = "queued"
        BY KindAssumption DEF Absent, Entries, Statuses
    <2>2. Editable(i) /\ Fresh.entry[i].token = k /\ Request([Fresh EXCEPT !.entry[i] = e], seen.owed)
        BY <1>5 DEF SubmitEdit
    <2>3. queue.entry[i].token # NoToken  BY <1>0, <2>2, TokenAssumption
    <2>4. queue.entry[i].status = "uncertain" => i \in seen.forgotten
        BY <2>3 DEF Inv, NobodyEditsASend
    <2> HIDE DEF e
    <2>5. Proper([Fresh EXCEPT !.entry[i] = e])
        BY <2>1, <2>2, <2>4, OneEntryProper DEF Editable
    <2> QED BY <1>0, <2>2, <2>5, RequestInv
<1>6. ASSUME NEW i \in Ids, NEW k \in Tokens, OpenEdit(i, k) PROVE Safely
    <2> DEFINE e == [Fresh.entry[i] EXCEPT !.token = k]
    <2>1. e \in Entries /\ e.status = queue.entry[i].status
        <3>1. Fresh.entry[i] \in Entries /\ Fresh.entry[i].status = queue.entry[i].status
            BY <1>0
        <3>2. e \in Entries  BY <3>1, EntryType
        <3> QED BY <3>1, <3>2 DEF Entries
    <2>2. /\ queue.entry[i].status \notin {"absent", "sending", "uncertain"}
          /\ Request([Fresh EXCEPT !.entry[i] = e], seen.owed)
        BY <1>0, <1>6 DEF OpenEdit, Editable
    <2> HIDE DEF e
    <2>3. Proper([Fresh EXCEPT !.entry[i] = e])
        BY <2>1, <2>2, OneEntryProper
    <2> QED BY <1>0, <2>2, <2>3, RequestInv
<1>7. ASSUME NEW i \in Ids, NEW k \in Tokens, ReleaseEdit(i, k) PROVE Safely
    <2> DEFINE e == Unlease(Fresh.entry[i])
    <2>1. e \in Entries /\ e.status = queue.entry[i].status /\ e.token = NoToken
        <3>1. Fresh.entry[i] \in Entries /\ Fresh.entry[i].status = queue.entry[i].status
            BY <1>0, EntryType
        <3>2. e = [Fresh.entry[i] EXCEPT !.token = NoToken, !.due = FALSE]
            BY DEF Unlease
        <3> HIDE DEF e
        <3> QED BY <3>1, <3>2 DEF Entries
    <2>2. /\ queue.entry[i].status \notin {"absent", "sending"}
          /\ Request([Fresh EXCEPT !.entry[i] = e], seen.owed)
        BY <1>0, <1>7 DEF ReleaseEdit, Editable
    <2> HIDE DEF e
    <2>3. Proper([Fresh EXCEPT !.entry[i] = e])
        BY <2>1, <2>2, OneEntryProper
    <2> QED BY <1>0, <2>2, <2>3, RequestInv
<1>8. ASSUME NEW why \in {"stop", "none"}, Pause(why) PROVE Safely
    <2> DEFINE q == [SetPause(Fresh, why) EXCEPT !.restartPause = "none"]
    <2>1. /\ q \in Queues /\ q.entry = Fresh.entry /\ q.order = Fresh.order
          /\ q.completed = Fresh.completed /\ q.paused /\ q.restartPause = "none"
        BY <1>0 DEF SetPause, Queues
    <2>2. Request(q, seen.owed \cup {"user"}) /\ seen.owed \cup {"user"} \in SUBSET Debts
        BY <1>0, <1>8 DEF Pause, Debts
    <2> HIDE DEF q
    <2>3. Consistent(q)
        BY <1>0, <2>1, MarkConsistent DEF PausedIfUndecided, RestartIsStop
    <2>4. \A i \in Ids : QuietOn(q, i)  BY <1>0, <2>1, SameQuiet
    <2>5. Proper(q)  BY <2>1, <2>3, <2>4 DEF Proper
    <2> QED BY <2>2, <2>5, RequestInv
<1>9. CASE Resume
    <2> DEFINE E == [i \in Ids |-> IF Fresh.entry[i].status = "failed"
                                   THEN [Fresh.entry[i] EXCEPT !.status = "queued"]
                                   ELSE Fresh.entry[i]]
               q == Unpause([Fresh EXCEPT !.entry = E])
    <2>1. E \in [Ids -> Entries] /\ \A i \in Ids :
              \/ E[i] = Fresh.entry[i]
              \/ Fresh.entry[i].status = "failed" /\ E[i].status = "queued"
        <3>1. \A i \in Ids : [Fresh.entry[i] EXCEPT !.status = "queued"] \in Entries
            BY <1>0, EntryType DEF Statuses
        <3>2. \A i \in Ids : [Fresh.entry[i] EXCEPT !.status = "queued"].status = "queued"
            BY <1>0 DEF Entries
        <3> QED BY <1>0, <3>1, <3>2
    <2>2. ~Has(queue, "uncertain") /\ Request(q, {})  BY <1>9 DEF Resume
    <2> HIDE DEF E
    <2>3. /\ q \in Queues /\ q.entry = E /\ q.order = Fresh.order
          /\ q.completed = Fresh.completed /\ q.restartPause = "none"
        <3>1. queue.revision + 1 \in Nat  BY DEF TypeOK, Queues
        <3> QED BY <1>0, <2>1, <3>1 DEF Unpause, Queues
    <2> HIDE DEF q
    <2>4. PausedIfUndecided(q) /\ RestartIsStop(q)
        BY <1>0, <2>1, <2>2, <2>3 DEF PausedIfUndecided, RestartIsStop, Has
    <2>5. Consistent(q)
        <3>1. \A i \in Ids : \/ q.entry[i].status = Fresh.entry[i].status
                             \/ Fresh.entry[i].status # "absent" /\ q.entry[i].status = "queued"
            <4> SUFFICES ASSUME NEW i \in Ids
                         PROVE  \/ q.entry[i].status = Fresh.entry[i].status
                                \/ Fresh.entry[i].status # "absent" /\ q.entry[i].status = "queued"
                OBVIOUS
            <4>1. \/ q.entry[i] = Fresh.entry[i]
                  \/ Fresh.entry[i].status = "failed" /\ q.entry[i].status = "queued"
                BY <2>1, <2>3
            <4> QED BY <4>1
        <3> QED BY <1>0, <2>3, <2>4, <3>1, MarkConsistent
    <2>6. ASSUME NEW i \in Ids PROVE QuietOn(q, i)
        <3>1. CASE q.entry[i] = Fresh.entry[i]
            BY <1>0, <3>1, SameQuiet
        <3>2. CASE Fresh.entry[i].status = "failed" /\ q.entry[i].status = "queued"
            <4>1. queue.entry[i].status = "failed"  BY <1>0, <3>2
            <4> QED BY <3>2, <4>1 DEF QuietOn
        <3> QED BY <2>1, <2>3, <3>1, <3>2
    <2>8. Proper(q)  BY <2>3, <2>5, <2>6 DEF Proper
    <2>7. {} \in SUBSET Debts  OBVIOUS
    <2> QED BY <2>2, <2>7, <2>8, RequestInv
<1>10. CASE Reorder
    <2>1. PICK ids \in SetToSeqs(Waiting) : Request([Fresh EXCEPT !.order = InFlight \o ids], seen.owed)
        BY <1>10 DEF Reorder
    <2> DEFINE q == [Fresh EXCEPT !.order = InFlight \o ids]
    <2>2. ids \in Seq(Ids)
        <3>1. Cardinality(Waiting) \in Nat
            BY IdAssumption, FS_Subset, FS_CardinalityType DEF Waiting
        <3>2. ids \in [1..Cardinality(Waiting) -> Ids]  BY DEF SetToSeqs, Waiting
        <3> QED BY <3>1, <3>2, SeqDef
    <2>3. InFlight \in Seq(Ids)
        BY <1>0, ElementOfSeq, EmptySeq, LenProperties DEF InFlight
    <2>4. /\ q \in Queues /\ q.order = InFlight \o ids /\ q.entry = Fresh.entry
          /\ q.completed = Fresh.completed /\ q.paused = Fresh.paused
          /\ q.reason = Fresh.reason /\ q.restartPause = Fresh.restartPause
        <3>1. InFlight \o ids \in Seq(Ids)  BY <2>2, <2>3, ConcatProperties
        <3> QED BY <1>0, <3>1 DEF Queues
    <2> HIDE DEF q
    <2>5. SendingFirst(q)
        <3> SUFFICES ASSUME NEW j \in Ids, q.entry[j].status = "sending"
                     PROVE  q.order # <<>> /\ q.order[1] = j
            BY DEF SendingFirst
        <3>1. queue.order # <<>> /\ queue.order[1] = j /\ queue.entry[j].status = "sending"
            BY <1>0, <2>4 DEF Consistent, SendingFirst
        <3>2. InFlight = <<j>>  BY <3>1 DEF InFlight
        <3>3. Len(q.order) # 0 /\ q.order[1] = j  BY <2>2, <2>4, <3>2
        <3> QED BY <3>3, EmptySeq
    <2>6. Consistent(q)
        BY <1>0, <2>4, <2>5
           DEF Consistent, PausedIfUndecided, RestartIsStop, CompletedIsGone, Has
    <2>7. \A i \in Ids : QuietOn(q, i)  BY <1>0, <2>4, SameQuiet
    <2>8. Proper(q)  BY <1>0, <2>4, <2>6, <2>7 DEF Proper
    <2> QED BY <1>0, <2>1, <2>8, RequestInv DEF q
<1> QED BY <1>1, <1>2, <1>3, <1>4, <1>5, <1>6, <1>7, <1>8, <1>9, <1>10 DEF Act

-----------------------------------------------------------------------------
(* The dispatcher.                                                         *)

\* It moves on, or fails to write: it keeps the message it has in hand.
LEMMA MoveInv ==
    ASSUME TypeOK, TypeOK', Inv, NEW d, MoveTo(d) \/ FailsTo(d),
           d.phase \in InHand => dispatch.phase \in InHand /\ d.id = dispatch.id,
           \/ d.phase \notin {"claimed", "calling", "settling"}
           \/ d.phase = "settling" /\ d.outcome # "prep"
           \/ NotYetAsked,
           d.phase = "erred" => d.outcome = "unknown",
           deleting => d.phase \notin {"calling", "issued"}
    PROVE  Safely
<1>1. /\ dispatch' = d
      /\ UNCHANGED <<queue, seen, removed, deleting, gone, requests, tick>>
    BY DEF MoveTo, FailsTo, WriteFails, DispatcherOnly, server, gate, engine
<1>2. QuietStep  BY <1>1, StillQuiet
<1>3. Onward  BY <1>1 DEF Onward, NotYetAsked, ErredIsUnknown
<1>4. DeletionExcludesSend'  BY <1>1 DEF DeletionExcludesSend
<1>5. \A t \in Ticks : \A i \in Pursued(tick'[t]) : removed \/ Past(i)
    BY <1>1 DEF Inv, TicksPursueThePast
<1> QED BY <1>1, <1>2, <1>3, <1>4, <1>5, QuietInv

\* It writes and lets go of what it has.
LEMMA LetGoInv ==
    ASSUME TypeOK, TypeOK', Inv, NEW q \in Queues, NEW owed \in SUBSET Debts,
           Records(q, owed, NoDispatch), Consistent(q),
           q.restartPause \in {"none", queue.restartPause},
           \A i \in Ids \ seen.forgotten :
              \/ QuietOn(q, i)
              \/ /\ queue.entry[i].status = "sending" /\ q.entry[i].token = queue.entry[i].token
                 /\ \/ q.entry[i].status = "uncertain"
                    \/ q.entry[i].status = "failed" /\ NotYetAsked /\ dispatch.id = i
              \/ q.entry[i].status = "absent" /\ i \in Range(q.completed)
    PROVE  Safely
<1>1. /\ dispatch' = NoDispatch /\ Write(q, owed) /\ ~removed
      /\ UNCHANGED <<removed, deleting, gone, requests, tick>>
    <2>1. ~removed  BY DEF Records, WriteHere, TypeOK
    <2> QED BY <2>1 DEF Records, WriteHere, DispatcherOnly, server, gate, engine
<1>2. dispatch'.phase = "none"  BY <1>1 DEF NoDispatch
<1>3. Onward /\ DeletionExcludesSend'
    BY <1>2 DEF Onward, NotYetAsked, ErredIsUnknown, InHand, DeletionExcludesSend
<1>4. QuietStep
    <2>1. /\ Consistent(queue') /\ NoFileIsEmpty' /\ RemovedStaysEmpty'
          /\ queue'.restartPause \in {"none", queue.restartPause}
          /\ seen.forgotten \subseteq seen'.forgotten
          /\ seen'.forgotten \subseteq seen.forgotten \cup Range(queue.completed)
          /\ queue'.entry = q.entry /\ queue'.completed = q.completed
          /\ \A i \in Ids \ seen'.forgotten :
                i \in Range(queue.completed) => i \in Range(q.completed)
        BY <1>1, WriteShape
    <2>2. ASSUME NEW i \in Ids \ seen'.forgotten PROVE Quiet(i)
        <3>1. dispatch'.phase \notin InHand  BY <1>2 DEF InHand
        <3>2. i \in Range(queue.completed) => i \in Range(q.completed)  BY <2>1
        <3>3. i \in Ids \ seen.forgotten  BY <2>1
        <3>4. CASE QuietOn(q, i)  BY <2>1, <3>2, <3>4 DEF Quiet, QuietOn
        <3>5. CASE ~QuietOn(q, i)  BY <2>1, <3>1, <3>2, <3>3, <3>5 DEF Quiet
        <3> QED BY <3>4, <3>5
    <2> QED BY <2>1, <2>2 DEF QuietStep
<1>5. \A t \in Ticks : \A i \in Pursued(tick'[t]) : removed \/ Past(i)
    BY <1>1 DEF Inv, TicksPursueThePast
<1> QED BY <1>1, <1>3, <1>4, <1>5, QuietInv

\* The head it claims was waiting, is not leased and was never asked for.
LEMMA ClaimInv == TypeOK /\ TypeOK' /\ Inv /\ Claim => Safely
<1> SUFFICES ASSUME TypeOK, TypeOK', Inv, Claim PROVE Safely
    OBVIOUS
<1> DEFINE h == queue.order[1]
           q == [queue EXCEPT !.entry[h].status = "sending"]
<1>1. /\ queue \in Queues /\ queue.entry \in [Ids -> Entries] /\ queue.order \in Seq(Ids)
      /\ ~queue.paused /\ queue.order # <<>> /\ queue.entry[h].status = "queued"
      /\ h \in Ids /\ \A i \in Ids : queue.entry[i].token = NoToken
      /\ seen.owed \in SUBSET Debts
    <2>1. /\ queue \in Queues /\ queue.entry \in [Ids -> Entries] /\ queue.order \in Seq(Ids)
          /\ seen.owed \in SUBSET Debts
        BY DEF TypeOK, Queues, Observations
    <2>2. /\ ~queue.paused /\ queue.order # <<>> /\ queue.entry[h].status = "queued"
          /\ \A i \in Ids : queue.entry[i].token = NoToken
        BY DEF Claim, MayClaim, HeadQueued, Leased
    <2>3. h \in Ids  BY <2>1, <2>2, EmptySeq, ElementOfSeq
    <2> QED BY <2>1, <2>2, <2>3
<1>2. /\ WriteHere(q, seen.owed) /\ dispatch'.phase = "claimed" /\ dispatch'.id = h
      /\ UNCHANGED <<removed, deleting, gone, requests, tick>>
    BY DEF Claim, Records, DispatcherOnly, server, gate, engine
<1> HIDE DEF h
<1>3. /\ q \in Queues /\ q.entry[h].status = "sending" /\ q.entry[h].token = NoToken
      /\ \A j \in Ids \ {h} : q.entry[j] = queue.entry[j]
      /\ q.order = queue.order /\ q.completed = queue.completed /\ q.paused = queue.paused
      /\ q.reason = queue.reason /\ q.restartPause = queue.restartPause
    <2>1. [queue.entry EXCEPT ![h].status = "sending"] \in [Ids -> Entries]
        BY <1>1, EntryType DEF Statuses
    <2>2. /\ [queue.entry EXCEPT ![h].status = "sending"][h].status = "sending"
          /\ [queue.entry EXCEPT ![h].status = "sending"][h].token = NoToken
        BY <1>1 DEF Entries
    <2> QED BY <1>1, <2>1, <2>2 DEF Queues
<1> HIDE DEF q
<1>4. queue.restartPause = "none" /\ ~Has(queue, "uncertain")
    BY <1>1 DEF Inv, Consistent, RestartIsStop, PausedIfUndecided
<1>5. h \notin Range(queue.completed)
    BY <1>1 DEF Inv, Consistent, CompletedIsGone
<1>6. \A j \in Ids : j # h => queue.entry[j].status # "sending"
    BY DEF Inv, Consistent, SendingFirst, h
<1>7. Consistent(q)
    <2>1. SendingFirst(q)  BY <1>1, <1>3, <1>6 DEF SendingFirst, h
    <2>2. CompletedIsGone(q)
        <3>1. Range(queue.completed) \subseteq Ids
            BY <1>1, ElementOfSeq, LenProperties DEF Queues, Range
        <3> QED BY <1>3, <1>5, <3>1 DEF Inv, Consistent, CompletedIsGone
    <2>3. PausedIfUndecided(q) /\ RestartIsStop(q)
        <3>1. ~Has(q, "uncertain")
            <4>1. \A j \in Ids : queue.entry[j].status # "uncertain"  BY <1>4 DEF Has
            <4>2. ASSUME NEW j \in Ids PROVE q.entry[j].status # "uncertain"
                <5>1. CASE j = h  BY <1>3, <5>1
                <5>2. CASE j # h  BY <1>3, <4>1, <5>2
                <5> QED BY <5>1, <5>2
            <4> QED BY <4>2 DEF Has
        <3> QED BY <1>3, <1>4, <3>1 DEF PausedIfUndecided, RestartIsStop
    <2> QED BY <2>1, <2>2, <2>3 DEF Consistent
<1>8. /\ Consistent(queue') /\ NoFileIsEmpty' /\ RemovedStaysEmpty'
      /\ queue'.restartPause = "none"
      /\ seen.forgotten \subseteq seen'.forgotten
      /\ queue'.entry = q.entry /\ queue'.completed = q.completed
    <2>1. Write(q, seen.owed) /\ ~removed'  BY <1>2 DEF WriteHere, TypeOK
    <2>2. q.restartPause \in {"none", queue.restartPause}  BY <1>3
    <2> QED BY <1>1, <1>3, <1>4, <1>7, <2>1, <2>2, WriteShape
<1>9. \A j \in Ids \ {h} : queue'.entry[j] = queue.entry[j]
    BY <1>3, <1>8
<1>10. NobodyEditsASend'
    BY <1>1, <1>3, <1>8, <1>9 DEF NobodyEditsASend
<1>11. TicksPursueThePast'
    <2> SUFFICES ASSUME NEW t \in Ticks, NEW i \in Pursued(tick[t]), i \notin seen'.forgotten
                 PROVE  \/ queue'.entry[i].status = "uncertain"
                        \/ queue'.entry[i].status = "absent" /\ i \in Range(queue'.completed)
        BY <1>2 DEF TicksPursueThePast, Past, Pursued
    <2>1. i \in Ids  BY DEF TypeOK, TickStates, Pursued
    <2>2. /\ i \notin seen.forgotten
          /\ \/ queue.entry[i].status = "uncertain"
             \/ queue.entry[i].status = "absent" /\ i \in Range(queue.completed)
        BY <1>2, <1>8 DEF Inv, TicksPursueThePast, Past, WriteHere, TypeOK
    <2>3. i # h  BY <1>1, <2>2
    <2> QED BY <1>3, <1>8, <1>9, <2>1, <2>2, <2>3
<1>12. AskedIsPast'
    <2> SUFFICES ASSUME NEW i \in Ids \ seen'.forgotten
                 PROVE  /\ requests[i] <= 1
                        /\ requests[i] # 0 /\ ~gone =>
                              /\ \/ queue'.entry[i].status \in {"sending", "uncertain"}
                                 \/ i \in Range(queue'.completed)
                              /\ dispatch'.id # i
        BY <1>2 DEF AskedIsPast
    <2>1. /\ requests[i] <= 1
          /\ requests[i] # 0 /\ ~gone =>
                \/ queue.entry[i].status \in {"sending", "uncertain"}
                \/ i \in Range(queue.completed)
        BY <1>8 DEF Inv, AskedIsPast
    <2>2. CASE i = h
        <3>1. ~(requests[i] # 0 /\ ~gone)  BY <1>1, <1>5, <2>1, <2>2
        <3> QED BY <2>1, <3>1
    <2>3. CASE i # h
        BY <1>2, <1>3, <1>8, <1>9, <2>1, <2>3
    <2> QED BY <2>2, <2>3
<1>13. InHandStays'  BY <1>2, <1>3, <1>8 DEF InHandStays
<1>14. RemovedIsGone' /\ DeletionExcludesSend' /\ RestartHoldsDispatch' /\ ErredIsUnknown'
    BY <1>2, <1>8 DEF Inv, RemovedIsGone, DeletionExcludesSend, RestartHoldsDispatch, ErredIsUnknown
<1>15. NothingRequeued
    BY <1>1, <1>9 DEF NothingRequeued
<1> QED BY <1>8, <1>10, <1>11, <1>12, <1>13, <1>14, <1>15 DEF Inv, Safely

\* It asks for a message once.
LEMMA IssueInv == TypeOK /\ Inv /\ IssueRequest => Safely
<1> SUFFICES ASSUME TypeOK, Inv, IssueRequest PROVE Safely
    OBVIOUS
<1> DEFINE i == dispatch.id
<1>1. /\ dispatch.phase = "calling" /\ ~gone /\ ~deleting /\ ~removed
      /\ dispatch'.phase = "issued" /\ dispatch'.id = i /\ i \in Ids
      /\ requests' = [requests EXCEPT ![i] = @ + 1]
      /\ UNCHANGED <<queue, seen, removed, deleting, gone, tick>>
    BY DEF IssueRequest, DispatcherOnly, server, gate, Inv, DeletionExcludesSend, RemovedIsGone,
           TypeOK, DispatchOK, Dispatches, InHand
<1>2. AskedIsPast'
    <2> SUFFICES ASSUME NEW j \in Ids \ seen.forgotten
                 PROVE  /\ requests'[j] <= 1
                        /\ requests'[j] # 0 => \/ queue.entry[j].status \in {"sending", "uncertain"}
                                               \/ j \in Range(queue.completed)
        BY <1>1 DEF AskedIsPast, NotYetAsked
    <2>1. /\ requests[j] <= 1
          /\ requests[j] # 0 => /\ \/ queue.entry[j].status \in {"sending", "uncertain"}
                                   \/ j \in Range(queue.completed)
                                /\ i # j
        BY <1>1 DEF Inv, AskedIsPast, NotYetAsked
    <2>2. CASE j = i
        <3>1. queue.entry[i].status = "sending"
            BY <1>1, <2>2 DEF Inv, InHandStays, InHand
        <3>2. requests[i] = 0 /\ requests'[i] = 1  BY <1>1, <2>1, <2>2 DEF TypeOK
        <3> QED BY <2>2, <3>1, <3>2
    <2>3. CASE j # i
        <3>1. requests'[j] = requests[j]  BY <1>1, <2>3 DEF TypeOK
        <3> QED BY <2>1, <3>1
    <2> QED BY <2>2, <2>3
<1>3. TicksPursueThePast'  BY <1>1 DEF Inv, TicksPursueThePast, Past, Pursued
<1>4. InHandStays' /\ RestartHoldsDispatch'
    BY <1>1 DEF Inv, InHandStays, RestartHoldsDispatch, InHand
<1> QED BY <1>1, <1>2, <1>3, <1>4
        DEF Inv, NoFileIsEmpty, RemovedIsGone, RemovedStaysEmpty, DeletionExcludesSend,
            NobodyEditsASend, ErredIsUnknown, Safely, NothingRequeued

\* Every step of the dispatcher keeps the invariant.
LEMMA DispatchInv == TypeOK /\ TypeOK' /\ Inv /\ Dispatch => Safely
<1> SUFFICES ASSUME TypeOK, TypeOK', Inv, Dispatch PROVE Safely
    OBVIOUS
<1>0. /\ queue \in Queues /\ Consistent(queue) /\ seen.owed \in SUBSET Debts
      /\ NoDispatch.phase = "none" /\ Absent.status = "absent"
      /\ dispatch \in Dispatches /\ (dispatch.phase \in InHand => dispatch.id \in Ids)
      /\ deleting => dispatch.phase \notin {"calling", "issued"}
    BY DEF TypeOK, Observations, NoDispatch, Absent, Inv, DispatchOK, DeletionExcludesSend
<1>1. CASE EngineBusy \/ AbandonClaim
    BY <1>0, <1>1, MoveInv DEF EngineBusy, AbandonClaim, InHand
<1>2. CASE EngineIdle
    <2> DEFINE d == [dispatch EXCEPT !.phase = "claiming"]
    <2>1. d.phase = "claiming" /\ MoveTo(d)  BY <1>0, <1>2 DEF EngineIdle, GoTo, Dispatches
    <2> HIDE DEF d
    <2> QED BY <2>1, MoveInv DEF InHand
<1>3. CASE Claim  BY <1>3, ClaimInv
<1>4. CASE ClaimNothing
    <2>1. \A i \in Ids : QuietOn(queue, i)  BY DEF QuietOn
    <2> QED BY <1>0, <1>4, <2>1, LetGoInv DEF ClaimNothing
<1>5. CASE ClaimFails \/ SettleFails
    BY <1>0, <1>5, MoveInv DEF ClaimFails, SettleFails, InHand
<1>6. CASE BeginSend
    <2> DEFINE d == [dispatch EXCEPT !.phase = "calling"]
    <2>1. /\ d.phase = "calling" /\ d.id = dispatch.id /\ MoveTo(d)
          /\ dispatch.phase = "claimed" /\ ~deleting
        BY <1>0, <1>6 DEF BeginSend, GoTo, Dispatches
    <2> HIDE DEF d
    <2> QED BY <2>1, MoveInv DEF InHand, NotYetAsked
<1>7. CASE PreparationFails
    <2> DEFINE d == [dispatch EXCEPT !.phase = "settling", !.outcome = "prep"]
    <2>1. /\ d.phase = "settling" /\ d.id = dispatch.id /\ MoveTo(d)
          /\ dispatch.phase = "calling"
        BY <1>0, <1>7 DEF PreparationFails, Dispatches
    <2> HIDE DEF d
    <2> QED BY <2>1, MoveInv DEF InHand, NotYetAsked
<1>8. CASE IssueRequest  BY <1>8, IssueInv
<1>9. CASE EngineAnswers
    <2>1. PICK result \in Results :
              MoveTo([dispatch EXCEPT !.phase = "returned", !.outcome = result])
        BY <1>9 DEF EngineAnswers
    <2> DEFINE d == [dispatch EXCEPT !.phase = "returned", !.outcome = result]
    <2>2. /\ d.phase = "returned" /\ d.id = dispatch.id /\ MoveTo(d)
          /\ dispatch.phase = "issued"
        BY <1>0, <1>9, <2>1 DEF EngineAnswers, Dispatches
    <2> HIDE DEF d
    <2> QED BY <2>2, MoveInv DEF InHand
<1>10. CASE SendFails \/ FinishFails
    <2> DEFINE d == [dispatch EXCEPT !.phase = "erred", !.outcome = "unknown"]
    <2>1. /\ d.phase = "erred" /\ d.outcome = "unknown" /\ d.id = dispatch.id /\ (MoveTo(d) \/ FailsTo(d))
          /\ dispatch.phase \in {"calling", "issued", "returned"}
        BY <1>0, <1>10 DEF SendFails, FinishFails, Dispatches
    <2> HIDE DEF d
    <2> QED BY <2>1, MoveInv DEF InHand
<1>11. CASE FinishDelivery
    <2> DEFINE id == dispatch.id
               sent == Retire(queue, id)
               r == IF PauseApplies THEN SetPause(sent, dispatch.outcome) ELSE sent
    <2>1. /\ id \in Ids /\ dispatch.outcome \in Results
          /\ queue.restartPause = "none" /\ Records(r, seen.owed, NoDispatch)
        BY <1>0, <1>11 DEF FinishDelivery, InHand, TypeOK, DispatchOK, Inv, RestartHoldsDispatch
    <2>2. /\ sent \in Queues /\ Consistent(sent) /\ sent.entry[id].status = "absent"
          /\ \A i \in Ids \ {id} : sent.entry[i] = queue.entry[i]
          /\ id \in Range(sent.completed) /\ sent.restartPause = "none"
        BY <1>0, <2>1, RetireConsistent, RetireType
    <2> HIDE DEF sent
    <2>3. /\ r \in Queues /\ r.entry = sent.entry /\ r.order = sent.order
          /\ r.completed = sent.completed /\ r.restartPause = "none"
          /\ r.paused \/ r.paused = sent.paused
        <3>1. PauseApplies => dispatch.outcome \in {"stop", "error"}
            BY <2>1 DEF PauseApplies, Results
        <3> QED BY <2>2, <3>1 DEF SetPause, Queues
    <2> HIDE DEF r
    <2>4. Consistent(r)
        <3>1. PausedIfUndecided(r) /\ RestartIsStop(r)
            BY <2>2, <2>3 DEF Consistent, PausedIfUndecided, RestartIsStop, Has
        <3> QED BY <2>2, <2>3, <3>1, MarkConsistent
    <2>5. ASSUME NEW i \in Ids, ~(r.entry[i].status = "absent" /\ i \in Range(r.completed))
          PROVE  QuietOn(r, i)
        <3>1. r.entry[i] = queue.entry[i]  BY <2>2, <2>3, <2>5
        <3> QED BY <3>1 DEF QuietOn
    <2> QED BY <1>0, <2>1, <2>3, <2>4, <2>5, LetGoInv
<1>12. CASE ConfirmSend
    <2> DEFINE c == [dispatch EXCEPT !.phase = "settling", !.outcome = "confirmed"]
               d == [dispatch EXCEPT !.phase = "settling"]
    <2>1. /\ c.phase = "settling" /\ c.id = dispatch.id /\ c.outcome # "prep"
          /\ d.phase = "settling" /\ d.id = dispatch.id /\ d.outcome = dispatch.outcome
          /\ dispatch.phase = "erred"
          /\ MoveTo(NoDispatch) \/ MoveTo(c) \/ MoveTo(d)
        BY <1>0, <1>12 DEF ConfirmSend, GoTo, Dispatches
    <2>2. dispatch.outcome # "prep"
        BY <2>1 DEF Inv, ErredIsUnknown
    <2> HIDE DEF c, d
    <2>3. CASE MoveTo(NoDispatch)  BY <1>0, <2>3, MoveInv DEF InHand
    <2>4. CASE MoveTo(c)  BY <2>1, <2>4, MoveInv DEF InHand
    <2>5. CASE MoveTo(d)  BY <2>1, <2>2, <2>5, MoveInv DEF InHand
    <2> QED BY <2>1, <2>3, <2>4, <2>5
<1>13. CASE Settle
    <2> DEFINE id == dispatch.id
               status == Unsettled(dispatch.outcome)
               marked == IF queue.entry[id].status = "absent" THEN queue
                         ELSE [queue EXCEPT !.entry[id].status = status]
               p == SetPause(marked, "error")
               left == Retire(queue, id)
    <2>1. /\ id \in Ids /\ queue.restartPause = "none" /\ dispatch.phase = "settling"
        BY <1>0, <1>13 DEF Settle, InHand, Inv, RestartHoldsDispatch
    <2>2. CASE dispatch.outcome = "confirmed"
        <3>1. Records(left, seen.owed, NoDispatch)
            BY <1>13, <2>2 DEF Settle
        <3>2. /\ left \in Queues /\ Consistent(left) /\ left.entry[id].status = "absent"
              /\ \A i \in Ids \ {id} : left.entry[i] = queue.entry[i]
              /\ id \in Range(left.completed) /\ left.restartPause = "none"
            BY <1>0, <2>1, RetireConsistent, RetireType
        <3> HIDE DEF left
        <3>3. \A i \in Ids : \/ QuietOn(left, i)
                             \/ left.entry[i].status = "absent" /\ i \in Range(left.completed)
            <4> SUFFICES ASSUME NEW i \in Ids, ~(left.entry[i].status = "absent" /\ i \in Range(left.completed))
                         PROVE  QuietOn(left, i)
                OBVIOUS
            <4>1. left.entry[i] = queue.entry[i]  BY <3>2
            <4> QED BY <4>1 DEF QuietOn
        <3> QED BY <1>0, <3>1, <3>2, <3>3, LetGoInv
    <2>3. CASE dispatch.outcome # "confirmed"
        <3>1. Records(p, seen.owed, NoDispatch)
            BY <1>13, <2>3 DEF Settle
        <3>2. /\ status \in {"failed", "uncertain"}
              /\ status = "failed" => NotYetAsked
            BY <2>1 DEF Unsettled, NotYetAsked
        <3> HIDE DEF status
        <3>3. /\ marked \in Queues
              /\ queue.entry[id].status # "absent" => marked.entry[id].status = status
              /\ queue.entry[id].status = "absent" => marked.entry[id] = queue.entry[id]
              /\ marked.entry[id].token = queue.entry[id].token
              /\ \A i \in Ids \ {id} : marked.entry[i] = queue.entry[i]
              /\ marked.order = queue.order /\ marked.completed = queue.completed
              /\ marked.restartPause = "none"
            <4> DEFINE E == [queue.entry EXCEPT ![id].status = status]
            <4>1. queue.entry \in [Ids -> Entries]  BY <1>0 DEF Queues
            <4>2. /\ E \in [Ids -> Entries]
                  /\ E[id].status = status /\ E[id].token = queue.entry[id].token
                <5> HIDE DEF id
                <5>1. queue.entry[id] \in Entries /\ status \in Statuses
                    BY <2>1, <3>2, <4>1 DEF Statuses
                <5>2. [queue.entry[id] EXCEPT !.status = status] \in Entries
                    BY <5>1, EntryType
                <5> QED BY <2>1, <4>1, <5>1, <5>2 DEF Entries
            <4> HIDE DEF id
            <4> QED BY <1>0, <2>1, <4>1, <4>2 DEF Queues
        <3> HIDE DEF marked
        <3>4. /\ p \in Queues /\ p.entry = marked.entry /\ p.order = queue.order
              /\ p.completed = queue.completed /\ p.paused /\ p.restartPause = "none"
            BY <3>3 DEF SetPause, Queues
        <3> HIDE DEF p
        <3>5. Consistent(p)
            <4>1. ASSUME NEW i \in Ids
                  PROVE  \/ p.entry[i].status = queue.entry[i].status
                         \/ /\ queue.entry[i].status # "absent"
                            /\ p.entry[i].status \in {"queued", "failed", "uncertain"}
                <5>1. CASE i = id  BY <3>2, <3>3, <3>4, <5>1
                <5>2. CASE i # id  BY <3>3, <3>4, <5>2
                <5> QED BY <5>1, <5>2
            <4>2. PausedIfUndecided(p) /\ RestartIsStop(p)
                BY <3>4 DEF PausedIfUndecided, RestartIsStop
            <4> QED BY <1>0, <3>4, <4>1, <4>2, MarkConsistent
        <3>6. ASSUME NEW i \in Ids \ seen.forgotten
              PROVE  \/ QuietOn(p, i)
                     \/ /\ queue.entry[i].status = "sending"
                        /\ p.entry[i].token = queue.entry[i].token
                        /\ \/ p.entry[i].status = "uncertain"
                           \/ p.entry[i].status = "failed" /\ NotYetAsked /\ dispatch.id = i
            <4>1. CASE i = id
                <5>1. ~removed  BY <3>1 DEF Records, WriteHere, TypeOK
                <5>2. queue.entry[id].status = "sending"
                    BY <2>1, <4>1, <5>1 DEF Inv, InHandStays, InHand
                <5> QED BY <3>2, <3>3, <3>4, <4>1, <5>2
            <4>2. CASE i # id
                <5>1. p.entry[i] = queue.entry[i]  BY <3>3, <3>4, <4>2
                <5> QED BY <5>1 DEF QuietOn
            <4> QED BY <4>1, <4>2
        <3> QED BY <1>0, <3>1, <3>4, <3>5, <3>6, LetGoInv
    <2> QED BY <2>2, <2>3
<1> QED BY <1>1, <1>2, <1>3, <1>4, <1>5, <1>6, <1>7, <1>8, <1>9, <1>10, <1>11, <1>12, <1>13
        DEF Dispatch

-----------------------------------------------------------------------------
(* The ticks.                                                              *)

\* Every step of a tick keeps the invariant, whatever happened since it began.
LEMMA TickInv == ASSUME NEW t \in Ticks PROVE TypeOK /\ TypeOK' /\ Inv /\ Tick(t) => Safely
<1> SUFFICES ASSUME TypeOK, TypeOK', Inv, Tick(t) PROVE Safely
    OBVIOUS
<1>0. /\ queue \in Queues /\ Consistent(queue) /\ seen.owed \in SUBSET Debts
      /\ tick \in [Ticks -> TickStates] /\ Pursued(NoTick) = {}
      /\ \A u \in Ticks : \A i \in Pursued(tick[u]) : removed \/ Past(i)
    BY DEF TypeOK, Observations, Inv, TicksPursueThePast, Pursued, NoTick
\* What the tick is after stays in the past.
<1>1. ASSUME NEW v, SetTick(t, v), \A i \in Pursued(v) : removed \/ Past(i)
      PROVE  \A u \in Ticks : \A i \in Pursued(tick'[u]) : removed \/ Past(i)
    <2>1. tick' = [tick EXCEPT ![t] = v]  BY <1>1 DEF SetTick
    <2> SUFFICES ASSUME NEW u \in Ticks, NEW i \in Pursued(tick'[u]) PROVE removed \/ Past(i)
        OBVIOUS
    <2>2. CASE u = t
        <3>1. tick'[u] = v  BY <1>0, <2>1, <2>2
        <3> QED BY <1>1, <3>1
    <2>3. CASE u # t
        <3>1. tick'[u] = tick[u]  BY <1>0, <2>1, <2>3
        <3> QED BY <1>0, <3>1
    <2> QED BY <2>2, <2>3
<1>2. ASSUME dispatch' = dispatch \/ (dispatch.phase = "none" /\ dispatch'.phase = "checking"),
             UNCHANGED deleting
      PROVE  Onward /\ DeletionExcludesSend'
    BY <1>2 DEF Onward, NotYetAsked, InHand, Inv, ErredIsUnknown, DeletionExcludesSend
\* It moves on without a write.
<1>3. ASSUME NEW v, TickTo(t, v), UNCHANGED dispatch \/ Start(queue),
             \A i \in Pursued(v) : removed \/ Past(i)
      PROVE  Safely
    <2>1. /\ UNCHANGED <<queue, seen, removed, deleting, gone, requests>> /\ SetTick(t, v)
        BY <1>3 DEF TickTo, TickOnly, server, gate, engine
    <2>2. QuietStep  BY <2>1, StillQuiet
    <2>3. dispatch' = dispatch \/ (dispatch.phase = "none" /\ dispatch'.phase = "checking")
        BY <1>3, StartType
    <2> QED BY <1>1, <1>2, <1>3, <2>1, <2>2, <2>3, QuietInv
\* It writes.
<1>4. ASSUME NEW q, Proper(q), WriteHere(q, seen.owed), NEW v, SetTick(t, v),
             \A i \in Pursued(v) : removed \/ Past(i), UNCHANGED dispatch, TickOnly
      PROVE  Safely
    <2>1. /\ Write(q, seen.owed) /\ ~removed
          /\ UNCHANGED <<removed, deleting, gone, requests>>
        BY <1>4 DEF WriteHere, TickOnly, TypeOK, server, gate, engine
    <2>2. QuietStep  BY <1>0, <1>4, <2>1, WriteQuiet DEF Proper
    <2> QED BY <1>1, <1>2, <1>4, <2>1, <2>2, QuietInv
<1>5. CASE TickBegin(t)
    <2> DEFINE v == [NoTick EXCEPT !.at = "scan", !.leased = Leased(queue),
                            !.todo = { i \in Ids : /\ queue.entry[i].status = "uncertain"
                                                   /\ IsPrompt(i) }]
    <2>1. \A i \in Pursued(v) : Past(i)  BY DEF Pursued, Past, NoTick
    <2>2. (TickTo(t, v) /\ UNCHANGED dispatch) \/ (TickTo(t, NoTick) /\ Start(queue))
        BY <1>5 DEF TickBegin
    <2> HIDE DEF v
    <2> QED BY <1>0, <1>3, <2>1, <2>2
<1>6. CASE TickLands(t)
    <2> DEFINE i == tick[t].id
               left == Retire(queue, i)
               q == IF LiftsPause(left) THEN [left EXCEPT !.paused = FALSE, !.reason = "none"]
                    ELSE left
               v == [tick[t] EXCEPT !.at = "scan", !.id = NoId]
    <2>1. /\ WriteHere(q, seen.owed) /\ SetTick(t, v) /\ UNCHANGED dispatch /\ TickOnly
          /\ tick[t].at = "land" /\ ~removed
        BY <1>6 DEF TickLands, WriteHere, TypeOK
    <2>2. i \in Ids /\ i \in Pursued(tick[t])
        BY <2>1 DEF TypeOK, Pursued
    <2>3. Past(i) /\ \A j \in Pursued(v) : Past(j)
        <3>1. Pursued(v) \subseteq Pursued(tick[t])  BY <1>0 DEF Pursued, TickStates
        <3> QED BY <1>0, <2>1, <2>2, <3>1
    <2>4. /\ left \in Queues /\ Consistent(left) /\ left.entry[i].status = "absent"
          /\ \A j \in Ids \ {i} : left.entry[j] = queue.entry[j]
          /\ i \in Range(left.completed) /\ left.restartPause = queue.restartPause
        <3>1. Absent.status = "absent"  BY DEF Absent
        <3> QED BY <1>0, <2>2, <3>1, RetireConsistent, RetireType
    <2> HIDE DEF left
    <2>5. /\ q \in Queues /\ q.entry = left.entry /\ q.completed = left.completed
          /\ q.restartPause = left.restartPause
        BY <2>4 DEF Queues
    <2>6. Consistent(q)
        <3>1. CASE LiftsPause(left)
            <4> DEFINE r == [left EXCEPT !.paused = FALSE, !.reason = "none"]
            <4>1. /\ r \in Queues /\ r.entry = left.entry /\ r.order = left.order
                  /\ r.completed = left.completed /\ r.restartPause = left.restartPause
                BY <2>4 DEF Queues
            <4>2. left.restartPause = "none" /\ ~Has(left, "uncertain")
                BY <2>4, <3>1 DEF LiftsPause, Consistent, RestartIsStop
            <4> HIDE DEF r
            <4>3. PausedIfUndecided(r) /\ RestartIsStop(r)
                BY <4>1, <4>2 DEF PausedIfUndecided, RestartIsStop, Has
            <4>4. Consistent(r)  BY <2>4, <4>1, <4>3, MarkConsistent
            <4> QED BY <3>1, <4>4 DEF r
        <3>2. CASE ~LiftsPause(left)  BY <2>4, <3>2
        <3> QED BY <3>1, <3>2
    <2> HIDE DEF q
    <2>7. ASSUME NEW j \in Ids \ seen.forgotten PROVE QuietOn(q, j)
        <3>1. CASE j = i
            <4>1. queue.entry[i].status # "sending"  BY <2>3, <3>1 DEF Past
            <4> QED BY <2>4, <2>5, <3>1, <4>1 DEF QuietOn
        <3>2. CASE j # i
            <4>1. q.entry[j] = queue.entry[j]  BY <2>4, <2>5, <3>2
            <4> QED BY <4>1, SameQuiet
        <3> QED BY <3>1, <3>2
    <2>8. Proper(q)  BY <2>4, <2>5, <2>6, <2>7 DEF Proper
    <2> HIDE DEF v, i
    <2> QED BY <1>4, <2>1, <2>3, <2>8
<1>7. CASE TickFails(t)
    <2>1. /\ UNCHANGED <<queue, seen, dispatch, removed, deleting, gone, requests>>
          /\ SetTick(t, NoTick)
        BY <1>7 DEF TickFails, WriteFails, TickOnly, server, gate, engine
    <2>2. QuietStep  BY <2>1, StillQuiet
    <2> QED BY <1>0, <1>1, <1>2, <2>1, <2>2, QuietInv
<1>8. CASE TickDropsLeases(t)
    <2> DEFINE v == [tick[t] EXCEPT !.leased = FALSE]
    <2>1. Proper(DropDue(queue))  BY FreshProper DEF Fresh
    <2>2. Pursued(v) = Pursued(tick[t])  BY <1>0 DEF Pursued, TickStates
    <2>3. /\ WriteHere(DropDue(queue), seen.owed) /\ SetTick(t, v)
          /\ UNCHANGED dispatch /\ TickOnly
        BY <1>8 DEF TickDropsLeases
    <2> HIDE DEF v
    <2> QED BY <1>0, <1>4, <2>1, <2>2, <2>3
<1>9. CASE TickStarts(t)
    BY <1>0, <1>3, <1>9 DEF TickStarts
<1>10. ASSUME NEW i \in Ids, TickConfirms(t, i) PROVE Safely
    <2> DEFINE v == [Scanned(t, i) EXCEPT !.at = "land", !.id = i]
    <2>1. TickTo(t, v) /\ UNCHANGED dispatch /\ i \in tick[t].todo
        BY <1>10 DEF TickConfirms
    <2>2. Pursued(v) \subseteq Pursued(tick[t])
        BY <1>0, <2>1 DEF Pursued, Scanned, TickStates
    <2> HIDE DEF v
    <2> QED BY <1>0, <1>3, <2>1, <2>2
<1>11. ASSUME NEW i \in Ids, TickMisses(t, i) PROVE Safely
    <2>1. TickTo(t, Scanned(t, i)) /\ UNCHANGED dispatch
        BY <1>11 DEF TickMisses
    <2>2. Pursued(Scanned(t, i)) \subseteq Pursued(tick[t])
        BY <1>0 DEF Pursued, Scanned, TickStates
    <2> QED BY <1>0, <1>3, <2>1, <2>2
<1> QED BY <1>5, <1>6, <1>7, <1>8, <1>9, <1>10, <1>11 DEF Tick

-----------------------------------------------------------------------------
(* Leases, stopping, restarting and deleting.                              *)

\* The empty queue, as it is at the start and after the chat was deleted.
LEMMA NoQueueFacts ==
    /\ Consistent(NoQueue) /\ NoQueue.restartPause = "none" /\ Range(NoQueue.completed) = {}
    /\ \A i \in Ids : NoQueue.entry[i].status = "absent" /\ NoQueue.entry[i].token = NoToken
<1>1. /\ NoQueue.restartPause = "none" /\ NoQueue.completed = <<>>
      /\ \A i \in Ids : NoQueue.entry[i].status = "absent" /\ NoQueue.entry[i].token = NoToken
    BY DEF NoQueue, Absent
<1>2. Range(NoQueue.completed) = {}  BY <1>1, EmptySeq DEF Range
<1> HIDE DEF NoQueue
<1>3. Consistent(NoQueue)
    BY <1>1, <1>2
       DEF Consistent, PausedIfUndecided, RestartIsStop, SendingFirst, CompletedIsGone, Has
<1> QED BY <1>1, <1>2, <1>3

\* A lease that runs out changes no status.
LEMMA LeaseInv ==
    ASSUME NEW i \in Ids PROVE TypeOK /\ TypeOK' /\ Inv /\ LeaseRunsOut(i) => Safely
<1> SUFFICES ASSUME TypeOK, TypeOK', Inv, LeaseRunsOut(i) PROVE Safely
    OBVIOUS
<1>1. /\ queue.entry[i].token # NoToken
      /\ queue' = [queue EXCEPT !.entry[i].due = TRUE]
      /\ UNCHANGED <<seen, removed, dispatch, tick, deleting, gone, requests>>
    BY DEF LeaseRunsOut, server, gate, engine
<1>2. queue # NoQueue  BY <1>1, NoQueueFacts
<1>3. /\ \A j \in Ids : /\ queue'.entry[j].status = queue.entry[j].status
                        /\ queue'.entry[j].token = queue.entry[j].token
      /\ queue'.order = queue.order /\ queue'.completed = queue.completed
      /\ queue'.paused = queue.paused /\ queue'.reason = queue.reason
      /\ queue'.restartPause = queue.restartPause /\ queue'.revision = queue.revision
    <2> DEFINE E == [queue.entry EXCEPT ![i].due = TRUE]
    <2>1. queue \in Queues /\ queue.entry \in [Ids -> Entries]  BY DEF TypeOK, Queues
    <2>2. \A j \in Ids : /\ E[j].status = queue.entry[j].status
                         /\ E[j].token = queue.entry[j].token
        BY <2>1 DEF Entries
    <2>3. queue' = [queue EXCEPT !.entry = E]  BY <1>1, <2>1
    <2> HIDE DEF E
    <2> QED BY <2>1, <2>2, <2>3 DEF Queues
<1>4. Consistent(queue')
    <2>1. queue \in Queues /\ queue' \in Queues /\ Consistent(queue)  BY DEF TypeOK, Inv
    <2>2. PausedIfUndecided(queue') /\ RestartIsStop(queue')
        BY <1>3, <2>1 DEF Consistent, PausedIfUndecided, RestartIsStop, Has
    <2> QED BY <1>3, <2>1, <2>2, MarkConsistent
<1>5. NoFileIsEmpty' /\ RemovedStaysEmpty'
    BY <1>1, <1>2, <1>3 DEF Inv, NoFileIsEmpty, RemovedStaysEmpty
<1>6. QuietStep
    BY <1>1, <1>3, <1>4, <1>5 DEF QuietStep, Quiet
<1>7. Onward /\ DeletionExcludesSend'
    BY <1>1 DEF Onward, NotYetAsked, Inv, ErredIsUnknown, DeletionExcludesSend
<1>8. \A t \in Ticks : \A j \in Pursued(tick'[t]) : removed \/ Past(j)
    BY <1>1 DEF Inv, TicksPursueThePast
<1> QED BY <1>1, <1>6, <1>7, <1>8, QuietInv

\* Steps that touch neither the queue nor the dispatcher.
LEMMA AsideInv ==
    ASSUME TypeOK, TypeOK', Inv,
           UNCHANGED <<queue, seen, removed, dispatch, tick, requests, gone>>,
           deleting' => deleting \/ dispatch.phase \notin {"calling", "issued"}
    PROVE  Safely
<1>1. QuietStep  BY StillQuiet
<1>2. Onward /\ DeletionExcludesSend'
    BY DEF Onward, NotYetAsked, Inv, ErredIsUnknown, DeletionExcludesSend
<1>3. \A t \in Ticks : \A j \in Pursued(tick'[t]) : removed \/ Past(j)
    BY DEF Inv, TicksPursueThePast
<1> QED BY <1>1, <1>2, <1>3, QuietInv

\* The next process finds what was being sent undecided, and the queue paused.
LEMMA RestartInv == TypeOK /\ TypeOK' /\ Inv /\ Restart => Safely
<1> SUFFICES ASSUME TypeOK, TypeOK', Inv, Restart PROVE Safely
    OBVIOUS
<1>1. /\ dispatch'.phase = "none" /\ ~removed' /\ ~deleting'
      /\ \A t \in Ticks : Pursued(tick'[t]) = {}
      /\ UNCHANGED <<gone, requests>> /\ seen'.forgotten = seen.forgotten
    BY DEF Restart, NoDispatch, NoTick, Pursued, engine, TypeOK, Observations
<1>2. /\ Consistent(queue') /\ NoFileIsEmpty' /\ queue'.completed = queue.completed
      /\ \A i \in Ids : /\ queue'.entry[i].token = NoToken
                        /\ queue.entry[i].status \in {"sending", "uncertain"} =>
                              queue'.entry[i].status = "uncertain"
    <2>1. CASE queue.revision = 0
        <3>1. queue = NoQueue /\ queue' = NoQueue
            BY <2>1 DEF Inv, NoFileIsEmpty, Restart
        <3> QED BY <3>1, NoQueueFacts DEF NoFileIsEmpty
    <2>2. CASE queue.revision # 0
        <3>0. queue \in Queues /\ Consistent(queue) /\ \A i \in Ids : queue.entry[i] \in Entries
            BY DEF TypeOK, Inv, Queues
        <3>1. /\ Interrupted \in Queues /\ Loaded \in Queues
              /\ Interrupted.entry = [i \in Ids |-> Restored(queue.entry[i])]
              /\ Loaded.entry = Interrupted.entry /\ Loaded.order = queue.order
              /\ Loaded.completed = queue.completed
            BY <3>0, LoadedType
        <3>2. \A i \in Ids : /\ Loaded.entry[i].token = NoToken
                             /\ queue.entry[i].status = "sending" =>
                                   Loaded.entry[i].status = "uncertain"
                             /\ queue.entry[i].status # "sending" =>
                                   Loaded.entry[i].status = queue.entry[i].status
            <4> SUFFICES ASSUME NEW e \in Entries
                         PROVE  /\ Restored(e).token = NoToken
                                /\ e.status = "sending" => Restored(e).status = "uncertain"
                                /\ e.status # "sending" => Restored(e).status = e.status
                BY <3>0, <3>1
            <4> QED BY DEF Restored, Unlease, Entries
        <3>3. ~Has(Loaded, "sending")  BY <3>2 DEF Has
        <3>4. Interrupted = IF Has(queue, "sending")
                            THEN SetPause([queue EXCEPT !.entry = Interrupted.entry], "error")
                            ELSE [queue EXCEPT !.entry = Interrupted.entry]
            BY <3>1 DEF Interrupted
        <3>5. /\ Has(queue, "sending") => Interrupted.paused
              /\ ~Has(queue, "sending") => /\ Interrupted.paused = queue.paused
                                           /\ Interrupted.reason = queue.reason
              /\ Interrupted.restartPause = queue.restartPause
            <4> DEFINE E == Interrupted.entry
            <4> HIDE DEF E
            <4> QED BY <3>0, <3>4 DEF E, SetPause, Queues
        <3>6. \/ Loaded = Interrupted
              \/ Loaded.paused /\ Loaded.reason = "stop"
            <4>1. CASE LiftsItself(Interrupted) /\ Has(Interrupted, "queued")
                <5> DEFINE why == IF Has(Interrupted, "uncertain") THEN "interrupted" ELSE "waiting"
                <5>1. Loaded = [SetPause(Interrupted, "stop") EXCEPT !.restartPause = why]
                    BY <4>1 DEF Loaded
                <5> HIDE DEF why
                <5> QED BY <3>1, <5>1 DEF SetPause, Queues
            <4>2. CASE ~(LiftsItself(Interrupted) /\ Has(Interrupted, "queued"))
                BY <4>2 DEF Loaded
            <4> QED BY <4>1, <4>2
        <3>7. RestartIsStop(Loaded)
            BY <3>0, <3>3, <3>5, <3>6 DEF Consistent, RestartIsStop
        <3>8. PausedIfUndecided(Loaded)
            <4> SUFFICES ASSUME Has(Loaded, "uncertain"), Loaded = Interrupted PROVE Loaded.paused
                BY <3>6 DEF PausedIfUndecided
            <4>1. Has(queue, "sending") \/ Has(queue, "uncertain")
                BY <3>2 DEF Has
            <4> QED BY <3>0, <3>5, <4>1 DEF Consistent, PausedIfUndecided
        <3>9. Consistent(Loaded)
            <4>1. SendingFirst(Loaded)  BY <3>3 DEF SendingFirst, Has
            <4>2. CompletedIsGone(Loaded)
                <5>1. Range(queue.completed) \subseteq Ids
                    <6>1. queue.completed \in Seq(Ids)  BY <3>0 DEF Queues
                    <6> QED BY <6>1, ElementOfSeq, LenProperties DEF Range
                <5> QED BY <3>0, <3>1, <3>2, <5>1 DEF Consistent, CompletedIsGone
            <4> QED BY <3>7, <3>8, <4>1, <4>2 DEF Consistent
        <3>10. queue' = [Loaded EXCEPT !.revision = queue.revision + 1]
            BY <2>2 DEF Restart
        <3>11. /\ queue'.entry = Loaded.entry /\ queue'.completed = Loaded.completed
               /\ queue'.order = Loaded.order /\ queue'.paused = Loaded.paused
               /\ queue'.reason = Loaded.reason /\ queue'.restartPause = Loaded.restartPause
               /\ queue'.revision # 0
            BY <3>0, <3>1, <3>10 DEF Queues
        <3>12. Consistent(queue')
            BY <3>9, <3>11
               DEF Consistent, PausedIfUndecided, RestartIsStop, SendingFirst, CompletedIsGone, Has
        <3> QED BY <3>1, <3>2, <3>11, <3>12 DEF NoFileIsEmpty
    <2> QED BY <2>1, <2>2
<1>3. AskedIsPast'
    BY <1>1, <1>2 DEF Inv, AskedIsPast, NotYetAsked
<1> QED BY <1>1, <1>2, <1>3
        DEF Inv, RemovedIsGone, RemovedStaysEmpty, DeletionExcludesSend, NobodyEditsASend,
            TicksPursueThePast, RestartHoldsDispatch, ErredIsUnknown, InHandStays, InHand,
            Safely, NothingRequeued

\* The steps of a deletion keep the invariant.
LEMMA DeletionInv ==
    ASSUME TypeOK, TypeOK', Inv,
           BeginDeletion \/ EngineDeletes \/ MarkRemoved \/ RemoveSession \/ EndDeletion
    PROVE  Safely
<1>1. CASE BeginDeletion \/ MarkRemoved \/ EndDeletion
    BY <1>1, AsideInv DEF BeginDeletion, MarkRemoved, EndDeletion, GateOnly, gate, engine
<1>2. CASE EngineDeletes
    <2>1. /\ gone' /\ UNCHANGED <<queue, seen, removed, dispatch, tick, requests, deleting>>
        BY <1>2 DEF EngineDeletes, GateOnly, engine
    <2>2. AskedIsPast'  BY <2>1 DEF Inv, AskedIsPast
    <2>3. TicksPursueThePast'  BY <2>1 DEF Inv, TicksPursueThePast, Past, Pursued
    <2> QED BY <2>1, <2>2, <2>3
            DEF Inv, NoFileIsEmpty, RemovedIsGone, RemovedStaysEmpty, DeletionExcludesSend,
                NobodyEditsASend, RestartHoldsDispatch, ErredIsUnknown, InHandStays,
                Safely, NothingRequeued
<1>3. CASE RemoveSession
    <2>1. /\ gone /\ removed' /\ queue' = NoQueue
          /\ UNCHANGED <<dispatch, tick, requests, deleting, gone>>
          /\ seen.forgotten \subseteq seen'.forgotten
        BY <1>3 DEF RemoveSession, GateOnly, gate, engine, TypeOK, Observations
    <2>2. AskedIsPast'  BY <2>1 DEF Inv, AskedIsPast
    <2> QED BY <2>1, <2>2, NoQueueFacts
            DEF Inv, NoFileIsEmpty, RemovedIsGone, RemovedStaysEmpty, DeletionExcludesSend,
                NobodyEditsASend, TicksPursueThePast, RestartHoldsDispatch, ErredIsUnknown,
                InHandStays, Safely, NothingRequeued
<1> QED BY <1>1, <1>2, <1>3

\* The invariant holds at the start.
LEMMA InitInv == Init => Inv
<1> SUFFICES ASSUME Init PROVE Inv
    OBVIOUS
<1>1. /\ queue = NoQueue /\ dispatch.phase = "none" /\ ~removed /\ ~deleting
      /\ \A t \in Ticks : Pursued(tick[t]) = {}
      /\ \A i \in Ids : requests[i] = 0
    BY DEF Init, NoDispatch, NoTick, Pursued
<1> QED BY <1>1, NoQueueFacts
        DEF Inv, NoFileIsEmpty, RemovedIsGone, RemovedStaysEmpty, DeletionExcludesSend,
            NobodyEditsASend, TicksPursueThePast, RestartHoldsDispatch, ErredIsUnknown,
            InHandStays, InHand, AskedIsPast

\* Every step keeps the invariant and sends nothing back to wait.
LEMMA NextInv == TypeOK /\ TypeOK' /\ Inv /\ [Next]_vars => Safely
<1> SUFFICES ASSUME TypeOK, TypeOK', Inv, [Next]_vars PROVE Safely
    OBVIOUS
<1>1. CASE Act  BY <1>1, ActInv
<1>2. CASE Dispatch  BY <1>2, DispatchInv
<1>3. ASSUME NEW i \in Ids, LeaseRunsOut(i) PROVE Safely  BY <1>3, LeaseInv
<1>4. ASSUME NEW i \in Ids, EngineAccepts(i) PROVE Safely
    BY <1>4, AsideInv DEF EngineAccepts, server, gate
<1>5. ASSUME NEW t \in Ticks, Tick(t) PROVE Safely  BY <1>5, TickInv
<1>6. CASE Stop
    BY <1>6, AsideInv DEF Stop, gate, engine
<1>7. CASE Restart  BY <1>7, RestartInv
<1>8. CASE BeginDeletion \/ EngineDeletes \/ MarkRemoved \/ RemoveSession \/ EndDeletion
    BY <1>8, DeletionInv
<1>9. CASE UNCHANGED vars
    BY <1>9, AsideInv DEF vars, server, gate, engine
<1> QED BY <1>1, <1>2, <1>3, <1>4, <1>5, <1>6, <1>7, <1>8, <1>9 DEF Next

-----------------------------------------------------------------------------
(* The theorems.                                                           *)

\* The invariant holds in every state of every behaviour.
THEOREM Invariant == Spec => [](TypeOK /\ Inv)
<1>1. TypeOK /\ Inv /\ TypeOK' /\ [Next]_vars => Inv'  BY NextInv DEF Safely
<1> QED BY <1>1, InitInv, TypeCorrect, PTL DEF Spec

\* A message is handed to the engine at most once, whatever crashes, disk
\* faults, lost answers, retries, edits and overlapping ticks come between, as
\* long as its id is among the completed ids the queue remembers.
THEOREM NeverSentTwice == Spec => []AtMostOnce
<1>1. Inv => AtMostOnce  BY DEF Inv, AskedIsPast, AtMostOnce
<1> QED BY <1>1, Invariant, PTL

\* A queue with an undecided delivery is paused.
THEOREM UndecidedPausesQueue == Spec => []UncertainPauses
<1>1. Inv => UncertainPauses  BY DEF Inv, Consistent, PausedIfUndecided, UncertainPauses
<1> QED BY <1>1, Invariant, PTL

\* The message being sent is the first of the queue, and so the only one.
THEOREM SendsTheHead == Spec => []SendingIsFirst
<1>1. Inv => SendingIsFirst  BY DEF Inv, Consistent, SendingFirst, SendingIsFirst
<1> QED BY <1>1, Invariant, PTL

\* What the dispatcher has in hand stays "sending" and nobody edits it.
THEOREM NothingTakesTheSend == Spec => []InHandStays
<1>1. Inv => InHandStays  BY DEF Inv
<1> QED BY <1>1, Invariant, PTL

\* The pause of a restart outlives the confirmation of the interrupted send.
THEOREM RestartWaitsForTheUser == Spec => []RestartPauseStands
<1>1. Inv => RestartPauseStands
    BY DEF Inv, Consistent, RestartIsStop, RestartHoldsDispatch, RestartPauseStands
<1> QED BY <1>1, Invariant, PTL

\* No write brings a deleted chat's queue back: the one that was under way is
\* over before the queue goes, and a later one is refused.
THEOREM RemovalIsFinal == Spec => []RemovedStaysEmpty
<1>1. Inv => RemovedStaysEmpty  BY DEF Inv
<1> QED BY <1>1, Invariant, PTL

\* A chat is not deleted while one of its messages is being sent.
THEOREM DeletionAndSendExclude == Spec => []DeletionExcludesSend
<1>1. Inv => DeletionExcludesSend  BY DEF Inv
<1> QED BY <1>1, Invariant, PTL

\* Nothing that was being sent or is undecided goes back to wait.
THEOREM NothingGoesBack == Spec => NeverRequeued
<1>1. /\ TypeOK /\ TypeOK' /\ Inv /\ [Next]_vars =>
            [\A i \in Ids \ seen.forgotten :
                LET was == queue.entry[i].status
                    is == queue'.entry[i].status
                IN /\ was = "sending" => is # "queued"
                   /\ was = "uncertain" => is \in {"uncertain", "absent"}]_vars
    BY NextInv DEF Safely, NothingRequeued
<1> QED BY <1>1, Invariant, PTL DEF Spec, NeverRequeued

=============================================================================
