------------------------ MODULE SessionMessageQueue ------------------------
(***************************************************************************)
(* The durable message queue of one chat: class SessionMessageQueue of     *)
(* apps/server/src/session-message-queue.ts, the transport that            *)
(* apps/server/src/routes/sessions.ts plugs into it and the send/delete    *)
(* gate of apps/server/src/session-execution-gate.ts.                      *)
(*                                                                         *)
(* One write of the queue (`change') is one step: the code chains the      *)
(* writes of a chat, replaces the file by a rename and publishes the       *)
(* in-memory copy after it.  Whatever the code awaits lies between steps:  *)
(* the idle check, the claim, the send, and each confirmation of each      *)
(* timer tick (ticks overlap: nothing guards them).  A refused request     *)
(* changes nothing and is not a step.                                      *)
(***************************************************************************)
EXTENDS Integers, Sequences, FiniteSets, SequencesExt

CONSTANTS
    Ids,            \* message ids the windows may submit
    Kinds,          \* kinds of messages they submit; a shell line is a command
    Tokens,         \* edit tokens
    Ticks,          \* timer ticks that may be under way at once
    NoToken, NoId,  \* "no lease" and "no message in delivery"
    QueueLimit,     \* entries a queue holds (100 in the code)
    CompletedLimit, \* completed ids it remembers (500 in the code)
    MaxActs,        \* bound: user requests that write the queue
    MaxFaults,      \* bound: writes that fail on the disk
    MaxRestarts     \* bound: crashes or restarts of the server

ASSUME KindAssumption == Kinds \subseteq {"prompt", "command"}
ASSUME TokenAssumption == NoToken \notin Tokens
ASSUME IdAssumption == NoId \notin Ids /\ IsFiniteSet(Ids)
ASSUME LimitAssumption == QueueLimit \in Nat \ {0} /\ CompletedLimit \in Nat \ {0}

VARIABLES
    queue,      \* the queue record, on disk and in memory
    stopped,    \* stop() was called on this process's queue
    closing,    \* removeSession() was not called, waits for a write, or is past it
    removed,    \* it has taken the queue from memory and from the disk
    dispatch,   \* the one dispatcher: `running', prepareDispatch, deliver
    tick,       \* the timer ticks under way
    deleting,   \* the deletion gate is held
    gone,       \* the engine deleted the session
    requests,   \* prompts issued to the engine, per id
    accepted,   \* ids whose message the engine took
    seen,       \* observations no step reads: forgotten ids, resumed since
                \* the claim, pauses owed to the user by origin
    used        \* what was used of the bounds

server == <<stopped, removed>>
gate == <<deleting, gone>>
engine == <<requests, accepted>>
vars == <<queue, closing, server, dispatch, tick, gate, engine, seen, used>>

Statuses == {"absent", "queued", "sending", "failed", "uncertain"}
Results == {"plain", "stop", "error"}
InHand == {"claimed", "calling", "issued", "returned", "erred", "settling"}

Absent == [status |-> "absent", kind |-> "none", token |-> NoToken, due |-> FALSE, last |-> NoToken]
NoQueue == [revision |-> 0, paused |-> FALSE, reason |-> "none", restartPause |-> "none",
            resumeRevision |-> 0, completed |-> <<>>, order |-> <<>>,
            entry |-> [i \in Ids |-> Absent]]
NoDispatch == [phase |-> "none", id |-> NoId, revision |-> 0, outcome |-> "none"]
NoTick == [at |-> "idle", todo |-> {}, id |-> NoId, leased |-> FALSE]

Init ==
    /\ queue = NoQueue
    /\ stopped = FALSE /\ closing = "open" /\ removed = FALSE
    /\ dispatch = NoDispatch /\ tick = [t \in Ticks |-> NoTick]
    /\ deleting = FALSE /\ gone = FALSE
    /\ requests = [i \in Ids |-> 0] /\ accepted = {}
    /\ seen = [forgotten |-> {}, resumed |-> FALSE, owed |-> {}]
    /\ used = [acts |-> 0, faults |-> 0, restarts |-> 0]

-----------------------------------------------------------------------------
(* What the steps do to a queue record.                                    *)

Has(q, status) == \E i \in Ids : q.entry[i].status = status
Leased(q) == \E i \in Ids : q.entry[i].token # NoToken
MutNeverOverdue(q) == FALSE
Overdue(q) == \E i \in Ids : q.entry[i].due
HeadQueued(q) == q.order # <<>> /\ q.entry[q.order[1]].status = "queued"

Unlease(e) == [e EXCEPT !.token = NoToken, !.due = FALSE]
\* Leases whose two minutes have passed are dropped.
DropDue(q) ==
    [q EXCEPT !.entry = [i \in Ids |-> IF q.entry[i].due THEN Unlease(q.entry[i])
                                       ELSE q.entry[i]]]

\* entries.filter(item => item.id !== id); ids are unique in `order'.
Without(s, i) ==
    IF \E k \in DOMAIN s : s[k] = i
    THEN RemoveAt(s, CHOOSE k \in DOMAIN s : s[k] = i) ELSE s

\* [...completedIds, id].slice(-500)
Remember(s, i) ==
    LET all == Append(s, i)
    IN IF Len(all) > CompletedLimit
       THEN SubSeq(all, Len(all) - CompletedLimit + 1, Len(all)) ELSE all

\* The entry leaves the queue and its id is remembered as completed.
Retire(q, i) ==
    [q EXCEPT !.entry[i] = Absent, !.order = Without(q.order, i),
              !.completed = Remember(q.completed, i)]

SetPause(q, why) == [q EXCEPT !.paused = TRUE, !.reason = why]
Unpause(q) ==
    [q EXCEPT !.paused = FALSE, !.reason = "none", !.restartPause = "none",
              !.resumeRevision = queue.revision + 1]

\* change(): one durable write of q, and what it lets an observer note.
Write(q, owed) ==
    /\ queue' = [q EXCEPT !.revision = queue.revision + 1]
    /\ seen' = [forgotten |-> seen.forgotten \cup (Range(queue.completed) \ Range(q.completed)),
                resumed |-> \/ q.resumeRevision # queue.resumeRevision
                            \/ seen.resumed /\ dispatch.phase # "claiming",
                owed |-> IF q.resumeRevision # queue.resumeRevision THEN {} ELSE owed]

\* The write that was under way when removeSession() was called is over.
Landed == closing' = IF closing = "writing" THEN "closed" ELSE closing
\* A write of the dispatcher or a tick.  It looks whether the session is being
\* removed when it begins: once it is, only the one under way still lands.
WriteHere(q, owed) == closing # "closed" /\ Write(q, owed) /\ Landed /\ UNCHANGED used
\* It is refused, or it fails on the disk: the queue is as it was.
WriteFails ==
    /\ \/ closing = "closed" /\ UNCHANGED <<closing, used>>
       \/ used.faults < MaxFaults /\ used' = [used EXCEPT !.faults = @ + 1] /\ Landed
    /\ UNCHANGED <<queue, seen>>

\* start(): what it reads before it takes the `running' flag and begins the
\* idle check.
Ready(q) == ~stopped /\ ~q.paused /\ HeadQueued(q) /\ ~Leased(q)
Start(q) ==
    dispatch' = IF dispatch.phase = "none" /\ Ready(q)
                THEN [NoDispatch EXCEPT !.phase = "checking"] ELSE dispatch

-----------------------------------------------------------------------------
(* Requests of the user's windows: act().                                  *)

Fresh == DropDue(queue)
\* Nothing is done to a message that is gone or being sent.
MutEditWhileSending(i) == queue.entry[i].status # "absent"
Editable(i) == queue.entry[i].status \notin {"absent", "sending"}

Request(q, owed) ==
    /\ used.acts < MaxActs /\ used' = [used EXCEPT !.acts = @ + 1]
    /\ ~deleting /\ ~gone /\ closing = "open"
    /\ Write(q, owed)
    /\ Start(q)
    /\ UNCHANGED <<closing, server, tick, gate, engine>>

\* A new message lifts a Stop unless a delivery is undecided.
EnqueueNew(i, kind) ==
    /\ queue.entry[i].status = "absent" /\ i \notin Range(queue.completed)
    /\ Len(queue.order) < QueueLimit
    /\ LET added == [Fresh EXCEPT !.order = Append(@, i),
                                  !.entry[i] = [@ EXCEPT !.status = "queued", !.kind = kind]]
           resumes == queue.paused /\ queue.reason = "stop" /\ ~Has(queue, "uncertain")
       IN Request(IF resumes THEN Unpause(added) ELSE added, seen.owed \ {"restart"})

\* A retried enqueue changes no entry, but it is still a write.
EnqueueAgain(i) ==
    /\ queue.entry[i].status # "absent" \/ i \in Range(queue.completed)
    /\ Request(Fresh, seen.owed)

\* An edit may make a command of a prompt.
SubmitEdit(i, k, kind) ==
    /\ i \notin Range(queue.completed) /\ Editable(i)
    /\ queue.entry[i].last # k /\ Fresh.entry[i].token = k
    /\ Request([Fresh EXCEPT !.entry[i] =
                   [Absent EXCEPT !.status = "queued", !.kind = kind, !.last = k]], seen.owed)

Pause(why) ==
    Request([SetPause(Fresh, why) EXCEPT !.restartPause = "none"], seen.owed \cup {"user"})

Resume ==
    /\ ~Leased(Fresh) /\ ~Has(queue, "uncertain")
    /\ LET retried == [i \in Ids |-> IF Fresh.entry[i].status = "failed"
                                     THEN [Fresh.entry[i] EXCEPT !.status = "queued"]
                                     ELSE Fresh.entry[i]]
       IN Request(Unpause([Fresh EXCEPT !.entry = retried]), {})

Waiting == { i \in Ids : queue.entry[i].status \notin {"absent", "sending"} }
InFlight ==
    IF queue.order # <<>> /\ queue.entry[queue.order[1]].status = "sending"
    THEN <<queue.order[1]>> ELSE <<>>

MutReorderAnything ==
    \E ids \in SetToSeqs({ i \in Ids : queue.entry[i].status # "absent" }) :
        Request([Fresh EXCEPT !.order = ids], seen.owed)
\* What is being sent keeps its place at the head.
Reorder ==
    \E ids \in SetToSeqs(Waiting) : Request([Fresh EXCEPT !.order = InFlight \o ids], seen.owed)

OpenEdit(i, k) ==
    /\ Editable(i) /\ queue.entry[i].status # "uncertain"
    /\ Fresh.entry[i].token \in {NoToken, k}
    /\ Request([Fresh EXCEPT !.entry[i].token = k], seen.owed)

ReleaseEdit(i, k) ==
    /\ Editable(i) /\ Fresh.entry[i].token = k
    /\ Request([Fresh EXCEPT !.entry[i] = Unlease(@)], seen.owed)

\* A lease that has not run out is good for another two minutes.
RenewEdit(i, k) ==
    /\ Editable(i) /\ Fresh.entry[i].token = k
    /\ Request(Fresh, seen.owed)

RemoveEntry(i) ==
    /\ Editable(i) /\ Fresh.entry[i].token = NoToken
    /\ Request(Retire(Fresh, i), seen.owed)

Act ==
    \/ \E i \in Ids, kind \in Kinds :
          EnqueueNew(i, kind) \/ \E k \in Tokens : SubmitEdit(i, k, kind)
    \/ \E i \in Ids : EnqueueAgain(i) \/ RemoveEntry(i)
    \/ \E i \in Ids, k \in Tokens :
          OpenEdit(i, k) \/ ReleaseEdit(i, k) \/ RenewEdit(i, k)
    \/ \E why \in {"stop", "none"} : Pause(why)
    \/ Resume \/ Reorder

\* Two minutes pass without a renewal.
LeaseRunsOut(i) ==
    /\ queue.entry[i].token # NoToken /\ ~queue.entry[i].due
    /\ queue' = [queue EXCEPT !.entry[i].due = TRUE]
    /\ UNCHANGED <<closing, server, dispatch, tick, gate, engine, seen, used>>

-----------------------------------------------------------------------------
(* The dispatcher: prepareDispatch() and deliver().                        *)

DispatcherOnly == UNCHANGED <<server, tick, gate>>
\* The dispatcher moves on without a write.
MoveTo(d) ==
    dispatch' = d /\ UNCHANGED <<queue, closing, engine, seen, used>> /\ DispatcherOnly
GoTo(phase) == MoveTo([dispatch EXCEPT !.phase = phase])
\* Its write happens, or fails.
Records(q, owed, d) ==
    WriteHere(q, owed) /\ dispatch' = d /\ UNCHANGED engine /\ DispatcherOnly
FailsTo(d) == WriteFails /\ dispatch' = d /\ UNCHANGED engine /\ DispatcherOnly

MutBusyKeepsRunning == dispatch.phase = "checking" /\ GoTo("running")
\* The engine is busy, cannot be asked, or the server is stopping.
EngineBusy == dispatch.phase = "checking" /\ MoveTo(NoDispatch)
EngineIdle == dispatch.phase = "checking" /\ ~stopped /\ GoTo("claiming")

\* The guards are read again inside the write, after the idle check.
MayClaim == ~queue.paused /\ HeadQueued(queue) /\ ~Leased(queue)

Claim ==
    /\ dispatch.phase = "claiming" /\ MayClaim
    /\ Records([queue EXCEPT !.entry[queue.order[1]].status = "sending"], seen.owed,
               [phase |-> "claimed", id |-> queue.order[1], revision |-> queue.revision,
                outcome |-> "none"])

\* Too late to claim: the write still bumps the revision.
ClaimNothing ==
    dispatch.phase = "claiming" /\ ~MayClaim /\ Records(queue, seen.owed, NoDispatch)
ClaimFails == dispatch.phase = "claiming" /\ FailsTo(NoDispatch)

\* stop() between the claim and the send: the entry stays "sending" on disk.
AbandonClaim == dispatch.phase = "claimed" /\ stopped /\ MoveTo(NoDispatch)

\* withSessionExecution(..., true): wait for a deletion, then hold the gate.
MutSendIgnoresGate == dispatch.phase = "claimed" /\ GoTo("calling")
BeginSend == dispatch.phase = "claimed" /\ ~deleting /\ GoTo("calling")

\* QueuePreparationError: the chat or its execution could not be prepared.
PreparationFails ==
    dispatch.phase = "calling" /\ MoveTo([dispatch EXCEPT !.phase = "settling", !.outcome = "prep"])

IssueRequest ==
    /\ dispatch.phase = "calling" /\ ~gone
    /\ requests' = [requests EXCEPT ![dispatch.id] = @ + 1]
    /\ dispatch' = [dispatch EXCEPT !.phase = "issued"]
    /\ UNCHANGED <<queue, closing, accepted, seen, used>> /\ DispatcherOnly

\* The engine's terminal result: fine, aborted, or an error (of a command only
\* the protected runtime tells).
EngineAnswers ==
    /\ dispatch.phase = "issued" /\ dispatch.id \in accepted
    /\ \E result \in Results : MoveTo([dispatch EXCEPT !.phase = "returned", !.outcome = result])

\* The call failed, before or after the request went out.
SendFails ==
    /\ dispatch.phase \in {"calling", "issued"}
    /\ MoveTo([dispatch EXCEPT !.phase = "erred", !.outcome = "unknown"])

MutPauseStrict == dispatch.outcome # "plain" /\ queue.resumeRevision < dispatch.revision
MutPauseAlways == queue.resumeRevision <= dispatch.revision
\* A pause the result asks for yields to a resume that came after the claim.
PauseApplies == dispatch.outcome # "plain" /\ queue.resumeRevision <= dispatch.revision

FinishDelivery ==
    /\ dispatch.phase = "returned"
    /\ LET sent == Retire(queue, dispatch.id)
       IN Records(IF PauseApplies THEN SetPause(sent, dispatch.outcome) ELSE sent,
                  seen.owed, NoDispatch)

\* The message was sent but its completion could not be written.
FinishFails ==
    dispatch.phase = "returned" /\ FailsTo([dispatch EXCEPT !.phase = "erred", !.outcome = "unknown"])

\* confirmed(): the engine shows the message under its exact id.  That is asked
\* of prompts only: nothing of a command is kept under the id of the message.
IsPrompt(i) == queue.entry[i].kind = "prompt"
MutConfirmAny(i) == ~gone
MutConfirmNever(i) == FALSE
CanConfirm(i) == i \in accepted /\ ~gone

ConfirmSend ==
    /\ dispatch.phase = "erred"
    /\ \/ closing # "open" /\ MoveTo(NoDispatch)
       \/ closing = "open" /\ IsPrompt(dispatch.id) /\ CanConfirm(dispatch.id)
          /\ MoveTo([dispatch EXCEPT !.phase = "settling", !.outcome = "confirmed"])
       \/ closing = "open" /\ GoTo("settling")

MutRetryUnknown(outcome) == IF outcome = "prep" THEN "failed" ELSE "queued"
MutLeaveSending(outcome) == IF outcome = "prep" THEN "failed" ELSE "sending"
Unsettled(outcome) == IF outcome = "prep" THEN "failed" ELSE "uncertain"

Settle ==
    /\ dispatch.phase = "settling"
    /\ LET id == dispatch.id
           marked == IF queue.entry[id].status = "absent" THEN queue
                     ELSE [queue EXCEPT !.entry[id].status = Unsettled(dispatch.outcome)]
       IN Records(IF dispatch.outcome = "confirmed" THEN Retire(queue, id)
                  ELSE SetPause(marked, "error"), seen.owed, NoDispatch)

\* Neither outcome could be written: the entry stays "sending".
SettleFails == dispatch.phase = "settling" /\ FailsTo(NoDispatch)

Dispatch ==
    \/ EngineBusy \/ EngineIdle \/ Claim \/ ClaimNothing \/ ClaimFails \/ AbandonClaim
    \/ BeginSend \/ PreparationFails \/ IssueRequest \/ EngineAnswers \/ SendFails
    \/ FinishDelivery \/ FinishFails \/ ConfirmSend \/ Settle \/ SettleFails

\* The engine records a prompt it was sent, or takes up a command, whenever it
\* gets to it.
EngineAccepts(i) ==
    /\ requests[i] > 0 /\ i \notin accepted /\ ~gone
    /\ accepted' = accepted \cup {i}
    /\ UNCHANGED <<queue, closing, server, dispatch, tick, gate, requests, seen, used>>

-----------------------------------------------------------------------------
(* The timer: tick().  Each works from the queue it saw when it began.     *)

TickOnly == UNCHANGED <<server, gate, engine>>
SetTick(t, value) == tick' = [tick EXCEPT ![t] = value]
\* The tick moves on without a write.
TickTo(t, value) == SetTick(t, value) /\ UNCHANGED <<queue, closing, seen, used>> /\ TickOnly

\* With nothing undecided and no lease the tick runs through to start(); the
\* engine is asked about the undecided prompts.
TickBegin(t) ==
    /\ tick[t].at = "idle" /\ ~stopped /\ ~removed /\ queue.order # <<>>
    /\ IF Has(queue, "uncertain") \/ Leased(queue)
       THEN /\ TickTo(t, [NoTick EXCEPT !.at = "scan", !.leased = Leased(queue),
                            !.todo = { i \in Ids : /\ queue.entry[i].status = "uncertain"
                                                   /\ IsPrompt(i) }])
            /\ UNCHANGED dispatch
       ELSE TickTo(t, NoTick) /\ Start(queue)

Scanned(t, i) == [tick[t] EXCEPT !.todo = @ \ {i}]

TickConfirms(t, i) ==
    /\ tick[t].at = "scan" /\ i \in tick[t].todo /\ CanConfirm(i)
    /\ TickTo(t, [Scanned(t, i) EXCEPT !.at = "land", !.id = i])
    /\ UNCHANGED dispatch

\* The engine does not show the message, or cannot be asked.
TickMisses(t, i) ==
    /\ tick[t].at = "scan" /\ i \in tick[t].todo
    /\ TickTo(t, Scanned(t, i))
    /\ UNCHANGED dispatch

MutLiftAnyError(q) == q.reason = "error"
MutLiftAnyPause(q) == ~Has(q, "uncertain") /\ ~Has(q, "failed")
LiftsPause(q) == q.reason = "error" /\ ~Has(q, "uncertain") /\ ~Has(q, "failed")

\* Lands on the current queue, whatever happened since the tick began.
TickLands(t) ==
    /\ tick[t].at = "land"
    /\ LET left == Retire(queue, tick[t].id)
       IN WriteHere(IF LiftsPause(left) THEN [left EXCEPT !.paused = FALSE, !.reason = "none"]
                    ELSE left, seen.owed)
    /\ SetTick(t, [tick[t] EXCEPT !.at = "scan", !.id = NoId])
    /\ UNCHANGED dispatch /\ TickOnly

\* It saw a lease when it began, and a lease has run out by now.  (One that was
\* renewed in between costs the code a write that changes nothing, left out.)
Expiring(t) == tick[t].at = "scan" /\ tick[t].todo = {} /\ tick[t].leased /\ Overdue(queue)

TickDropsLeases(t) ==
    /\ Expiring(t)
    /\ WriteHere(DropDue(queue), seen.owed)
    /\ SetTick(t, [tick[t] EXCEPT !.leased = FALSE])
    /\ UNCHANGED dispatch /\ TickOnly

\* A failed write ends this tick; the next one starts over.
TickFails(t) ==
    /\ tick[t].at = "land" \/ Expiring(t)
    /\ WriteFails /\ SetTick(t, NoTick)
    /\ UNCHANGED dispatch /\ TickOnly

TickStarts(t) ==
    /\ tick[t].at = "scan" /\ tick[t].todo = {} /\ ~Expiring(t)
    /\ TickTo(t, NoTick) /\ Start(queue)

Tick(t) ==
    \/ TickBegin(t) \/ TickLands(t) \/ TickFails(t) \/ TickDropsLeases(t) \/ TickStarts(t)
    \/ \E i \in Ids : TickConfirms(t, i) \/ TickMisses(t, i)

-----------------------------------------------------------------------------
(* Stopping, restarting and deleting.                                      *)

Stop ==
    /\ ~stopped /\ stopped' = TRUE
    /\ UNCHANGED <<queue, closing, removed, dispatch, tick, gate, engine, seen, used>>

\* What load() makes of an entry: no lease survives, a send was interrupted.
MutResendInterrupted(e) ==
    IF e.status = "sending" THEN [Unlease(e) EXCEPT !.status = "queued"] ELSE Unlease(e)
Restored(e) ==
    IF e.status = "sending" THEN [Unlease(e) EXCEPT !.status = "uncertain"] ELSE Unlease(e)

\* load() marks an interrupted send as an error pause.
Interrupted ==
    LET q == [queue EXCEPT !.entry = [i \in Ids |-> Restored(queue.entry[i])]]
    IN IF Has(queue, "sending") THEN SetPause(q, "error") ELSE q

\* No pause, or one that the engine's confirmation lifts.
LiftsItself(q) == ~q.paused \/ (q.reason = "error" /\ ~Has(q, "failed"))

Loaded ==
    IF LiftsItself(Interrupted) /\ Has(Interrupted, "queued")
    THEN [SetPause(Interrupted, "stop") EXCEPT
            !.restartPause = IF Has(Interrupted, "uncertain") THEN "interrupted" ELSE "waiting"]
    ELSE Interrupted

\* The process dies at any point and another one loads the file, if any.  Files
\* are replaced by a rename, so no crash leaves one that load() would have to
\* set aside as invalid; damage from elsewhere, and a directory that cannot be
\* read (no request is served then), are left out.
Restart ==
    /\ used.restarts < MaxRestarts /\ used' = [used EXCEPT !.restarts = @ + 1]
    /\ queue' = IF queue.revision = 0 THEN NoQueue
                ELSE [Loaded EXCEPT !.revision = queue.revision + 1]
    /\ seen' = IF Has(queue, "queued") THEN [seen EXCEPT !.owed = @ \cup {"restart"}] ELSE seen
    /\ stopped' = FALSE /\ closing' = "open" /\ removed' = FALSE /\ deleting' = FALSE
    /\ dispatch' = NoDispatch /\ tick' = [t \in Ticks |-> NoTick]
    /\ UNCHANGED <<gone, engine>>

GateOnly == UNCHANGED <<stopped, dispatch, tick, engine, used>>

\* beginSessionDeletion(): refused while a send or another deletion is under way.
BeginDeletion ==
    /\ ~deleting /\ ~gone /\ dispatch.phase \notin {"calling", "issued"}
    /\ deleting' = TRUE
    /\ UNCHANGED <<queue, closing, removed, gone, seen>> /\ GateOnly

EngineDeletes ==
    /\ deleting /\ ~gone /\ gone' = TRUE
    /\ UNCHANGED <<queue, closing, removed, deleting, seen>> /\ GateOnly

\* removeSession() marks the session first.  One write of the dispatcher or of a
\* tick may be past its check by then (a window's is not: it holds the gate).
WriteUnderWay ==
    \/ dispatch.phase \in {"claiming", "returned", "settling"}
    \/ \E t \in Ticks : tick[t].at = "land" \/ Expiring(t)
MarkRemoved ==
    /\ deleting /\ gone /\ closing = "open"
    /\ closing' \in IF WriteUnderWay THEN {"writing", "closed"} ELSE {"closed"}
    /\ UNCHANGED <<queue, removed, gate, seen>> /\ GateOnly

\* It waits for that write, and takes the queue away.
MutRemoveSession ==
    /\ deleting /\ gone /\ closing # "open" /\ ~removed
    /\ removed' = TRUE /\ queue' = NoQueue
    /\ seen' = [seen EXCEPT !.forgotten = @ \cup Range(queue.completed), !.owed = {}]
    /\ UNCHANGED <<closing, gate>> /\ GateOnly
RemoveSession ==
    /\ deleting /\ gone /\ closing = "closed" /\ ~removed
    /\ removed' = TRUE /\ queue' = NoQueue
    /\ seen' = [seen EXCEPT !.forgotten = @ \cup Range(queue.completed), !.owed = {}]
    /\ UNCHANGED <<closing, gate>> /\ GateOnly

\* The route's finally block, also after an earlier step of the deletion failed.
EndDeletion ==
    /\ deleting /\ (closing = "open" \/ removed) /\ deleting' = FALSE
    /\ UNCHANGED <<queue, closing, removed, gone, seen>> /\ GateOnly

Next ==
    \/ Act \/ Dispatch
    \/ \E i \in Ids : LeaseRunsOut(i) \/ EngineAccepts(i)
    \/ \E t \in Ticks : Tick(t)
    \/ Stop \/ Restart
    \/ BeginDeletion \/ EngineDeletes \/ MarkRemoved \/ RemoveSession \/ EndDeletion

Spec == Init /\ [][Next]_vars

\* The event loop runs what is ready, the timer keeps ticking, every call to
\* the engine ends in an answer or an error, an engine that is asked again and
\* again is idle at some point and shows a message it has, and a send that
\* waits for a deletion runs before a later deletion can begin; what a deletion
\* has begun it ends.  Users, stops and crashes are under no obligation.
Fairness ==
    /\ WF_vars(Dispatch) /\ SF_vars(EngineIdle) /\ SF_vars(BeginSend)
    /\ WF_vars(RemoveSession) /\ WF_vars(EndDeletion)
    /\ \A t \in Ticks : WF_vars(Tick(t))
    /\ \A t \in Ticks, i \in Ids : SF_vars(TickConfirms(t, i))
    /\ \A i \in Ids : WF_vars(LeaseRunsOut(i)) /\ WF_vars(EngineAccepts(i))

FairSpec == Spec /\ Fairness

-----------------------------------------------------------------------------
(* Properties.                                                             *)

Entries == [status : Statuses, kind : {"none", "prompt", "command"},
            token : Tokens \cup {NoToken}, due : BOOLEAN, last : Tokens \cup {NoToken}]
Queues == [revision : Nat, paused : BOOLEAN, reason : {"none", "stop", "error"},
           restartPause : {"none", "interrupted", "waiting"}, resumeRevision : Nat,
           completed : Seq(Ids), order : Seq(Ids), entry : [Ids -> Entries]]
Dispatches == [phase : InHand \cup {"none", "checking", "claiming"}, id : Ids \cup {NoId},
               revision : Nat,
               outcome : Results \cup {"none", "prep", "unknown", "confirmed"}]
Debts == {"user", "restart"}
Observations == [forgotten : SUBSET Ids, resumed : BOOLEAN, owed : SUBSET Debts]
TickStates == [at : {"idle", "scan", "land"}, todo : SUBSET Ids, id : Ids \cup {NoId},
               leased : BOOLEAN]

DispatchOK(d) ==
    /\ d \in Dispatches
    /\ d.phase \in InHand => d.id \in Ids
    /\ d.phase = "returned" => d.outcome \in Results

\* Every variable has its type; a session is closed before it is removed.
TypeOK ==
    /\ queue \in Queues
    /\ closing \in {"open", "writing", "closed"} /\ (removed => closing = "closed")
    /\ stopped \in BOOLEAN /\ removed \in BOOLEAN /\ deleting \in BOOLEAN /\ gone \in BOOLEAN
    /\ DispatchOK(dispatch)
    /\ tick \in [Ticks -> TickStates]
    /\ \A t \in Ticks : tick[t].at = "land" => tick[t].id \in Ids
    /\ requests \in [Ids -> Nat] /\ accepted \subseteq Ids
    /\ seen \in Observations
    /\ used \in [acts : Nat, faults : Nat, restarts : Nat]

\* A message is handed to the engine at most once, through crashes, failed
\* writes, lost answers, retried requests, edits and overlapping ticks ("An
\* interrupted dispatch is never automatically sent a second time", line 20),
\* as long as its id is among the completed ids the queue remembers.
AtMostOnce == \A i \in Ids \ seen.forgotten : requests[i] <= 1

\* While a delivery is undecided the queue is paused: nothing is sent past it.
UncertainPauses == Has(queue, "uncertain") => queue.paused

\* The message being sent is first in the queue, and so the only one: no
\* reorder, edit or tick moves another ahead of it, nor does a failed write.
SendingIsFirst ==
    \A i \in Ids : queue.entry[i].status = "sending" => queue.order # <<>> /\ queue.order[1] = i

\* While the dispatcher has a message in hand its entry stays "sending" and
\* nobody can open an edit on it; only deleting the session takes it away.
InHandStays ==
    dispatch.phase \in InHand /\ ~removed /\ dispatch.id \notin seen.forgotten =>
        LET e == queue.entry[dispatch.id] IN e.status = "sending" /\ e.token = NoToken

\* A pause the restart set survives the engine's confirmation of the message
\* that was running (lines 60-73): it stays a "stop" pause and nothing is in
\* delivery until the user acts.
RestartPauseStands ==
    queue.restartPause # "none" => /\ queue.paused /\ queue.reason = "stop"
                                   /\ ~Has(queue, "sending") /\ dispatch.phase \notin InHand

\* After removeSession no write of the dispatcher or of a tick brings the queue
\* back, neither one that comes late nor the one that was under way (line 271).
RemovedStaysEmpty == removed => queue = NoQueue

\* A chat is never checked for deletion while one of its messages is being
\* sent, and no prompt goes out once it is (session-execution-gate.ts).
DeletionExcludesSend == deleting => dispatch.phase \notin {"calling", "issued"}

\* A message that was being sent or is undecided never waits to be sent again;
\* an undecided one can only leave the queue.
NeverRequeued ==
    [][\A i \in Ids \ seen.forgotten :
          LET was == queue.entry[i].status
              is == queue'.entry[i].status
          IN /\ was = "sending" => is # "queued"
             /\ was = "uncertain" => is \in {"uncertain", "absent"}]_vars

\* A message leaves the queue only if the engine has it, or because a user
\* removed it or deleted the chat.
NoSilentLoss ==
    [][\A i \in Ids :
          queue.entry[i].status # "absent" /\ queue'.entry[i].status = "absent" =>
              i \in accepted \/ RemoveEntry(i) \/ RemoveSession]_vars

\* A pause that a delivery's result asks for is applied exactly when the user
\* has not resumed since that delivery was claimed (line 243).
LaterResumeWins ==
    [][FinishDelivery =>
          IF dispatch.outcome = "plain" \/ seen.resumed
          THEN queue'.paused = queue.paused ELSE queue'.paused]_vars

\* The first message of a queue that is neither paused nor being edited is
\* claimed (or the queue is paused, edited or stopped before that): a missed
\* start is made up by the timer.
HeadMoves ==
    \A i \in Ids : LET startable == Ready(queue) /\ ~gone /\ queue.order[1] = i
                   IN startable ~> ~startable

\* A prompt left undecided that the engine did record is reconciled.  (A command
\* is not: it stays undecided until a user removes it.)
UndecidedReconciled ==
    \A i \in Ids : queue.entry[i].status = "uncertain" /\ IsPrompt(i) /\ i \in accepted
                   ~> queue.entry[i].status # "uncertain" \/ gone \/ stopped

\* An editing window that goes away holds the queue up only until its lease
\* runs out (users renew only finitely often here, by MaxActs).
LeasesEnd == Leased(queue) ~> ~Leased(queue) \/ stopped

\* While writes succeed, a message being sent is not stuck in that state.
SendingEnds ==
    \A i \in Ids : queue.entry[i].status = "sending"
                   ~> queue.entry[i].status # "sending" \/ stopped

\* What the user paused stays paused until the user resumes or, after a Stop,
\* sends another message (session-message-queue.test.ts:347).
UserPauseStands == "user" \in seen.owed => queue.paused

\* Messages restored as waiting are not sent until the user resumes or sends
\* another message (lines 60-66).
RestoredWaits == "restart" \in seen.owed => queue.paused

=============================================================================
