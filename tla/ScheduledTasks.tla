--------------------------- MODULE ScheduledTasks ---------------------------
(***************************************************************************)
(* The tasks that send a message to a chat on a schedule: the store of     *)
(* apps/server/src/scheduled-tasks/store.ts and the runner of runner.ts,   *)
(* in several server processes that share one runtime database, next to    *)
(* the user who creates, edits, pauses, resumes and removes tasks.         *)
(*                                                                         *)
(* A step is one transaction on the database or one answer of the engine,  *)
(* so other processes get between any two of them.  A schedule is the set  *)
(* of its instants, which is what the code's once, interval and recurrence *)
(* rule come to; title, instructions and model of a task are named by the  *)
(* revision that saved them.  A run that is abandoned is one whose server  *)
(* died, or whose tick was ended by an error of the database.              *)
(***************************************************************************)
EXTENDS Naturals, FiniteSets, Sequences

CONSTANTS
    Servers,    \* server processes on one database
    Tasks,      \* ids of tasks, each used once
    Schedules,  \* sets of instants a task may be given
    Endless,    \* those of rules that go on past the years that are searched
    NoTask,     \* no task: none under this id, no form open, nothing claimed
    KeepRuns,   \* runs kept of a task, 50 in the code
    MaxTime,    \* bound: the last instant
    MaxEdits,   \* bound: edits and removals
    MaxCrashes  \* bound: runs or ticks abandoned

Never == 0   \* no further occurrence
NoChat == 0

Snapshots ==
    [id : Tasks, revision : Nat, status : {"active", "paused", "completed"},
     schedule : Schedules, next : Nat, chat : Nat, reuse : BOOLEAN, prompt : Nat]

ASSUME ScheduledAssumption ==
    /\ \A S \in Schedules : S \subseteq Nat \ {0}
    /\ Endless \subseteq Schedules
    /\ NoTask \notin Snapshots
    /\ KeepRuns \in Nat \ {0}
    /\ MaxTime \in Nat /\ MaxEdits \in Nat /\ MaxCrashes \in Nat

VARIABLES
    tasks,     \* the database: its tasks,
    journal,   \* its runs,
    inbox,     \* and the chats shown as written to by a task
    pc,        \* where each server's tick is
    todo,      \* the snapshots its tick has still to look at
    snap,      \* the snapshot it is at work on
    run,       \* the run it has claimed
    expected,  \* the revision at which its failure may pause the task
    form,      \* the task as the user has it on the screen
    now,
    fresh,     \* ids not used yet
    claims,    \* runs claimed so far
    chats,     \* chats created so far
    sent,      \* history: what the engine took, in order
    abandoned, \* history: runs given up half-way
    edits, crashes

database == <<tasks, journal, inbox>>
tick == <<pc, todo, snap, run, expected>>
user == <<form, fresh, edits>>
rest == <<now, claims, chats, sent, abandoned, crashes>>
vars == <<tasks, journal, inbox, pc, todo, snap, run, expected, form, now, fresh,
          claims, chats, sent, abandoned, edits, crashes>>

NoRun == [id |-> 0, task |-> NoTask, due |-> 0, started |-> 0, chat |-> NoChat,
          status |-> "dispatching"]

Init ==
    /\ tasks = [t \in Tasks |-> NoTask] /\ journal = {} /\ inbox = {}
    /\ pc = [s \in Servers |-> "idle"] /\ todo = [s \in Servers |-> {}]
    /\ snap = [s \in Servers |-> NoTask] /\ run = [s \in Servers |-> NoRun]
    /\ expected = [s \in Servers |-> 0]
    /\ form = NoTask /\ now = 0 /\ fresh = Tasks
    /\ claims = 0 /\ chats = 0 /\ sent = << >> /\ abandoned = {} /\ edits = 0 /\ crashes = 0

Goto(s, to) == pc' = [pc EXCEPT ![s] = to]
Exists(t) == tasks[t] # NoTask

\* The first instant of a schedule after another, if there is one.
NextOccurrence(schedule, after) ==
    LET later == { t \in schedule : t > after }
    IN  IF later = {} THEN Never ELSE CHOOSE t \in later : \A u \in later : t <= u

\* The search of a rule throws when it has come to the end of its 40 years
\* before the rule has (schedule.ts:94).
Unfound(schedule, after) == schedule \in Endless /\ NextOccurrence(schedule, after) = Never

-----------------------------------------------------------------------------
(* The user, through the routes of any of the servers.                     *)

\* create refuses a schedule that is over, and the search may throw.
Create(t, schedule, reuse) ==
    /\ t \in fresh /\ NextOccurrence(schedule, now) # Never
    /\ fresh' = fresh \ {t}
    /\ tasks' = [tasks EXCEPT ![t] =
           [id |-> t, revision |-> 1, status |-> "active", schedule |-> schedule,
            next |-> NextOccurrence(schedule, now), chat |-> NoChat, reuse |-> reuse,
            prompt |-> 1]]
    /\ UNCHANGED <<journal, inbox, form, edits, tick, rest>>

OpenForm(t) ==
    /\ form = NoTask /\ Exists(t) /\ edits < MaxEdits
    /\ form' = tasks[t]
    /\ UNCHANGED <<database, fresh, edits, tick, rest>>

\* get and checkRevision: the task is there, as the form shows it.
Current(t) == Exists(t) /\ tasks[t].revision = form.revision

\* What update makes of a task: a new schedule, or resuming, makes it active
\* again from now on.
NewStatus(task, schedule, patch) ==
    IF patch # "none" THEN patch ELSE IF schedule # task.schedule THEN "active" ELSE task.status
Recalculates(task, schedule, patch) ==
    \/ schedule # task.schedule
    \/ NewStatus(task, schedule, patch) = "active" /\ task.status # "active"
Updated(task, schedule, reuse, chat, patch) ==
    [task EXCEPT !.revision = form.revision + 1, !.status = NewStatus(task, schedule, patch),
                 !.schedule = schedule, !.reuse = reuse, !.chat = chat,
                 !.next = IF Recalculates(task, schedule, patch)
                            THEN NextOccurrence(schedule, now) ELSE @,
                 !.prompt = form.revision + 1]

\* The form sends its chat along, or takes it out; a stale form, a schedule that
\* is over and one whose search throws are refused.
SaveForm(schedule, reuse, keep, patch) ==
    /\ form # NoTask
    /\ form' = NoTask /\ edits' = edits + 1
    /\ LET t == form.id
           new == Updated(tasks[t], schedule, reuse, IF keep THEN form.chat ELSE NoChat, patch)
           throws == Recalculates(tasks[t], schedule, patch) /\ Unfound(schedule, now)
       IN  IF Current(t) /\ ~throws /\ (new.status = "active" => new.next # Never)
             THEN tasks' = [tasks EXCEPT ![t] = new]
             ELSE UNCHANGED tasks
    /\ UNCHANGED <<journal, inbox, fresh, tick, rest>>

Remove ==
    /\ form # NoTask /\ form' = NoTask /\ edits' = edits + 1
    /\ IF Current(form.id)
         THEN /\ tasks' = [tasks EXCEPT ![form.id] = NoTask]
              /\ journal' = { r \in journal : r.task # form.id }
         ELSE UNCHANGED <<tasks, journal>>
    /\ UNCHANGED <<inbox, fresh, tick, rest>>

-----------------------------------------------------------------------------
(* A server's tick.                                                        *)

\* list: every task, as it is now.
TickBegins(s) ==
    /\ pc[s] = "idle" /\ \E t \in Tasks : Exists(t)
    /\ todo' = [todo EXCEPT ![s] = { tasks[t] : t \in { u \in Tasks : Exists(u) } }]
    /\ Goto(s, "ticking")
    /\ UNCHANGED <<database, snap, run, expected, user, rest>>

\* The list is in the order of the next occurrences, tasks without one last.
Earlier(a, b) == a.next # Never /\ (b.next = Never \/ a.next <= b.next)
IsNext(s, task) ==
    task \in todo[s] /\ \A other \in todo[s] : Earlier(task, other) \/ other.next = Never

Due(task) == task.status = "active" /\ task.next # Never /\ task.next <= now

\* A task that is not due is passed over; for one that is the engine is asked.
Consider(s, task) ==
    /\ pc[s] = "ticking" /\ IsNext(s, task)
    /\ todo' = [todo EXCEPT ![s] = @ \ {task}]
    /\ IF Due(task) THEN snap' = [snap EXCEPT ![s] = task] /\ Goto(s, "asking")
                    ELSE UNCHANGED <<snap, pc>>
    /\ UNCHANGED <<database, run, expected, user, rest>>

\* The chat is busy, the engine does not answer, or the project is not there.
Unavailable(s) ==
    /\ pc[s] = "asking" /\ Goto(s, "ticking")
    /\ snap' = [snap EXCEPT ![s] = NoTask]
    /\ UNCHANGED <<database, todo, run, expected, user, rest>>

\* claim looks at the task again: it must be the very revision the list had.
Claimable(s) ==
    LET t == snap[s].id
    IN  Exists(t) /\ tasks[t].revision = snap[s].revision /\ Due(tasks[t])

\* The newest runs of a task are kept.
Trimmed(runs, t) ==
    { r \in runs : r.task = t =>
        Cardinality({ q \in runs : q.task = t /\ q.id > r.id }) < KeepRuns }

\* The schedule moves on and the run is written down before anything is sent.
MutAdvanced(task) == [task EXCEPT !.status = "active", !.revision = @ + 1]
Advanced(task) ==
    LET next == NextOccurrence(task.schedule, now)
    IN  [task EXCEPT !.next = next, !.revision = @ + 1,
                     !.status = IF next = Never THEN "completed" ELSE "active"]
Claim(s) ==
    LET t == snap[s].id
        new == [id |-> claims + 1, task |-> t, due |-> tasks[t].next, started |-> now,
                chat |-> tasks[t].chat, status |-> "dispatching"]
    IN  /\ pc[s] = "asking" /\ Claimable(s) /\ ~Unfound(tasks[t].schedule, now)
        /\ tasks' = [tasks EXCEPT ![t] = Advanced(@)]
        /\ journal' = Trimmed(journal \cup {new}, t)
        /\ run' = [run EXCEPT ![s] = new]
        /\ expected' = [expected EXCEPT ![s] = snap[s].revision + 1]
        /\ claims' = claims + 1
        /\ Goto(s, IF snap[s].chat = NoChat THEN "creating" ELSE "recording")
        /\ UNCHANGED <<inbox, todo, snap, user, now, chats, sent, abandoned, crashes>>

ClaimLost(s) == pc[s] = "asking" /\ ~Claimable(s) /\ Unavailable(s)

\* The claim throws, and its transaction is rolled back: the search for the next
\* occurrence, or any statement of it.  Nothing in the loop catches that: the
\* tick ends before the rest of its list, and gives "ticking" back (finally).
MutClaimThrows(s) ==
    /\ pc[s] = "asking" /\ Goto(s, "stuck")
    /\ todo' = [todo EXCEPT ![s] = {}] /\ snap' = [snap EXCEPT ![s] = NoTask]
    /\ UNCHANGED <<database, run, expected, user, rest>>
ClaimThrows(s) ==
    /\ pc[s] = "asking" /\ Goto(s, "idle")
    /\ todo' = [todo EXCEPT ![s] = {}] /\ snap' = [snap EXCEPT ![s] = NoTask]
    /\ UNCHANGED <<database, run, expected, user, rest>>
SearchThrows(s) ==
    pc[s] = "asking" /\ Claimable(s) /\ Unfound(tasks[snap[s].id].schedule, now) /\ ClaimThrows(s)

\* The engine makes a chat for the run, or does not.
CreateChat(s) ==
    /\ pc[s] = "creating" /\ Goto(s, "recording")
    /\ chats' = chats + 1
    /\ run' = [run EXCEPT ![s].chat = chats + 1]
    /\ UNCHANGED <<database, todo, snap, expected, user, now, claims, sent, abandoned, crashes>>
CreateFails(s) ==
    /\ pc[s] = "creating" /\ Goto(s, "failing")
    /\ UNCHANGED <<database, todo, snap, run, expected, user, rest>>

\* record: a run whose task has been removed is not brought back.
Recorded(r) == { IF q.id = r.id THEN r ELSE q : q \in journal }
RecordChat(s) ==
    /\ pc[s] = "recording" /\ Goto(s, "preparing")
    /\ journal' = Recorded(run[s])
    /\ UNCHANGED <<tasks, inbox, todo, snap, run, expected, user, rest>>

\* prepareDelivery: nobody has touched the task since the claim; the first chat
\* of a task that keeps its chat is bound to it.
MutMayDeliver(s) == Exists(snap[s].id) /\ tasks[snap[s].id].status # "paused"
MayDeliver(s) ==
    LET t == snap[s].id
    IN  Exists(t) /\ tasks[t].revision = snap[s].revision + 1 /\ tasks[t].status # "paused"
MutBound(task, chat) == task
Bound(task, chat) ==
    IF task.reuse /\ task.chat = NoChat
      THEN [task EXCEPT !.chat = chat, !.revision = @ + 1] ELSE task

PrepareDelivery(s) ==
    LET t == snap[s].id
    IN  /\ pc[s] = "preparing" /\ MayDeliver(s)
        /\ tasks' = [tasks EXCEPT ![t] = Bound(@, run[s].chat)]
        /\ journal' = Recorded(run[s])
        /\ expected' = [expected EXCEPT ![s] = tasks'[t].revision]
        /\ Goto(s, "sending")
        /\ UNCHANGED <<inbox, todo, snap, run, user, rest>>
DeliveryRefused(s) ==
    /\ pc[s] = "preparing" /\ ~MayDeliver(s) /\ Goto(s, "failing")
    /\ UNCHANGED <<database, todo, snap, run, expected, user, rest>>

\* The engine takes the message; whether the server hears of it is another
\* matter.
Engine(s) ==
    /\ pc[s] = "sending"
    /\ sent' = Append(sent, [task |-> snap[s].id, due |-> run[s].due, chat |-> run[s].chat,
                             prompt |-> snap[s].prompt, reuse |-> snap[s].reuse])
    /\ Goto(s, "taken")
    /\ UNCHANGED <<database, todo, snap, run, expected, user, now, claims, chats, abandoned, crashes>>
SendReturns(s, to) ==
    /\ pc[s] = "taken" \/ (pc[s] = "sending" /\ to = "failing")
    /\ Goto(s, to)
    /\ UNCHANGED <<database, todo, snap, run, expected, user, rest>>
SendAnswered(s) == SendReturns(s, "sent")
SendFails(s) == SendReturns(s, "failing")

\* record of a sent run is two statements and no transaction: the journal, and
\* the inbox if the task is still there.
RecordSent(s) ==
    /\ pc[s] = "sent" /\ Goto(s, "announcing")
    /\ journal' = Recorded([run[s] EXCEPT !.status = "sent"])
    /\ UNCHANGED <<tasks, inbox, todo, snap, run, expected, user, rest>>

MutLeave(s) == Goto(s, "ticking") /\ UNCHANGED <<todo, snap, run, expected, user, rest>>
Leave(s) ==
    /\ Goto(s, "ticking")
    /\ snap' = [snap EXCEPT ![s] = NoTask] /\ run' = [run EXCEPT ![s] = NoRun]
    /\ expected' = [expected EXCEPT ![s] = 0]
    /\ UNCHANGED <<todo, user, rest>>

MutShown(r) == { e \in inbox : e.chat # r.chat } \cup {[chat |-> r.chat, at |-> r.started]}
Shown(r) ==
    LET old == { e \in inbox : e.chat = r.chat }
    IN  IF \A e \in old : e.at <= r.started
          THEN (inbox \ old) \cup {[chat |-> r.chat, at |-> r.started]} ELSE inbox
Announce(s) ==
    /\ pc[s] = "announcing" /\ Leave(s)
    /\ inbox' = IF Exists(snap[s].id) THEN Shown(run[s]) ELSE inbox
    /\ UNCHANGED <<tasks, journal>>

\* fail: the run is marked, and the task paused unless it was changed meanwhile.
MutPauses(s) == FALSE
Pauses(s) == Exists(snap[s].id) /\ tasks[snap[s].id].revision = expected[s]
Fail(s) ==
    LET t == snap[s].id
    IN  /\ pc[s] = "failing" /\ Leave(s)
        /\ journal' = Recorded([run[s] EXCEPT !.status = "failed"])
        /\ IF Pauses(s)
             THEN tasks' = [tasks EXCEPT ![t].status = "paused", ![t].revision = @ + 1]
             ELSE UNCHANGED tasks
        /\ UNCHANGED inbox

TickEnds(s) ==
    /\ pc[s] = "ticking" /\ todo[s] = {} /\ Goto(s, "idle")
    /\ UNCHANGED <<database, todo, snap, run, expected, user, rest>>

-----------------------------------------------------------------------------
(* Time, and a server that dies or stops, or whose tick is ended by an     *)
(* error of the database after the claim.                                  *)

Passes == now < MaxTime /\ now' = now + 1
          /\ UNCHANGED <<database, tick, user, claims, chats, sent, abandoned, crashes>>

Crash(s) ==
    /\ pc[s] # "idle" /\ crashes < MaxCrashes /\ crashes' = crashes + 1
    /\ abandoned' = abandoned \cup {run[s].id}
    /\ Goto(s, "idle")
    /\ todo' = [todo EXCEPT ![s] = {}] /\ snap' = [snap EXCEPT ![s] = NoTask]
    /\ run' = [run EXCEPT ![s] = NoRun] /\ expected' = [expected EXCEPT ![s] = 0]
    /\ UNCHANGED <<database, user, now, claims, chats, sent>>

Works(s) ==
    \/ TickBegins(s) \/ (\E task \in todo[s] : Consider(s, task))
    \/ ClaimLost(s) \/ SearchThrows(s) \/ TickEnds(s)
    \/ CreateChat(s) \/ CreateFails(s) \/ RecordChat(s) \/ PrepareDelivery(s)
    \/ DeliveryRefused(s) \/ Engine(s) \/ SendAnswered(s) \/ SendFails(s)
    \/ RecordSent(s) \/ Announce(s) \/ Fail(s)

Next ==
    \/ \E t \in Tasks : OpenForm(t) \/ \E S \in Schedules, reuse \in BOOLEAN : Create(t, S, reuse)
    \/ \E S \in Schedules, reuse, keep \in BOOLEAN, patch \in {"none", "active", "paused"} :
          SaveForm(S, reuse, keep, patch)
    \/ Remove
    \/ \E s \in Servers : Works(s) \/ Claim(s) \/ Unavailable(s) \/ ClaimThrows(s) \/ Crash(s)
    \/ Passes

Spec == Init /\ [][Next]_vars

\* A process that runs goes on (the timer of the runner, and the time-outs of
\* its requests), and neither is the engine busy nor does the database fail
\* whenever a claim is tried that the schedule allows.
FairSpec == Spec /\ \A s \in Servers : WF_vars(Works(s)) /\ SF_vars(Claim(s))

-----------------------------------------------------------------------------
(* Properties.                                                             *)

Places == {"idle", "ticking", "asking", "creating", "recording", "preparing", "sending",
           "taken", "sent", "announcing", "failing"}
Delivering == {"creating", "recording", "preparing", "sending", "taken", "sent", "announcing", "failing"}
Runs == [id : Nat, task : Tasks, due : Nat, started : Nat, chat : Nat,
         status : {"dispatching", "sent", "failed"}]

\* Every variable has its type; a server has a snapshot and a run exactly while
\* it is at work on them, and every run has been claimed and started.
TypeOK ==
    /\ \A t \in Tasks : Exists(t) => tasks[t] \in Snapshots /\ tasks[t].id = t
    /\ \A r \in journal : r \in Runs /\ r.id \in 1 .. claims /\ r.started <= now
    /\ inbox \subseteq [chat : Nat, at : Nat]
    /\ pc \in [Servers -> Places] /\ expected \in [Servers -> Nat]
    /\ \A s \in Servers :
         /\ todo[s] \subseteq Snapshots
         /\ snap[s] # NoTask <=> pc[s] \in Delivering \cup {"asking"}
         /\ pc[s] \in Delivering => snap[s] \in Snapshots /\ run[s] \in Runs /\ run[s].id \in 1 .. claims
    /\ form = NoTask \/ form \in Snapshots
    /\ now \in 0 .. MaxTime /\ edits \in 0 .. MaxEdits /\ crashes \in 0 .. MaxCrashes

\* An occurrence is sent to the engine at most once, whatever number of servers
\* see it, is restarted or edits come in between (store.ts:61).
OccurrenceSentOnce ==
    \A i, j \in DOMAIN sent :
      sent[i].task = sent[j].task /\ sent[i].due = sent[j].due => i = j

\* A run is left undecided only by the death of its server: every path of a tick
\* ends it as sent or as failed, and a chat is shown with the latest run that
\* reached it (record writes the journal and the inbox in two statements).
AtWorkOn(r, places) == \E s \in Servers : pc[s] \in places /\ run[s].id = r.id
RunsAreDecided ==
    \A r \in journal \ { q \in journal : q.id \in abandoned } :
      /\ r.status = "dispatching" => AtWorkOn(r, Delivering)
      /\ r.status = "sent" =>
           AtWorkOn(r, {"announcing"}) \/ \E e \in inbox : e.chat = r.chat /\ e.at >= r.started

\* What one saved form of a task that keeps its chat sends goes to one chat,
\* over restarts and from any server (store.ts:79).
OneChatPerTask ==
    \A i, j \in DOMAIN sent :
      /\ sent[i].task = sent[j].task /\ sent[i].prompt = sent[j].prompt
      /\ sent[i].reuse
      => sent[i].chat = sent[j].chat

\* Delivery begins only in the form the user has saved: with the instructions of
\* the task as it is then, and not of a paused or removed one (runner.ts:30).
DeliversWhatIsSaved ==
    [][\A s \in Servers :
         pc'[s] = "sending" /\ pc[s] # "sending" =>
           LET t == snap[s].id
           IN  /\ tasks'[t] # NoTask /\ tasks'[t].status # "paused"
               /\ tasks'[t].prompt = snap[s].prompt]_vars

\* When a delivery has failed the task is paused, unless the user has saved or
\* removed it or a server has claimed its next occurrence since.
FailurePauses ==
    [][\A s \in Servers :
         pc[s] = "failing" /\ pc'[s] = "ticking" =>
           LET t == snap[s].id
           IN  \/ tasks'[t] = NoTask \/ tasks'[t].prompt # snap[s].prompt
               \/ \E r \in journal : r.task = t /\ r.id > run[s].id
               \/ tasks'[t].status = "paused"]_vars

\* A due task whose next occurrence is not found ends every tick that comes to
\* it, and stays due: the tasks behind it wait as long as it does.
Blocks(t) == Exists(t) /\ Due(tasks[t]) /\ Unfound(tasks[t].schedule, now)
Waits(t) == Exists(t) /\ Due(tasks[t])
Blocked == \E t \in Tasks : Blocks(t)

\* An occurrence that is due is taken up, whatever claims fail and ticks end
\* early, unless the user or a failure changes the task first: a tick that ends
\* leaves the next one free (runner.ts:38).  While a task blocks the list nothing
\* is promised, only that all goes on when the user has taken it away.
DueIsTakenUp ==
    \A t \in Tasks : Waits(t) /\ ~Blocked ~> ~Waits(t) \/ Blocked

\* A rule of one task does not keep the others from being sent: "Impossible
\* custom rules cannot stall the local server" (schedule.ts:40).
OthersAreTakenUp ==
    \A t \in Tasks : Waits(t) /\ ~Blocks(t) ~> ~Waits(t) \/ Blocks(t)

=============================================================================
