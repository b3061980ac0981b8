----------------------- MODULE ScheduledTasksProofs -----------------------
(***************************************************************************)
(* What the run of ScheduledTasks shows on a small instance, proved for    *)
(* every number of servers, tasks, edits and crashes.  Everything rests on *)
(* what a step may do to a task, TaskStep: a revision is never used twice  *)
(* and no step takes the next occurrence back into the past.               *)
(***************************************************************************)
EXTENDS ScheduledTasks, WellFoundedInduction, SequenceTheorems, FiniteSetTheorems, TLAPS

-----------------------------------------------------------------------------
(* The operations on a task.                                               *)

\* The next occurrence is an instant after the given one, or there is none.
LEMMA NextOccurrenceType ==
    ASSUME NEW schedule \in Schedules, NEW after \in Nat
    PROVE  /\ NextOccurrence(schedule, after) \in Nat
           /\ NextOccurrence(schedule, after) # Never => NextOccurrence(schedule, after) > after
<1> DEFINE later == { t \in schedule : t > after }
<1>1. schedule \subseteq Nat \ {0}
    BY ScheduledAssumption DEF ScheduledAssumption
<1>2. CASE later = {}
    BY <1>2 DEF NextOccurrence, Never
<1>3. CASE later # {}
    <2>1. later \subseteq Nat
        BY <1>1
    <2>2. \E t \in later : \A u \in later : ~(<<u, t>> \in OpToRel(<, Nat))
        <3> HIDE DEF later
        <3> QED BY <1>3, <2>1, WFMin, NatLessThanWellFounded
    <2>3. \E t \in later : \A u \in later : t <= u
        <3>1. PICK t \in later : \A u \in later : ~(<<u, t>> \in OpToRel(<, Nat))
            BY <2>2
        <3>2. ASSUME NEW u \in later PROVE t <= u
            <4>1. u \in Nat /\ t \in Nat
                BY <2>1, <3>2
            <4>2. ~(<<u, t>> \in OpToRel(<, Nat))
                BY <3>1, <3>2
            <4> HIDE DEF later
            <4>3. ~(u < t)
                BY <4>1, <4>2 DEF OpToRel
            <4> QED BY <4>1, <4>3
        <3> QED BY <3>2
    <2>4. NextOccurrence(schedule, after) \in later
        BY <1>3, <2>3 DEF NextOccurrence
    <2> QED BY <2>1, <2>4
<1> QED BY <1>2, <1>3

Statuses == {"active", "paused", "completed"}

\* What an edit, a claim, the first chat and a failure make of a task is a task.
LEMMA UpdatedType ==
    ASSUME NEW task \in Snapshots, NEW schedule \in Schedules, NEW reuse \in BOOLEAN,
           NEW chat \in Nat, NEW patch \in {"none", "active", "paused"},
           form \in Snapshots, now \in Nat,
           NEW new, new = Updated(task, schedule, reuse, chat, patch)
    PROVE  /\ new \in Snapshots /\ new.id = task.id
           /\ new.revision = form.revision + 1 /\ new.prompt = new.revision
           /\ new.next = task.next \/ new.next = Never \/ new.next > now
<1> DEFINE again == NextOccurrence(schedule, now)
           moved == schedule # task.schedule
           status == IF patch # "none" THEN patch ELSE IF moved THEN "active" ELSE task.status
           restarts == moved \/ (status = "active" /\ task.status # "active")
           next == IF restarts THEN again ELSE task.next
           revision == form.revision + 1
<1>1. again \in Nat /\ (again # Never => again > now)
    BY NextOccurrenceType
<1>2. new = [task EXCEPT !.revision = revision, !.status = status, !.schedule = schedule,
                         !.reuse = reuse, !.chat = chat, !.next = next, !.prompt = revision]
    BY DEF Updated, NewStatus, Recalculates
<1>3. status \in Statuses /\ revision \in Nat
    BY DEF Snapshots, Statuses
<1>4. next \in Nat /\ (next = task.next \/ next = Never \/ next > now)
    <2>1. task.next \in Nat  BY DEF Snapshots
    <2> HIDE DEF again, restarts
    <2> QED BY <1>1, <2>1
<1> HIDE DEF again, moved, status, restarts, next
<1>5. new \in Snapshots
    <2> HIDE DEF revision
    <2> QED BY <1>2, <1>3, <1>4 DEF Snapshots, Statuses
<1>6. new.id = task.id /\ new.revision = revision /\ new.prompt = revision /\ new.next = next
    BY <1>2 DEF Snapshots
<1> QED BY <1>4, <1>5, <1>6

\* The same of the task as Updated names it.
UpdatedWell(task, schedule, reuse, chat, patch) ==
    LET new == Updated(task, schedule, reuse, chat, patch)
    IN  /\ new \in Snapshots /\ new.id = task.id
        /\ new.revision = form.revision + 1 /\ new.prompt = new.revision
        /\ new.next = task.next \/ new.next = Never \/ new.next > now

LEMMA UpdatedIsWell ==
    ASSUME form \in Snapshots, now \in Nat
    PROVE  \A task \in Snapshots, schedule \in Schedules, reuse \in BOOLEAN, chat \in Nat,
              patch \in {"none", "active", "paused"} :
                UpdatedWell(task, schedule, reuse, chat, patch)
<1>1. SUFFICES ASSUME NEW task \in Snapshots, NEW schedule \in Schedules, NEW reuse \in BOOLEAN,
                      NEW chat \in Nat, NEW patch \in {"none", "active", "paused"}
               PROVE  UpdatedWell(task, schedule, reuse, chat, patch)
    OBVIOUS
<1> DEFINE new == Updated(task, schedule, reuse, chat, patch)
<1>2. new = Updated(task, schedule, reuse, chat, patch)
    OBVIOUS
<1> HIDE DEF new
<1>3. /\ new \in Snapshots /\ new.id = task.id
      /\ new.revision = form.revision + 1 /\ new.prompt = new.revision
      /\ new.next = task.next \/ new.next = Never \/ new.next > now
    BY <1>2, UpdatedType
<1> QED BY <1>3 DEF UpdatedWell, new

LEMMA AdvancedType ==
    ASSUME NEW task \in Snapshots, now \in Nat, NEW new, new = Advanced(task)
    PROVE  /\ new \in Snapshots /\ new.id = task.id
           /\ new.revision = task.revision + 1 /\ new.prompt = task.prompt
           /\ new.reuse = task.reuse /\ new.chat = task.chat
           /\ new.next = Never \/ new.next > now
<1> DEFINE next == NextOccurrence(task.schedule, now)
           status == IF next = Never THEN "completed" ELSE "active"
           revision == task.revision + 1
<1>1. next \in Nat /\ (next # Never => next > now)
    BY NextOccurrenceType DEF Snapshots
<1>2. new = [task EXCEPT !.next = next, !.revision = revision, !.status = status]
    BY DEF Advanced
<1>3. status \in Statuses /\ revision \in Nat
    BY DEF Snapshots, Statuses
<1> HIDE DEF next, status
<1>4. new \in Snapshots
    <2> HIDE DEF revision
    <2> QED BY <1>1, <1>2, <1>3 DEF Snapshots, Statuses
<1>5. /\ new.id = task.id /\ new.revision = revision /\ new.prompt = task.prompt
      /\ new.reuse = task.reuse /\ new.chat = task.chat /\ new.next = next
    BY <1>2 DEF Snapshots
<1> QED BY <1>1, <1>4, <1>5

LEMMA BoundType ==
    ASSUME NEW task \in Snapshots, NEW chat \in Nat, NEW new, new = Bound(task, chat)
    PROVE  /\ new \in Snapshots /\ new.id = task.id /\ new.prompt = task.prompt
           /\ new.reuse = task.reuse /\ new.next = task.next /\ new.status = task.status
           /\ \/ new = task /\ (task.reuse => task.chat # NoChat)
              \/ /\ task.reuse /\ task.chat = NoChat
                 /\ new.revision = task.revision + 1 /\ new.chat = chat
<1> DEFINE revision == task.revision + 1
<1>1. revision \in Nat
    BY DEF Snapshots
<1>2. CASE task.reuse /\ task.chat = NoChat
    <2>1. new = [task EXCEPT !.chat = chat, !.revision = revision]
        BY <1>2 DEF Bound
    <2> HIDE DEF revision
    <2>2. new \in Snapshots
        BY <1>1, <2>1 DEF Snapshots
    <2>3. /\ new.id = task.id /\ new.prompt = task.prompt /\ new.reuse = task.reuse
          /\ new.next = task.next /\ new.status = task.status
          /\ new.revision = revision /\ new.chat = chat
        BY <2>1 DEF Snapshots
    <2> QED BY <1>2, <2>2, <2>3 DEF revision
<1>3. CASE ~(task.reuse /\ task.chat = NoChat)
    BY <1>3 DEF Bound
<1> QED BY <1>2, <1>3

LEMMA PausedType ==
    ASSUME NEW task \in Snapshots,
           NEW new, new = [task EXCEPT !.status = "paused", !.revision = @ + 1]
    PROVE  /\ new \in Snapshots /\ new.id = task.id /\ new.prompt = task.prompt
           /\ new.reuse = task.reuse /\ new.next = task.next /\ new.chat = task.chat
           /\ new.revision = task.revision + 1
<1> DEFINE revision == task.revision + 1
           status == "paused"
<1>1. revision \in Nat /\ status \in Statuses
    BY DEF Snapshots, Statuses
<1>2. new = [task EXCEPT !.status = status, !.revision = revision]
    OBVIOUS
<1> HIDE DEF status
<1>3. new \in Snapshots
    <2> HIDE DEF revision
    <2> QED BY <1>1, <1>2 DEF Snapshots, Statuses
<1>4. /\ new.id = task.id /\ new.prompt = task.prompt /\ new.reuse = task.reuse
      /\ new.next = task.next /\ new.chat = task.chat /\ new.revision = revision
    BY <1>2 DEF Snapshots
<1> QED BY <1>3, <1>4

-----------------------------------------------------------------------------
(* The type of the variables.                                              *)

Sent == [task : Tasks, due : Nat, chat : Nat, prompt : Nat, reuse : BOOLEAN]

\* What TypeOK says, with the type of every function and of the history; a server
\* works on the run of its snapshot, and an open form may still be saved.
TypeInv ==
    /\ tasks \in [Tasks -> Snapshots \cup {NoTask}]
    /\ \A t \in Tasks : Exists(t) => tasks[t].id = t
    /\ \A r \in journal : r \in Runs /\ r.id \in 1 .. claims /\ r.started <= now
    /\ inbox \subseteq [chat : Nat, at : Nat]
    /\ pc \in [Servers -> Places]
    /\ todo \in [Servers -> SUBSET Snapshots]
    /\ snap \in [Servers -> Snapshots \cup {NoTask}]
    /\ run \in [Servers -> Runs \cup {NoRun}]
    /\ expected \in [Servers -> Nat]
    /\ \A s \in Servers : snap[s] # NoTask <=> pc[s] \in Delivering \cup {"asking"}
    /\ \A s \in Servers : pc[s] \in Delivering =>
         /\ run[s] \in Runs /\ run[s].id \in 1 .. claims /\ run[s].started <= now
         /\ run[s].task = snap[s].id /\ run[s].status = "dispatching"
    /\ form \in Snapshots \cup {NoTask} /\ (form # NoTask => edits < MaxEdits)
    /\ now \in 0 .. MaxTime /\ edits \in 0 .. MaxEdits /\ crashes \in 0 .. MaxCrashes
    /\ fresh \subseteq Tasks /\ claims \in Nat /\ chats \in Nat
    /\ sent \in Seq(Sent)

LEMMA InitType == Init => TypeInv
BY ScheduledAssumption, EmptySeq
DEF ScheduledAssumption, Init, TypeInv, Exists, Places, Delivering, Snapshots, Sent

\* Marking a run of the journal keeps its type.
LEMMA RecordedType ==
    ASSUME TypeInv, NEW r \in Runs, r.id \in 1 .. claims, r.started <= now
    PROVE  \A q \in Recorded(r) : q \in Runs /\ q.id \in 1 .. claims /\ q.started <= now
BY DEF TypeInv, Recorded

\* The steps of the user and of the clock.
LEMMA UserKeepsType ==
    ASSUME TypeInv
    PROVE  /\ \A t \in Tasks : OpenForm(t) => TypeInv'
           /\ \A t \in Tasks, S \in Schedules, reuse \in BOOLEAN : Create(t, S, reuse) => TypeInv'
           /\ \A S \in Schedules, reuse, keep \in BOOLEAN, patch \in {"none", "active", "paused"} :
                SaveForm(S, reuse, keep, patch) => TypeInv'
           /\ Remove \/ Passes => TypeInv'
<1> USE ScheduledAssumption DEF ScheduledAssumption
<1>1. ASSUME NEW t \in Tasks, OpenForm(t) PROVE TypeInv'
    BY <1>1 DEF OpenForm, TypeInv, Exists, database, tick, rest
<1>2. ASSUME NEW t \in Tasks, NEW S \in Schedules, NEW reuse \in BOOLEAN, Create(t, S, reuse)
      PROVE  TypeInv'
    <2> DEFINE next == NextOccurrence(S, now)
               status == "active"
               new == [id |-> t, revision |-> 1, status |-> status, schedule |-> S,
                       next |-> next, chat |-> NoChat, reuse |-> reuse, prompt |-> 1]
    <2>1. next \in Nat
        BY NextOccurrenceType DEF TypeInv
    <2>2. status \in Statuses
        BY DEF Statuses
    <2>3. tasks' = [tasks EXCEPT ![t] = new] /\ fresh' = fresh \ {t}
          /\ UNCHANGED <<journal, inbox, form, edits, tick, rest>>
        BY <1>2 DEF Create
    <2> HIDE DEF next, status
    <2>4. new \in Snapshots /\ new.id = t
        BY <2>1, <2>2 DEF Snapshots, Statuses, NoChat
    <2> HIDE DEF new
    <2> QED BY <2>3, <2>4 DEF TypeInv, Exists, tick, rest
<1>3. ASSUME NEW S \in Schedules, NEW reuse \in BOOLEAN, NEW keep \in BOOLEAN,
             NEW patch \in {"none", "active", "paused"}, SaveForm(S, reuse, keep, patch)
      PROVE  TypeInv'
    <2> DEFINE t == form.id
               kept == IF keep THEN form.chat ELSE NoChat
               saved == Updated(tasks[t], S, reuse, kept, patch)
    <2>0. tasks \in [Tasks -> Snapshots \cup {NoTask}] /\ \A u \in Tasks : tasks[u] # NoTask => tasks[u].id = u
        BY DEF TypeInv, Exists
    <2>1. form \in Snapshots /\ form # NoTask /\ t \in Tasks /\ kept \in Nat
        BY <1>3 DEF SaveForm, TypeInv, Snapshots, NoChat
    <2>2. /\ form' = NoTask /\ edits' = edits + 1
          /\ UNCHANGED <<journal, inbox, fresh, tick, rest>>
          /\ tasks' = tasks \/ (Exists(t) /\ tasks' = [tasks EXCEPT ![t] = saved])
        BY <1>3 DEF SaveForm, Current
    <2>3. Exists(t) => tasks[t] \in Snapshots /\ tasks[t].id = t
        BY <2>1 DEF TypeInv, Exists
    <2> HIDE DEF t, kept
    <2>4. Exists(t) => saved \in Snapshots /\ saved.id = t
        <3>1. now \in Nat
            BY DEF TypeInv
        <3>2. \A task \in Snapshots : UpdatedWell(task, S, reuse, kept, patch)
            BY <2>1, <3>1, UpdatedIsWell
        <3> QED BY <2>3, <3>2 DEF UpdatedWell
    <2> HIDE DEF saved
    <2>5. tasks' \in [Tasks -> Snapshots \cup {NoTask}]
          /\ \A u \in Tasks : tasks'[u] # NoTask => tasks'[u].id = u
        BY <2>0, <2>1, <2>2, <2>4 DEF Exists
    <2>6. edits' \in 0 .. MaxEdits
        BY <2>1, <2>2 DEF TypeInv
    <2> QED BY <2>2, <2>5, <2>6 DEF TypeInv, Exists, tick, rest
<1>4. CASE Remove
    <2>0. tasks \in [Tasks -> Snapshots \cup {NoTask}] /\ \A u \in Tasks : tasks[u] # NoTask => tasks[u].id = u
        BY DEF TypeInv, Exists
    <2>1. form \in Snapshots /\ form.id \in Tasks /\ form # NoTask
        BY <1>4 DEF Remove, TypeInv, Snapshots
    <2>2. /\ form' = NoTask /\ edits' = edits + 1 /\ journal' \subseteq journal
          /\ UNCHANGED <<inbox, fresh, tick, rest>>
          /\ tasks' = tasks \/ tasks' = [tasks EXCEPT ![form.id] = NoTask]
        BY <1>4 DEF Remove
    <2>3. tasks' \in [Tasks -> Snapshots \cup {NoTask}]
          /\ \A u \in Tasks : tasks'[u] # NoTask => tasks'[u].id = u
        BY <2>0, <2>1, <2>2
    <2>4. edits' \in 0 .. MaxEdits
        BY <2>1, <2>2 DEF TypeInv
    <2> QED BY <2>2, <2>3, <2>4 DEF TypeInv, Exists, tick, rest
<1>5. CASE Passes
    <2>1. now' = now + 1 /\ now' \in 0 .. MaxTime /\ now <= now'
          /\ UNCHANGED <<database, tick, user, claims, chats, sent, abandoned, crashes>>
        BY <1>5 DEF Passes, TypeInv
    <2>2. ASSUME NEW r \in Runs, r.started <= now PROVE r.started <= now'
        BY <2>1, <2>2 DEF TypeInv, Runs
    <2> QED BY <2>1, <2>2 DEF TypeInv, Exists, database, tick, user
<1> QED BY <1>1, <1>2, <1>3, <1>4, <1>5

\* The steps of a server that change nothing but where it is.
LEMMA MoveKeepsType ==
    ASSUME TypeInv, NEW s \in Servers, NEW to \in Delivering, pc[s] \in Delivering,
           Goto(s, to), UNCHANGED <<database, todo, snap, run, expected, user, rest>>
    PROVE  TypeInv'
<1>1. pc' = [pc EXCEPT ![s] = to] /\ to \in Places
    BY DEF Goto, Delivering, Places
<1>2. pc' \in [Servers -> Places]
    BY <1>1 DEF TypeInv
<1>3. \A q \in Servers : pc'[q] \in Delivering <=> pc[q] \in Delivering
    BY <1>1 DEF TypeInv
<1>4. \A q \in Servers : pc'[q] \in Delivering \cup {"asking"} <=> pc[q] \in Delivering \cup {"asking"}
    BY <1>1 DEF TypeInv
<1> QED BY <1>2, <1>3, <1>4 DEF TypeInv, Exists, database, user, rest

\* A server leaves its task.
LEMMA LeaveKeepsType ==
    ASSUME TypeInv, NEW s \in Servers, Leave(s), inbox' \subseteq [chat : Nat, at : Nat],
           tasks' \in [Tasks -> Snapshots \cup {NoTask}],
           \A t \in Tasks : tasks'[t] # NoTask => tasks'[t].id = t,
           \A r \in journal' : r \in Runs /\ r.id \in 1 .. claims /\ r.started <= now
    PROVE  TypeInv'
<1>1. /\ pc' = [pc EXCEPT ![s] = "ticking"] /\ snap' = [snap EXCEPT ![s] = NoTask]
      /\ run' = [run EXCEPT ![s] = NoRun] /\ expected' = [expected EXCEPT ![s] = 0]
      /\ UNCHANGED <<todo, user, rest>>
    BY DEF Leave, Goto
<1>2. /\ pc' \in [Servers -> Places] /\ snap' \in [Servers -> Snapshots \cup {NoTask}]
      /\ run' \in [Servers -> Runs \cup {NoRun}] /\ expected' \in [Servers -> Nat]
    BY <1>1 DEF TypeInv, Places
<1>3. \A q \in Servers : snap'[q] # NoTask <=> pc'[q] \in Delivering \cup {"asking"}
    BY <1>1 DEF TypeInv, Delivering
<1>4. \A q \in Servers : pc'[q] \in Delivering => q # s /\ pc[q] \in Delivering
    BY <1>1 DEF TypeInv, Delivering
<1>5. \A q \in Servers : pc'[q] \in Delivering => run'[q] = run[q] /\ snap'[q] = snap[q]
    BY <1>1, <1>4 DEF TypeInv
<1> QED BY <1>1, <1>2, <1>3, <1>4, <1>5 DEF TypeInv, Exists, user, rest

\* The steps of a tick before there is a run.
LEMMA LookingKeepsType ==
    ASSUME TypeInv, NEW s \in Servers,
           \/ TickBegins(s) \/ TickEnds(s) \/ Unavailable(s) \/ ClaimLost(s)
           \/ ClaimThrows(s) \/ SearchThrows(s) \/ \E task \in todo[s] : Consider(s, task)
    PROVE  TypeInv'
<1>0. /\ s \in DOMAIN pc /\ s \in DOMAIN todo /\ s \in DOMAIN snap
      /\ \A q \in Servers : snap[q] # NoTask <=> pc[q] \in Delivering \cup {"asking"}
      /\ NoTask \notin Snapshots /\ todo[s] \subseteq Snapshots
    BY ScheduledAssumption DEF TypeInv, ScheduledAssumption
<1>1. CASE TickBegins(s)
    <2> DEFINE list == { tasks[t] : t \in { u \in Tasks : Exists(u) } }
    <2>1. list \subseteq Snapshots
        BY DEF TypeInv, Exists
    <2>2. /\ todo' = [todo EXCEPT ![s] = list] /\ pc' = [pc EXCEPT ![s] = "ticking"]
          /\ pc[s] = "idle" /\ UNCHANGED <<database, snap, run, expected, user, rest>>
        BY <1>1 DEF TickBegins, Goto
    <2> HIDE DEF list
    <2>3. todo' \in [Servers -> SUBSET Snapshots] /\ pc' \in [Servers -> Places]
        BY <2>1, <2>2 DEF TypeInv, Places
    <2>4. \A q \in Servers : /\ pc'[q] \in Delivering <=> pc[q] \in Delivering
                             /\ pc'[q] = "asking" <=> pc[q] = "asking"
        BY <2>2 DEF TypeInv, Delivering
    <2> QED BY <2>2, <2>3, <2>4 DEF TypeInv, Exists, database, user, rest
<1>2. CASE TickEnds(s)
    <2>1. /\ pc' = [pc EXCEPT ![s] = "idle"] /\ pc[s] = "ticking"
          /\ UNCHANGED <<database, todo, snap, run, expected, user, rest>>
        BY <1>2 DEF TickEnds, Goto
    <2>2. pc' \in [Servers -> Places]
        BY <2>1 DEF TypeInv, Places
    <2>3. \A q \in Servers : /\ pc'[q] \in Delivering <=> pc[q] \in Delivering
                             /\ pc'[q] = "asking" <=> pc[q] = "asking"
        BY <2>1 DEF TypeInv, Delivering
    <2> QED BY <2>1, <2>2, <2>3 DEF TypeInv, Exists, database, user, rest
<1>3. CASE Unavailable(s) \/ ClaimLost(s)
    <2>1. /\ pc' = [pc EXCEPT ![s] = "ticking"] /\ snap' = [snap EXCEPT ![s] = NoTask]
          /\ pc[s] = "asking" /\ UNCHANGED <<database, todo, run, expected, user, rest>>
        BY <1>3 DEF Unavailable, ClaimLost, Goto
    <2>2. pc' \in [Servers -> Places] /\ snap' \in [Servers -> Snapshots \cup {NoTask}]
        BY <2>1 DEF TypeInv, Places
    <2>3. \A q \in Servers : snap'[q] # NoTask <=> pc'[q] \in Delivering \cup {"asking"}
        BY <1>0, <2>1 DEF TypeInv, Delivering
    <2>4. \A q \in Servers : pc'[q] \in Delivering => q # s /\ pc[q] \in Delivering /\ snap'[q] = snap[q]
        BY <2>1 DEF TypeInv, Delivering
    <2> QED BY <2>1, <2>2, <2>3, <2>4 DEF TypeInv, Exists, database, user, rest
<1>4. CASE ClaimThrows(s) \/ SearchThrows(s)
    <2>1. /\ pc' = [pc EXCEPT ![s] = "idle"] /\ snap' = [snap EXCEPT ![s] = NoTask]
          /\ todo' = [todo EXCEPT ![s] = {}]
          /\ pc[s] = "asking" /\ UNCHANGED <<database, run, expected, user, rest>>
        BY <1>4 DEF ClaimThrows, SearchThrows, Goto
    <2>2. /\ pc' \in [Servers -> Places] /\ snap' \in [Servers -> Snapshots \cup {NoTask}]
          /\ todo' \in [Servers -> SUBSET Snapshots]
        BY <2>1 DEF TypeInv, Places
    <2>3. \A q \in Servers : snap'[q] # NoTask <=> pc'[q] \in Delivering \cup {"asking"}
        BY <1>0, <2>1 DEF TypeInv, Delivering
    <2>4. \A q \in Servers : pc'[q] \in Delivering => q # s /\ pc[q] \in Delivering /\ snap'[q] = snap[q]
        BY <2>1 DEF TypeInv, Delivering
    <2> QED BY <2>1, <2>2, <2>3, <2>4 DEF TypeInv, Exists, database, user, rest
<1>5. ASSUME NEW task \in todo[s], Consider(s, task) PROVE TypeInv'
    <2>1. task \in Snapshots /\ task # NoTask
        BY <1>0
    <2>2. /\ todo' = [todo EXCEPT ![s] = @ \ {task}] /\ pc[s] = "ticking"
          /\ \/ snap' = [snap EXCEPT ![s] = task] /\ pc' = [pc EXCEPT ![s] = "asking"]
             \/ UNCHANGED <<snap, pc>>
          /\ UNCHANGED <<database, run, expected, user, rest>>
        BY <1>5 DEF Consider, Goto
    <2>3. /\ todo' \in [Servers -> SUBSET Snapshots] /\ pc' \in [Servers -> Places]
          /\ snap' \in [Servers -> Snapshots \cup {NoTask}]
        <3>1. todo[s] \ {task} \in SUBSET Snapshots
            BY <1>0
        <3>2. todo' \in [Servers -> SUBSET Snapshots]
            BY <2>2, <3>1 DEF TypeInv
        <3>3. pc \in [Servers -> Places] /\ snap \in [Servers -> Snapshots \cup {NoTask}]
            BY DEF TypeInv
        <3>4. pc' \in [Servers -> Places]
            <4>1. "asking" \in Places
                BY DEF Places
            <4> QED BY <2>2, <3>3, <4>1
        <3>5. snap' \in [Servers -> Snapshots \cup {NoTask}]
            BY <2>1, <2>2, <3>3
        <3> QED BY <3>2, <3>4, <3>5
    <2>4. \A q \in Servers : snap'[q] # NoTask <=> pc'[q] \in Delivering \cup {"asking"}
        BY <1>0, <2>1, <2>2 DEF TypeInv, Delivering
    <2>5. \A q \in Servers : pc'[q] \in Delivering => pc[q] \in Delivering /\ snap'[q] = snap[q]
        BY <2>2 DEF TypeInv, Delivering
    <2> QED BY <2>2, <2>3, <2>4, <2>5 DEF TypeInv, Exists, database, user, rest
<1> QED BY <1>1, <1>2, <1>3, <1>4, <1>5

\* Claiming a run.
LEMMA ClaimKeepsType ==
    ASSUME TypeInv, NEW s \in Servers, Claim(s)
    PROVE  /\ TypeInv'
           /\ LET t == snap[s].id
              IN  /\ t \in Tasks /\ Exists(t) /\ tasks[t] \in Snapshots
                  /\ tasks'[t] = Advanced(tasks[t])
                  /\ \A u \in Tasks \ {t} : tasks'[u] = tasks[u]
<1> DEFINE t == snap[s].id
           new == [id |-> claims + 1, task |-> t, due |-> tasks[t].next, started |-> now,
                   chat |-> tasks[t].chat, status |-> "dispatching"]
           to == IF snap[s].chat = NoChat THEN "creating" ELSE "recording"
           later == Advanced(tasks[t])
<1>1. pc[s] = "asking" /\ snap[s] \in Snapshots /\ t \in Tasks /\ Exists(t)
    BY ScheduledAssumption DEF TypeInv, Claim, Claimable, Snapshots, ScheduledAssumption
<1>2. tasks[t] \in Snapshots /\ tasks[t].id = t
    BY <1>1 DEF TypeInv, Exists
<1>3. /\ tasks' = [tasks EXCEPT ![t] = later] /\ journal' \subseteq journal \cup {new}
      /\ run' = [run EXCEPT ![s] = new]
      /\ expected' = [expected EXCEPT ![s] = snap[s].revision + 1]
      /\ claims' = claims + 1 /\ pc' = [pc EXCEPT ![s] = to]
      /\ UNCHANGED <<inbox, todo, snap, user, now, chats, sent, abandoned, crashes>>
    BY DEF Claim, Trimmed, Goto
<1>4. later \in Snapshots /\ later.id = t
    <2>1. now \in Nat
        BY DEF TypeInv
    <2> HIDE DEF t
    <2> QED BY <1>2, <2>1, AdvancedType
<1>5. new \in Runs /\ new.id \in 1 .. claims' /\ new.started <= now /\ new.task = t
      /\ new.status = "dispatching"
    <2>1. tasks[t].next \in Nat /\ tasks[t].chat \in Nat /\ now \in Nat /\ claims \in Nat
        BY <1>2 DEF TypeInv, Snapshots
    <2>2. claims' = claims + 1
        BY <1>3
    <2> HIDE DEF t
    <2>3. new \in Runs
        BY <1>1, <2>1 DEF Runs
    <2> QED BY <2>1, <2>2, <2>3
<1>6. to \in Delivering /\ to \in Places
    BY DEF Delivering, Places
<1>7. snap[s].revision + 1 \in Nat
    BY <1>1 DEF Snapshots
<1> HIDE DEF t, new, to, later
<1>8. /\ tasks' \in [Tasks -> Snapshots \cup {NoTask}]
      /\ \A u \in Tasks : tasks'[u] # NoTask => tasks'[u].id = u
    BY <1>1, <1>3, <1>4 DEF TypeInv, Exists
<1>9. /\ pc' \in [Servers -> Places] /\ run' \in [Servers -> Runs \cup {NoRun}]
      /\ expected' \in [Servers -> Nat]
    BY <1>3, <1>5, <1>6, <1>7 DEF TypeInv
<1>10. \A r \in journal' : r \in Runs /\ r.id \in 1 .. claims' /\ r.started <= now
    BY <1>3, <1>5 DEF TypeInv
<1>11. \A q \in Servers : snap[q] # NoTask <=> pc'[q] \in Delivering \cup {"asking"}
    BY <1>1, <1>3, <1>6 DEF TypeInv
<1>12. ASSUME NEW q \in Servers, pc'[q] \in Delivering
       PROVE  /\ run'[q] \in Runs /\ run'[q].id \in 1 .. claims' /\ run'[q].started <= now
              /\ run'[q].task = snap[q].id /\ run'[q].status = "dispatching"
    <2>1. CASE q = s
        BY <1>3, <1>5, <2>1 DEF TypeInv, t
    <2>2. CASE q # s
        <3>1. pc[q] \in Delivering /\ run'[q] = run[q]
            BY <1>3, <1>12, <2>2 DEF TypeInv
        <3> QED BY <1>3, <3>1 DEF TypeInv
    <2> QED BY <2>1, <2>2
<1>13. claims' \in Nat
    BY <1>3 DEF TypeInv
<1>14. TypeInv'
    BY <1>3, <1>8, <1>9, <1>10, <1>11, <1>12, <1>13 DEF TypeInv, Exists, user
<1>15. tasks'[t] = later /\ \A u \in Tasks \ {t} : tasks'[u] = tasks[u]
    BY <1>1, <1>3 DEF TypeInv
<1> QED BY <1>1, <1>2, <1>14, <1>15 DEF t, later

\* Delivering a run: one lemma for the steps that only write the run down.
LEMMA JournalKeepsType ==
    ASSUME TypeInv, NEW s \in Servers, NEW to \in Delivering, pc[s] \in Delivering,
           NEW status \in {"dispatching", "sent", "failed"},
           Goto(s, to), journal' = Recorded([run[s] EXCEPT !.status = status]),
           UNCHANGED <<tasks, inbox, todo, snap, run, expected, user, rest>>
    PROVE  TypeInv'
<1> DEFINE r == [run[s] EXCEPT !.status = status]
<1>1. run[s] \in Runs /\ run[s].id \in 1 .. claims /\ run[s].started <= now
    BY DEF TypeInv
<1>2. r \in Runs /\ r.id = run[s].id /\ r.started = run[s].started
    BY <1>1 DEF Runs
<1> HIDE DEF r
<1>3. \A q \in Recorded(r) : q \in Runs /\ q.id \in 1 .. claims /\ q.started <= now
    BY <1>1, <1>2, RecordedType
<1>4. pc' = [pc EXCEPT ![s] = to] /\ to \in Places /\ journal' = Recorded(r)
    BY DEF Goto, Delivering, Places, r
<1>5. pc' \in [Servers -> Places]
    BY <1>4 DEF TypeInv
<1>6. \A q \in Servers : /\ pc'[q] \in Delivering <=> pc[q] \in Delivering
                         /\ pc'[q] = "asking" <=> pc[q] = "asking"
    BY <1>4 DEF TypeInv, Delivering
<1> QED BY <1>3, <1>4, <1>5, <1>6 DEF TypeInv, Exists, user, rest

LEMMA SameRun ==
    ASSUME NEW r \in Runs, r.status = "dispatching"
    PROVE  r = [r EXCEPT !.status = "dispatching"]
BY DEF Runs

LEMMA DeliveryKeepsType ==
    ASSUME TypeInv, NEW s \in Servers,
           \/ CreateChat(s) \/ CreateFails(s) \/ RecordChat(s) \/ PrepareDelivery(s)
           \/ DeliveryRefused(s) \/ Engine(s) \/ SendAnswered(s) \/ SendFails(s)
           \/ RecordSent(s) \/ Announce(s) \/ Fail(s)
    PROVE  TypeInv'
<1>0. pc[s] \in Delivering /\ run[s] \in Runs /\ run[s].id \in 1 .. claims /\ run[s].started <= now
      /\ run[s].status = "dispatching" /\ run[s].task = snap[s].id /\ snap[s] \in Snapshots
    <2>1. pc[s] \in Delivering
        BY DEF CreateChat, CreateFails, RecordChat, PrepareDelivery, DeliveryRefused, Engine,
               SendAnswered, SendFails, SendReturns, RecordSent, Announce, Fail, Delivering
    <2> QED BY <2>1 DEF TypeInv
<1>1. CASE CreateChat(s)
    <2> DEFINE new == [run[s] EXCEPT !.chat = chats + 1]
    <2>1. /\ pc' = [pc EXCEPT ![s] = "recording"] /\ chats' = chats + 1
          /\ run' = [run EXCEPT ![s] = new]
          /\ UNCHANGED <<database, todo, snap, expected, user, now, claims, sent, abandoned, crashes>>
        BY <1>1 DEF CreateChat, Goto, TypeInv
    <2>2. chats + 1 \in Nat
        BY DEF TypeInv
    <2>3. new \in Runs /\ new.id = run[s].id /\ new.started = run[s].started
          /\ new.task = run[s].task /\ new.status = run[s].status
        BY <1>0, <2>2 DEF Runs
    <2> HIDE DEF new
    <2>4. pc' \in [Servers -> Places] /\ run' \in [Servers -> Runs \cup {NoRun}]
        BY <2>1, <2>3 DEF TypeInv, Places
    <2>5. \A q \in Servers : /\ pc'[q] \in Delivering <=> pc[q] \in Delivering
                             /\ pc'[q] = "asking" <=> pc[q] = "asking"
        BY <1>0, <2>1 DEF TypeInv, Delivering
    <2>6. ASSUME NEW q \in Servers, pc[q] \in Delivering
          PROVE  /\ run'[q] \in Runs /\ run'[q].id \in 1 .. claims /\ run'[q].started <= now
                 /\ run'[q].task = snap[q].id /\ run'[q].status = "dispatching"
        <3>1. CASE q = s
            BY <1>0, <2>1, <2>3, <3>1 DEF TypeInv
        <3>2. CASE q # s
            BY <2>1, <2>6, <3>2 DEF TypeInv
        <3> QED BY <3>1, <3>2
    <2> QED BY <2>1, <2>2, <2>4, <2>5, <2>6 DEF TypeInv, Exists, database, user
<1>2. CASE CreateFails(s) \/ DeliveryRefused(s) \/ SendAnswered(s) \/ SendFails(s)
    <2>1. PICK to \in {"failing", "sent"} :
              Goto(s, to) /\ UNCHANGED <<database, todo, snap, run, expected, user, rest>>
        BY <1>2 DEF CreateFails, DeliveryRefused, SendAnswered, SendFails, SendReturns
    <2>2. to \in Delivering
        BY DEF Delivering
    <2> QED BY <1>0, <2>1, <2>2, MoveKeepsType
<1>3. CASE RecordChat(s)
    <2>1. /\ Goto(s, "preparing") /\ journal' = Recorded(run[s])
          /\ UNCHANGED <<tasks, inbox, todo, snap, run, expected, user, rest>>
        BY <1>3 DEF RecordChat
    <2>2. run[s] = [run[s] EXCEPT !.status = "dispatching"]
        BY <1>0, SameRun
    <2>3. journal' = Recorded([run[s] EXCEPT !.status = "dispatching"])
        BY <2>1, <2>2
    <2>4. "preparing" \in Delivering
        BY DEF Delivering
    <2> QED BY <1>0, <2>1, <2>3, <2>4, JournalKeepsType
<1>4. CASE RecordSent(s)
    <2>1. "announcing" \in Delivering
        BY DEF Delivering
    <2> QED BY <1>0, <1>4, <2>1, JournalKeepsType DEF RecordSent
<1>5. CASE Engine(s)
    <2> DEFINE e == [task |-> snap[s].id, due |-> run[s].due, chat |-> run[s].chat,
                     prompt |-> snap[s].prompt, reuse |-> snap[s].reuse]
    <2>1. /\ pc' = [pc EXCEPT ![s] = "taken"] /\ sent' = Append(sent, e)
          /\ UNCHANGED <<database, todo, snap, run, expected, user, now, claims, chats, abandoned, crashes>>
        BY <1>5 DEF Engine, Goto
    <2>2. e \in Sent
        BY <1>0 DEF Runs, Snapshots, Sent
    <2> HIDE DEF e
    <2>3. sent' \in Seq(Sent)
        BY <2>1, <2>2, AppendProperties DEF TypeInv
    <2>4. pc' \in [Servers -> Places]
        BY <2>1 DEF TypeInv, Places
    <2>5. \A q \in Servers : /\ pc'[q] \in Delivering <=> pc[q] \in Delivering
                             /\ pc'[q] = "asking" <=> pc[q] = "asking"
        BY <1>0, <2>1 DEF TypeInv, Delivering
    <2> QED BY <2>1, <2>3, <2>4, <2>5 DEF TypeInv, Exists, database, user
<1>6. CASE PrepareDelivery(s)
    <2> DEFINE t == snap[s].id
               new == Bound(tasks[t], run[s].chat)
    <2>1. t \in Tasks /\ Exists(t) /\ run[s].chat \in Nat
        BY <1>0, <1>6 DEF PrepareDelivery, MayDeliver, Runs, Snapshots
    <2>2. tasks[t] \in Snapshots /\ tasks[t].id = t
        BY <2>1 DEF TypeInv, Exists
    <2>3. /\ tasks' = [tasks EXCEPT ![t] = new] /\ journal' = Recorded(run[s])
          /\ expected' = [expected EXCEPT ![s] = tasks'[t].revision]
          /\ pc' = [pc EXCEPT ![s] = "sending"]
          /\ UNCHANGED <<inbox, todo, snap, run, user, rest>>
        BY <1>6 DEF PrepareDelivery, Goto
    <2> HIDE DEF t
    <2>4. new \in Snapshots /\ new.id = t
        <3>1. \A c \in Nat : Bound(tasks[t], c) \in Snapshots /\ Bound(tasks[t], c).id = tasks[t].id
            BY <2>2, BoundType
        <3> QED BY <2>1, <2>2, <3>1
    <2> HIDE DEF new
    <2>5. /\ tasks' \in [Tasks -> Snapshots \cup {NoTask}]
          /\ \A u \in Tasks : tasks'[u] # NoTask => tasks'[u].id = u
          /\ tasks'[t] = new
        BY <2>1, <2>3, <2>4 DEF TypeInv, Exists
    <2>6. new.revision \in Nat
        BY <2>4 DEF Snapshots
    <2>7. expected' \in [Servers -> Nat] /\ pc' \in [Servers -> Places]
        BY <2>3, <2>5, <2>6 DEF TypeInv, Places
    <2>8. \A q \in Servers : /\ pc'[q] \in Delivering <=> pc[q] \in Delivering
                             /\ pc'[q] = "asking" <=> pc[q] = "asking"
        BY <1>0, <2>3 DEF TypeInv, Delivering
    <2>9. \A q \in Recorded(run[s]) : q \in Runs /\ q.id \in 1 .. claims /\ q.started <= now
        BY <1>0, RecordedType
    <2> QED BY <2>3, <2>5, <2>7, <2>8, <2>9 DEF TypeInv, Exists, user, rest
<1>7. CASE Announce(s)
    <2>1. [chat |-> run[s].chat, at |-> run[s].started] \in [chat : Nat, at : Nat]
        BY <1>0 DEF Runs
    <2>2. inbox' \subseteq inbox \cup {[chat |-> run[s].chat, at |-> run[s].started]}
          /\ UNCHANGED <<tasks, journal>> /\ Leave(s)
        BY <1>7 DEF Announce, Shown
    <2>3. inbox' \subseteq [chat : Nat, at : Nat]
        BY <2>1, <2>2 DEF TypeInv
    <2>4. /\ tasks \in [Tasks -> Snapshots \cup {NoTask}]
          /\ \A t \in Tasks : tasks[t] # NoTask => tasks[t].id = t
          /\ \A r \in journal : r \in Runs /\ r.id \in 1 .. claims /\ r.started <= now
        BY DEF TypeInv, Exists
    <2> QED BY <2>2, <2>3, <2>4, LeaveKeepsType
<1>8. CASE Fail(s)
    <2> DEFINE t == snap[s].id
               new == [tasks[t] EXCEPT !.status = "paused", !.revision = @ + 1]
               r == [run[s] EXCEPT !.status = "failed"]
    <2>1. /\ Leave(s) /\ journal' = Recorded(r) /\ UNCHANGED inbox
          /\ tasks' = tasks \/ (Exists(t) /\ tasks' = [tasks EXCEPT ![t] = new])
        BY <1>8 DEF Fail, Pauses
    <2>2. r \in Runs /\ r.id = run[s].id /\ r.started = run[s].started
        BY <1>0 DEF Runs
    <2>3. t \in Tasks
        BY <1>0 DEF Snapshots
    <2>4. Exists(t) => tasks[t] \in Snapshots /\ tasks[t].id = t
        BY <2>3 DEF TypeInv, Exists
    <2> HIDE DEF t
    <2>5. Exists(t) => new \in Snapshots /\ new.id = t
        BY <2>4, PausedType
    <2> HIDE DEF new, r
    <2>6. \A q \in Recorded(r) : q \in Runs /\ q.id \in 1 .. claims /\ q.started <= now
        BY <1>0, <2>2, RecordedType
    <2>7. /\ tasks' \in [Tasks -> Snapshots \cup {NoTask}]
          /\ \A u \in Tasks : tasks'[u] # NoTask => tasks'[u].id = u
        <3>1. tasks \in [Tasks -> Snapshots \cup {NoTask}] /\ \A u \in Tasks : tasks[u] # NoTask => tasks[u].id = u
            BY DEF TypeInv, Exists
        <3> QED BY <2>1, <2>3, <2>5, <3>1
    <2>8. inbox' \subseteq [chat : Nat, at : Nat]
        BY <2>1 DEF TypeInv
    <2> QED BY <2>1, <2>6, <2>7, <2>8, LeaveKeepsType
<1> QED BY <1>1, <1>2, <1>3, <1>4, <1>5, <1>6, <1>7, <1>8

LEMMA CrashKeepsType ==
    ASSUME TypeInv, NEW s \in Servers, Crash(s)
    PROVE  TypeInv'
<1>1. /\ pc' = [pc EXCEPT ![s] = "idle"] /\ snap' = [snap EXCEPT ![s] = NoTask]
      /\ run' = [run EXCEPT ![s] = NoRun] /\ expected' = [expected EXCEPT ![s] = 0]
      /\ todo' = [todo EXCEPT ![s] = {}]
      /\ crashes' \in 0 .. MaxCrashes
      /\ UNCHANGED <<database, user, now, claims, chats, sent>>
    BY ScheduledAssumption DEF Crash, Goto, TypeInv, ScheduledAssumption
<1>2. /\ pc' \in [Servers -> Places] /\ snap' \in [Servers -> Snapshots \cup {NoTask}]
      /\ run' \in [Servers -> Runs \cup {NoRun}] /\ expected' \in [Servers -> Nat]
      /\ todo' \in [Servers -> SUBSET Snapshots]
    BY <1>1 DEF TypeInv, Places
<1>3. \A q \in Servers : snap'[q] # NoTask <=> pc'[q] \in Delivering \cup {"asking"}
    BY <1>1 DEF TypeInv, Delivering
<1>4. \A q \in Servers : pc'[q] \in Delivering => q # s /\ pc[q] \in Delivering
    BY <1>1 DEF TypeInv, Delivering
<1>5. \A q \in Servers : pc'[q] \in Delivering => run'[q] = run[q] /\ snap'[q] = snap[q]
    BY <1>1, <1>4 DEF TypeInv
<1> QED BY <1>1, <1>2, <1>3, <1>4, <1>5 DEF TypeInv, Exists, database, user

\* The type is an invariant; every other invariant is proved next to it.
LEMMA NextKeepsType == TypeInv /\ [Next]_vars => TypeInv'
<1> SUFFICES ASSUME TypeInv, [Next]_vars PROVE TypeInv'
    OBVIOUS
<1>1. CASE \E t \in Tasks : OpenForm(t) \/ \E S \in Schedules, reuse \in BOOLEAN : Create(t, S, reuse)
    BY <1>1, UserKeepsType
<1>2. CASE \E S \in Schedules, reuse, keep \in BOOLEAN, patch \in {"none", "active", "paused"} :
              SaveForm(S, reuse, keep, patch)
    BY <1>2, UserKeepsType
<1>3. CASE Remove \/ Passes
    BY <1>3, UserKeepsType
<1>4. ASSUME NEW s \in Servers, Works(s) PROVE TypeInv'
    BY <1>4, LookingKeepsType, DeliveryKeepsType DEF Works
<1>5. ASSUME NEW s \in Servers, Claim(s) PROVE TypeInv'
    BY <1>5, ClaimKeepsType
<1>6. ASSUME NEW s \in Servers, Unavailable(s) \/ ClaimThrows(s) PROVE TypeInv'
    BY <1>6, LookingKeepsType
<1>7. ASSUME NEW s \in Servers, Crash(s) PROVE TypeInv'
    BY <1>7, CrashKeepsType
<1>8. CASE UNCHANGED vars
    BY <1>8 DEF vars, TypeInv, Exists
<1> QED BY <1>1, <1>2, <1>3, <1>4, <1>5, <1>6, <1>7, <1>8 DEF Next

\* Every variable keeps its type, whatever the servers, the user and the crashes
\* do: a server has a snapshot and a run exactly while it is at work on them.
THEOREM TypeCorrect == Spec => []TypeOK
<1>1. TypeInv => TypeOK
    BY DEF TypeInv, TypeOK, Exists
<1> QED BY <1>1, InitType, NextKeepsType, PTL DEF Spec

-----------------------------------------------------------------------------
(* What a step may do to a task.                                           *)

\* A later version of a task has the next revision; its next occurrence is the
\* old one or in the future; an edit gives it instructions of its own, and nothing
\* else takes a chat from it.
LaterVersion(old, new) ==
    /\ new.revision = old.revision + 1
    /\ new.next = old.next \/ new.next = Never \/ new.next > now
    /\ \/ new.prompt = new.revision
       \/ /\ new.prompt = old.prompt /\ new.reuse = old.reuse
          /\ new.chat = old.chat \/ old.chat = NoChat

TaskStep(t) ==
    \/ tasks'[t] = tasks[t]
    \/ tasks'[t] = NoTask
    \/ ~Exists(t) /\ t \in fresh /\ t \notin fresh' /\ tasks'[t].prompt <= tasks'[t].revision
    \/ Exists(t) /\ tasks'[t] # NoTask /\ LaterVersion(tasks[t], tasks'[t])

FreshInv == \A t \in fresh : ~Exists(t)

LEMMA UserTaskSteps ==
    ASSUME TypeInv, FreshInv
    PROVE  /\ \A t \in Tasks : OpenForm(t) => \A u \in Tasks : TaskStep(u)
           /\ \A t \in Tasks, S \in Schedules, reuse \in BOOLEAN :
                Create(t, S, reuse) => \A u \in Tasks : TaskStep(u)
           /\ \A S \in Schedules, reuse, keep \in BOOLEAN, patch \in {"none", "active", "paused"} :
                SaveForm(S, reuse, keep, patch) => \A u \in Tasks : TaskStep(u)
           /\ Remove \/ Passes => \A u \in Tasks : TaskStep(u)
<1>0. tasks \in [Tasks -> Snapshots \cup {NoTask}] /\ now \in Nat
    BY DEF TypeInv
<1>1. ASSUME NEW t \in Tasks, OpenForm(t) PROVE \A u \in Tasks : TaskStep(u)
    BY <1>1 DEF OpenForm, TaskStep, database
<1>2. ASSUME NEW t \in Tasks, NEW S \in Schedules, NEW reuse \in BOOLEAN, Create(t, S, reuse)
      PROVE  \A u \in Tasks : TaskStep(u)
    <2> DEFINE new == [id |-> t, revision |-> 1, status |-> "active", schedule |-> S,
                       next |-> NextOccurrence(S, now), chat |-> NoChat, reuse |-> reuse, prompt |-> 1]
    <2>1. tasks' = [tasks EXCEPT ![t] = new] /\ t \in fresh /\ t \notin fresh'
        BY <1>2 DEF Create
    <2>2. new.prompt <= new.revision
        OBVIOUS
    <2> HIDE DEF new
    <2> QED BY <1>0, <2>1, <2>2 DEF TaskStep, FreshInv
<1>3. ASSUME NEW S \in Schedules, NEW reuse \in BOOLEAN, NEW keep \in BOOLEAN,
             NEW patch \in {"none", "active", "paused"}, SaveForm(S, reuse, keep, patch)
      PROVE  \A u \in Tasks : TaskStep(u)
    <2> DEFINE t == form.id
               kept == IF keep THEN form.chat ELSE NoChat
               saved == Updated(tasks[t], S, reuse, kept, patch)
    <2>1. form \in Snapshots /\ t \in Tasks /\ kept \in Nat
        BY <1>3 DEF SaveForm, TypeInv, Snapshots, NoChat
    <2>2. tasks' = tasks \/ (Exists(t) /\ tasks[t].revision = form.revision
                              /\ tasks' = [tasks EXCEPT ![t] = saved])
        BY <1>3 DEF SaveForm, Current
    <2>3. Exists(t) => tasks[t] \in Snapshots
        BY <2>1 DEF TypeInv, Exists
    <2> HIDE DEF t, kept
    <2>4. Exists(t) /\ tasks[t].revision = form.revision =>
            saved # NoTask /\ LaterVersion(tasks[t], saved)
        <3>0. form \in Snapshots /\ kept \in Nat /\ now \in Nat
            BY <1>0, <2>1
        <3>1. \A task \in Snapshots : UpdatedWell(task, S, reuse, kept, patch)
            BY <3>0, UpdatedIsWell
        <3>3. saved = Updated(tasks[t], S, reuse, kept, patch)
            OBVIOUS
        <3> HIDE DEF saved
        <3>2. Exists(t) => /\ saved \in Snapshots
                           /\ saved.revision = form.revision + 1 /\ saved.prompt = saved.revision
                           /\ saved.next = tasks[t].next \/ saved.next = Never \/ saved.next > now
            BY <2>3, <3>1, <3>3 DEF UpdatedWell
        <3> QED BY <3>2, ScheduledAssumption DEF ScheduledAssumption, LaterVersion
    <2> HIDE DEF saved
    <2> QED BY <1>0, <2>1, <2>2, <2>4 DEF TaskStep
<1>4. CASE Remove \/ Passes
    <2>1. tasks' = tasks \/ tasks' = [tasks EXCEPT ![form.id] = NoTask]
        BY <1>4 DEF Remove, Passes, database
    <2> QED BY <1>0, <2>1 DEF TaskStep
<1> QED BY <1>1, <1>2, <1>3, <1>4

LEMMA ServerTaskSteps ==
    ASSUME TypeInv, NEW s \in Servers, Works(s) \/ Claim(s) \/ Unavailable(s) \/ ClaimThrows(s) \/ Crash(s)
    PROVE  \A u \in Tasks : TaskStep(u)
<1>0. tasks \in [Tasks -> Snapshots \cup {NoTask}] /\ now \in Nat
      /\ \A t \in Tasks : Exists(t) => tasks[t] \in Snapshots
    BY DEF TypeInv, Exists
<1>5. \A new \in Snapshots : new # NoTask
    BY ScheduledAssumption DEF ScheduledAssumption
<1>1. CASE Claim(s)
    <2> DEFINE t == snap[s].id
    <2>1. /\ t \in Tasks /\ Exists(t) /\ tasks[t] \in Snapshots
          /\ tasks'[t] = Advanced(tasks[t])
          /\ \A u \in Tasks \ {t} : tasks'[u] = tasks[u]
        BY <1>1, ClaimKeepsType
    <2> HIDE DEF t
    <2>2. /\ tasks'[t] \in Snapshots /\ LaterVersion(tasks[t], tasks'[t])
        BY <1>0, <2>1, AdvancedType DEF LaterVersion
    <2> QED BY <1>5, <2>1, <2>2 DEF TaskStep
<1>2. CASE PrepareDelivery(s)
    <2> DEFINE t == snap[s].id
               bound == Bound(tasks[t], run[s].chat)
    <2>1. Exists(t) /\ tasks' = [tasks EXCEPT ![t] = bound]
        BY <1>2 DEF PrepareDelivery, MayDeliver
    <2>2. t \in Tasks /\ run[s].chat \in Nat
        BY <1>2 DEF PrepareDelivery, TypeInv, Delivering, Snapshots, Runs
    <2>3. tasks[t] \in Snapshots
        BY <1>0, <2>1, <2>2
    <2> HIDE DEF t
    <2>4. bound \in Snapshots /\ (bound = tasks[t] \/ LaterVersion(tasks[t], bound))
        <3>1. \A c \in Nat : LET new == Bound(tasks[t], c)
                IN  /\ new \in Snapshots /\ new.prompt = tasks[t].prompt
                    /\ new.reuse = tasks[t].reuse /\ new.next = tasks[t].next
                    /\ new = tasks[t] \/ (new.revision = tasks[t].revision + 1 /\ tasks[t].chat = NoChat)
            BY <2>3, BoundType
        <3> HIDE DEF bound
        <3>2. /\ bound \in Snapshots /\ bound.prompt = tasks[t].prompt
              /\ bound.reuse = tasks[t].reuse /\ bound.next = tasks[t].next
              /\ bound = tasks[t] \/ (bound.revision = tasks[t].revision + 1 /\ tasks[t].chat = NoChat)
            BY <2>2, <3>1 DEF bound
        <3> QED BY <3>2 DEF LaterVersion
    <2> HIDE DEF bound
    <2> QED BY <1>0, <1>5, <2>1, <2>2, <2>4 DEF TaskStep
<1>3. CASE Fail(s)
    <2> DEFINE t == snap[s].id
               stopped == [tasks[t] EXCEPT !.status = "paused", !.revision = @ + 1]
    <2>1. tasks' = tasks \/ (Exists(t) /\ tasks' = [tasks EXCEPT ![t] = stopped])
        BY <1>3 DEF Fail, Pauses
    <2>2. t \in Tasks
        BY <1>3 DEF Fail, TypeInv, Delivering, Snapshots
    <2> HIDE DEF t
    <2>4. Exists(t) => stopped \in Snapshots /\ LaterVersion(tasks[t], stopped)
        <3>1. \A task \in Snapshots : LET new == [task EXCEPT !.status = "paused", !.revision = @ + 1]
                IN  /\ new \in Snapshots /\ new.prompt = task.prompt
                    /\ new.reuse = task.reuse /\ new.next = task.next
                    /\ new.chat = task.chat /\ new.revision = task.revision + 1
            BY PausedType
        <3> HIDE DEF stopped
        <3>2. Exists(t) => /\ stopped \in Snapshots /\ stopped.prompt = tasks[t].prompt
                           /\ stopped.reuse = tasks[t].reuse /\ stopped.next = tasks[t].next
                           /\ stopped.chat = tasks[t].chat /\ stopped.revision = tasks[t].revision + 1
            BY <1>0, <2>2, <3>1 DEF stopped
        <3> QED BY <3>2 DEF LaterVersion
    <2> HIDE DEF stopped
    <2> QED BY <1>0, <1>5, <2>1, <2>2, <2>4 DEF TaskStep
<1>4. CASE tasks' = tasks
    BY <1>4 DEF TaskStep
<1> QED BY <1>1, <1>2, <1>3, <1>4
      DEF Works, TickBegins, Consider, ClaimLost, ClaimThrows, SearchThrows, Unavailable, TickEnds, CreateChat, CreateFails,
          RecordChat, DeliveryRefused, Engine, SendAnswered, SendFails, SendReturns, RecordSent,
          Announce, Crash, database

\* Every step: a task stays, goes, is new, or has a later version.
LEMMA TaskSteps ==
    ASSUME TypeInv, FreshInv, [Next]_vars
    PROVE  /\ \A t \in Tasks : TaskStep(t)
           /\ fresh' \subseteq fresh /\ now \in Nat /\ now' \in Nat /\ now <= now'
           /\ FreshInv'
<1>1. \A t \in Tasks : TaskStep(t)
    <2>1. CASE UNCHANGED vars
        BY <2>1 DEF vars, TaskStep
    <2> QED BY <2>1, UserTaskSteps, ServerTaskSteps DEF Next
<1>2. fresh' \subseteq fresh /\ now' \in {now, now + 1}
    <2>1. CASE UNCHANGED vars
        BY <2>1 DEF vars
    <2>2. ASSUME NEW s \in Servers, Works(s) \/ Claim(s) \/ Unavailable(s) \/ ClaimThrows(s) \/ Crash(s)
          PROVE  UNCHANGED <<fresh, now>>
        BY <2>2 DEF Works, TickBegins, Consider, ClaimLost, ClaimThrows, SearchThrows, Unavailable, TickEnds, CreateChat, CreateFails,
          RecordChat, DeliveryRefused, Engine, SendAnswered, SendFails, SendReturns, RecordSent, Claim,
          PrepareDelivery, Fail, Leave, Announce, Crash, user, rest
    <2>3. CASE \E t \in Tasks : OpenForm(t) \/ \E S \in Schedules, reuse \in BOOLEAN : Create(t, S, reuse)
        BY <2>3 DEF OpenForm, Create, rest
    <2>4. CASE \E S \in Schedules, reuse, keep \in BOOLEAN, patch \in {"none", "active", "paused"} :
              SaveForm(S, reuse, keep, patch)
        BY <2>4 DEF SaveForm, rest
    <2>5. CASE Remove \/ Passes
        BY <2>5 DEF Remove, Passes, rest, user
    <2> QED BY <2>1, <2>2, <2>3, <2>4, <2>5 DEF Next
<1>3. now \in Nat
    BY DEF TypeInv
<1>4. FreshInv'
    BY <1>1, <1>2 DEF FreshInv, TaskStep, TypeInv, Exists
<1> QED BY <1>1, <1>2, <1>3, <1>4

-----------------------------------------------------------------------------
(* What a step may do to a server.                                         *)

ServerActs(s) == Works(s) \/ Claim(s) \/ Unavailable(s) \/ ClaimThrows(s) \/ Crash(s)

Stays(q) == pc'[q] = pc[q] /\ todo'[q] = todo[q] /\ snap'[q] = snap[q] /\ run'[q] = run[q]

LEMMA OthersStay ==
    ASSUME TypeInv, NEW s \in Servers, ServerActs(s), NEW q \in Servers \ {s}
    PROVE  Stays(q)
<1> USE DEF TypeInv, Goto, Stays
<1>1. CASE \/ TickBegins(s) \/ TickEnds(s) \/ Unavailable(s) \/ ClaimLost(s)
           \/ ClaimThrows(s) \/ SearchThrows(s) \/ \E task \in todo[s] : Consider(s, task)
    BY <1>1 DEF TickBegins, TickEnds, Unavailable, ClaimLost, ClaimThrows, SearchThrows, Consider
<1>2. CASE Claim(s)
    BY <1>2 DEF Claim
<1>3. CASE CreateChat(s) \/ CreateFails(s) \/ RecordChat(s) \/ PrepareDelivery(s) \/ DeliveryRefused(s)
           \/ Engine(s) \/ SendAnswered(s) \/ SendFails(s) \/ RecordSent(s)
    BY <1>3 DEF CreateChat, CreateFails, RecordChat, PrepareDelivery, DeliveryRefused, Engine,
               SendAnswered, SendFails, SendReturns, RecordSent
<1>4. CASE Announce(s) \/ Fail(s) \/ Crash(s)
    BY <1>4 DEF Announce, Fail, Leave, Crash
<1> QED BY <1>1, <1>2, <1>3, <1>4 DEF ServerActs, Works

\* The user and the clock leave the servers and what was sent alone.
LEMMA UserLeavesServers ==
    ASSUME TypeInv, [Next]_vars, \A s \in Servers : ~ServerActs(s)
    PROVE  UNCHANGED <<pc, todo, snap, run, expected, claims, chats, sent, abandoned, inbox>>
BY DEF Next, ServerActs, OpenForm, Create, SaveForm, Remove, Passes, vars, tick, rest, database

Pending == {"creating", "recording", "preparing", "sending"}

\* A run belongs to one task and one occurrence, of the snapshot it was claimed
\* for, from the claim until the server leaves it.
SameWork(q) ==
    /\ snap'[q] = snap[q]
    /\ run'[q].id = run[q].id /\ run'[q].task = run[q].task /\ run'[q].due = run[q].due
    /\ run'[q].started = run[q].started
    /\ \/ run'[q].chat = run[q].chat /\ (pc[q] = "creating" => pc'[q] \in {"creating", "failing"})
       \/ pc[q] = "creating" /\ run'[q].chat # NoChat
    /\ pc[q] = "announcing" => pc'[q] = "announcing"
    /\ pc'[q] = "creating" => pc[q] = "creating"
    /\ pc'[q] = "announcing" => pc[q] = "announcing" \/ RecordSent(q)
    /\ pc'[q] \in Pending => pc[q] \in Pending
    /\ pc'[q] = "sending" => pc[q] = "sending" \/ PrepareDelivery(q)

ServerStep(q) ==
    /\ todo'[q] \subseteq todo[q] \cup { tasks[t] : t \in { u \in Tasks : Exists(u) } }
    /\ pc'[q] = "asking" => (pc[q] = "asking" /\ snap'[q] = snap[q]) \/ snap'[q] \in todo[q]
    /\ pc'[q] \in Delivering => Claim(q) \/ (pc[q] \in Delivering /\ SameWork(q))

LEMMA ServerSteps ==
    ASSUME TypeInv, [Next]_vars, NEW q \in Servers
    PROVE  ServerStep(q)
<1>0. q \in DOMAIN pc /\ q \in DOMAIN todo /\ q \in DOMAIN snap /\ q \in DOMAIN run
      /\ (pc[q] \in Delivering => run[q] \in Runs)
    BY DEF TypeInv
<1>1. CASE Stays(q)
    BY <1>1 DEF Stays, ServerStep, SameWork
<1>2. CASE TickBegins(q)
    BY <1>0, <1>2 DEF TickBegins, Goto, ServerStep, Delivering
<1>3. CASE TickEnds(q) \/ Unavailable(q) \/ ClaimLost(q) \/ ClaimThrows(q) \/ SearchThrows(q)
    BY <1>0, <1>3 DEF TickEnds, Unavailable, ClaimLost, ClaimThrows, SearchThrows, Goto, ServerStep, Delivering
<1>4. ASSUME NEW task \in todo[q], Consider(q, task) PROVE ServerStep(q)
    BY <1>0, <1>4 DEF Consider, Goto, ServerStep, Delivering
<1>5. CASE Claim(q)
    <2>1. pc'[q] \in {"creating", "recording"} /\ todo'[q] = todo[q]
        BY <1>0, <1>5 DEF Claim, Goto
    <2> QED BY <1>5, <2>1 DEF ServerStep
<1>6. CASE CreateChat(q)
    <2>1. /\ pc[q] = "creating" /\ pc'[q] = "recording" /\ todo'[q] = todo[q] /\ snap'[q] = snap[q]
          /\ run'[q] = [run[q] EXCEPT !.chat = chats + 1] /\ run[q] \in Runs
        BY <1>0, <1>6 DEF CreateChat, Goto, Delivering
    <2>2. /\ run'[q].id = run[q].id /\ run'[q].task = run[q].task /\ run'[q].due = run[q].due
          /\ run'[q].started = run[q].started /\ run'[q].chat # NoChat
        BY <2>1 DEF Runs, TypeInv, NoChat
    <2> QED BY <2>1, <2>2 DEF ServerStep, SameWork, Pending, Delivering
<1>7. CASE CreateFails(q) \/ RecordChat(q) \/ DeliveryRefused(q) \/ Engine(q)
           \/ SendAnswered(q) \/ SendFails(q)
    <2>1. /\ pc[q] \in {"creating", "recording", "preparing", "sending", "taken"}
          /\ pc'[q] \in {"failing", "taken", "sent", "preparing"}
          /\ pc'[q] = "preparing" => pc[q] = "recording"
          /\ pc[q] = "creating" => pc'[q] = "failing"
          /\ todo'[q] = todo[q] /\ snap'[q] = snap[q] /\ run'[q] = run[q]
        BY <1>0, <1>7 DEF CreateFails, RecordChat, DeliveryRefused, Engine, SendAnswered, SendFails,
                          SendReturns, Goto
    <2> QED BY <2>1 DEF ServerStep, SameWork, Pending, Delivering
<1>8. CASE PrepareDelivery(q) \/ RecordSent(q)
    <2>1. /\ \/ PrepareDelivery(q) /\ pc[q] = "preparing" /\ pc'[q] = "sending"
             \/ RecordSent(q) /\ pc[q] = "sent" /\ pc'[q] = "announcing"
          /\ todo'[q] = todo[q] /\ snap'[q] = snap[q] /\ run'[q] = run[q]
        BY <1>0, <1>8 DEF PrepareDelivery, RecordSent, Goto
    <2> QED BY <2>1 DEF ServerStep, SameWork, Pending, Delivering
<1>9. CASE Announce(q) \/ Fail(q) \/ Crash(q)
    <2>1. pc'[q] \in {"ticking", "idle"} /\ todo'[q] \subseteq todo[q]
        BY <1>0, <1>9 DEF Announce, Fail, Leave, Crash, Goto
    <2> QED BY <2>1 DEF ServerStep, Delivering
<1>10. CASE \A s \in Servers : ~ServerActs(s)
    BY <1>1, <1>10, UserLeavesServers DEF Stays
<1>11. ASSUME NEW s \in Servers, ServerActs(s), s # q PROVE ServerStep(q)
    BY <1>1, <1>11, OthersStay
<1> QED BY <1>2, <1>3, <1>4, <1>5, <1>6, <1>7, <1>8, <1>9, <1>10, <1>11 DEF ServerActs, Works

-----------------------------------------------------------------------------
(* A snapshot that is at the revision of its task is the task.             *)

\* What is known of a task by a snapshot that was followed by n steps of its own.
Sees(x, n) ==
    /\ x.id \notin fresh /\ x.prompt <= x.revision
    /\ Exists(x.id) =>
         /\ tasks[x.id].revision >= x.revision + n
         /\ tasks[x.id].revision = x.revision + n =>
              /\ tasks[x.id].prompt = x.prompt
              /\ tasks[x.id].reuse = x.reuse /\ tasks[x.id].chat = x.chat

SeesInv ==
    /\ \A t \in Tasks : Exists(t) => tasks[t].prompt <= tasks[t].revision
    /\ \A q \in Servers : \A x \in todo[q] : Sees(x, 0)
    /\ \A q \in Servers : pc[q] = "asking" => Sees(snap[q], 0)
    /\ \A q \in Servers : pc[q] \in Delivering => Sees(snap[q], 1)

LEMMA SeesStable ==
    ASSUME TypeInv, FreshInv, [Next]_vars, NEW x \in Snapshots, NEW n \in Nat, Sees(x, n)
    PROVE  Sees(x, n)'
<1> DEFINE t == x.id
<1>1. t \in Tasks /\ x.revision \in Nat /\ x.prompt \in Nat
    BY DEF Snapshots
<1>2. TaskStep(t) /\ fresh' \subseteq fresh
    BY <1>1, TaskSteps
<1>3. Exists(t) => tasks[t].revision \in Nat
    BY <1>1 DEF TypeInv, Exists, Snapshots
<1>4. t \notin fresh /\ x.prompt <= x.revision
    BY DEF Sees
<1>5. CASE tasks'[t] = tasks[t]
    BY <1>2, <1>5 DEF Sees, Exists
<1>6. CASE tasks'[t] = NoTask
    BY <1>2, <1>4, <1>6 DEF Sees, Exists
<1>7. CASE Exists(t) /\ tasks'[t] # NoTask /\ LaterVersion(tasks[t], tasks'[t])
    <2>1. tasks[t].revision >= x.revision + n /\ tasks'[t].revision = tasks[t].revision + 1
        BY <1>7 DEF Sees, LaterVersion
    <2>2. tasks'[t].revision > x.revision + n
        BY <1>1, <1>3, <1>7, <2>1
    <2> HIDE DEF t
    <2>3. tasks'[t].revision >= x.revision + n /\ tasks'[t].revision # x.revision + n
        BY <1>1, <1>3, <1>7, <2>1, <2>2
    <2> QED BY <1>2, <1>4, <2>3 DEF Sees, Exists, t
<1> QED BY <1>2, <1>4, <1>5, <1>6, <1>7 DEF TaskStep

LEMMA SeesStep ==
    ASSUME TypeInv, FreshInv, SeesInv, [Next]_vars
    PROVE  SeesInv'
<1>1. ASSUME NEW t \in Tasks, tasks'[t] # NoTask PROVE tasks'[t].prompt <= tasks'[t].revision
    <2>1. TaskStep(t)
        BY TaskSteps
    <2>2. Exists(t) => /\ tasks[t].prompt <= tasks[t].revision
                       /\ tasks[t].prompt \in Nat /\ tasks[t].revision \in Nat
        BY DEF SeesInv, TypeInv, Exists, Snapshots
    <2>3. tasks'[t].prompt \in Nat /\ tasks'[t].revision \in Nat
        <3>1. tasks' \in [Tasks -> Snapshots \cup {NoTask}]
            BY NextKeepsType DEF TypeInv
        <3>2. tasks'[t] \in Snapshots
            BY <1>1, <3>1
        <3> QED BY <3>2 DEF Snapshots
    <2> QED BY <1>1, <2>1, <2>2, <2>3 DEF TaskStep, LaterVersion, Exists
<1>2. \A x \in Snapshots : Sees(x, 0) => Sees(x, 0)'
    BY SeesStable
<1>3. \A x \in Snapshots : Sees(x, 1) => Sees(x, 1)'
    BY SeesStable
<1>4. \A t \in Tasks : Exists(t) => tasks[t] \in Snapshots /\ Sees(tasks[t], 0)
    <2>1. ASSUME NEW t \in Tasks, Exists(t) PROVE tasks[t] \in Snapshots /\ Sees(tasks[t], 0)
        <3>1. tasks[t] \in Snapshots /\ tasks[t].id = t /\ t \notin fresh
            BY <2>1 DEF TypeInv, Exists, FreshInv
        <3>2. tasks[t].prompt <= tasks[t].revision /\ tasks[t].revision \in Nat
            BY <2>1, <3>1 DEF SeesInv, Snapshots
        <3> QED BY <3>1, <3>2 DEF Sees
    <2> QED BY <2>1
<1>5. ASSUME NEW q \in Servers, NEW x \in todo'[q] PROVE Sees(x, 0)'
    <2>1. x \in todo[q] \cup { tasks[t] : t \in { u \in Tasks : Exists(u) } }
        BY <1>5, ServerSteps DEF ServerStep
    <2>2. x \in Snapshots /\ Sees(x, 0)
        BY <1>4, <2>1 DEF SeesInv, TypeInv
    <2> QED BY <1>2, <2>2
<1>6. ASSUME NEW q \in Servers, pc'[q] = "asking" PROVE Sees(snap[q], 0)'
    <2>1. (pc[q] = "asking" /\ snap'[q] = snap[q]) \/ snap'[q] \in todo[q]
        BY <1>6, ServerSteps DEF ServerStep
    <2>2. snap'[q] \in Snapshots /\ Sees(snap'[q], 0)
        BY <2>1 DEF SeesInv, TypeInv
    <2>3. PICK x \in Snapshots : x = snap'[q]
        BY <2>2
    <2>4. Sees(x, 0)'
        BY <1>2, <2>2, <2>3
    <2> QED BY <2>3, <2>4 DEF Sees
<1>7. ASSUME NEW q \in Servers, pc'[q] \in Delivering PROVE Sees(snap[q], 1)'
    <2>1. CASE Claim(q)
        <3> DEFINE t == snap[q].id
        <3>1. /\ t \in Tasks /\ Exists(t) /\ tasks[t] \in Snapshots
              /\ tasks'[t] = Advanced(tasks[t])
            BY <2>1, ClaimKeepsType
        <3>2. /\ snap'[q] = snap[q] /\ fresh' = fresh /\ pc[q] = "asking"
              /\ tasks[t].revision = snap[q].revision
            BY <2>1 DEF Claim, Claimable, user
        <3>3. Sees(snap[q], 0) /\ snap[q].revision \in Nat
            BY <3>1, <3>2 DEF SeesInv, Snapshots
        <3>4. /\ tasks[t].prompt = snap[q].prompt
              /\ tasks[t].reuse = snap[q].reuse /\ tasks[t].chat = snap[q].chat
            BY <3>1, <3>2, <3>3 DEF Sees
        <3> HIDE DEF t
        <3>5. /\ tasks'[t].revision = tasks[t].revision + 1 /\ tasks'[t].prompt = tasks[t].prompt
              /\ tasks'[t].reuse = tasks[t].reuse /\ tasks'[t].chat = tasks[t].chat
            <4>1. now \in Nat
                BY DEF TypeInv
            <4> QED BY <3>1, <4>1, AdvancedType
        <3> QED BY <3>2, <3>3, <3>4, <3>5 DEF Sees, t
    <2>2. CASE pc[q] \in Delivering /\ SameWork(q)
        <3>1. snap'[q] = snap[q] /\ snap[q] \in Snapshots /\ Sees(snap[q], 1)
            BY <2>2 DEF SeesInv, SameWork, TypeInv
        <3>2. PICK x \in Snapshots : x = snap[q]
            BY <3>1
        <3>3. Sees(x, 1)'
            BY <1>3, <3>1, <3>2
        <3> QED BY <3>1, <3>2, <3>3 DEF Sees
    <2> QED BY <1>7, <2>1, <2>2, ServerSteps DEF ServerStep
<1> QED BY <1>1, <1>5, <1>6, <1>7 DEF SeesInv, Exists

LEMMA InitSees == Init => FreshInv /\ SeesInv
BY DEF Init, FreshInv, SeesInv, Exists, Delivering

\* What every server knows of its task, from the first state on.
Knows == TypeInv /\ FreshInv /\ SeesInv
LEMMA AlwaysKnows == Spec => []Knows
<1>1. Init => Knows
    BY InitType, InitSees DEF Knows
<1>2. Knows /\ [Next]_vars => Knows'
    BY NextKeepsType, TaskSteps, SeesStep DEF Knows
<1> QED BY <1>1, <1>2, PTL DEF Spec

\* Delivery begins only with the instructions the user has saved: prepareDelivery
\* compares one number, and that is enough because every change of a task, and
\* every claim, takes a revision of its own.
THEOREM OnlySavedIsDelivered == Spec => DeliversWhatIsSaved
<1>3. ASSUME Knows, [Next]_vars, NEW q \in Servers, pc'[q] = "sending", pc[q] # "sending"
      PROVE  /\ tasks'[snap[q].id] # NoTask /\ tasks'[snap[q].id].status # "paused"
             /\ tasks'[snap[q].id].prompt = snap[q].prompt
    <2> DEFINE t == snap[q].id
    <2>1. PrepareDelivery(q)
        <3>1. pc'[q] \in Delivering
            BY <1>3 DEF Delivering
        <3>2. ~Claim(q)
            BY <1>3 DEF Knows, Claim, Goto, TypeInv
        <3> QED BY <1>3, <3>1, <3>2, ServerSteps DEF Knows, ServerStep, SameWork
    <2>2. /\ pc[q] \in Delivering /\ MayDeliver(q) /\ tasks' = [tasks EXCEPT ![t] = Bound(@, run[q].chat)]
        BY <2>1 DEF PrepareDelivery, Delivering
    <2>3. /\ Exists(t) /\ tasks[t].revision = snap[q].revision + 1 /\ tasks[t].status # "paused"
          /\ Sees(snap[q], 1) /\ snap[q] \in Snapshots /\ run[q].chat \in Nat
        BY <1>3, <2>2 DEF Knows, MayDeliver, SeesInv, TypeInv, Runs
    <2>4. tasks[t] \in Snapshots /\ t \in Tasks /\ tasks[t].prompt = snap[q].prompt
        BY <1>3, <2>3 DEF Knows, TypeInv, Exists, Sees, Snapshots
    <2>5. tasks'[t] = Bound(tasks[t], run[q].chat)
        BY <1>3, <2>2, <2>4 DEF Knows, TypeInv
    <2> HIDE DEF t
    <2>6. /\ tasks'[t] \in Snapshots /\ tasks'[t].prompt = tasks[t].prompt
          /\ tasks'[t].status = tasks[t].status
        BY <2>3, <2>4, <2>5, BoundType
    <2>7. tasks'[t] # NoTask
        BY <2>6, ScheduledAssumption DEF ScheduledAssumption
    <2> QED BY <2>3, <2>4, <2>6, <2>7 DEF t
<1>4. Knows /\ [Next]_vars =>
        [\A s \in Servers :
           pc'[s] = "sending" /\ pc[s] # "sending" =>
             LET t == snap[s].id
             IN  /\ tasks'[t] # NoTask /\ tasks'[t].status # "paused"
                 /\ tasks'[t].prompt = snap[s].prompt]_vars
    BY <1>3
<1> QED BY <1>4, AlwaysKnows, PTL DEF Spec, DeliversWhatIsSaved

-----------------------------------------------------------------------------
(* An occurrence is sent once.                                             *)

\* The schedule has moved past an occurrence of a task that exists.
Past(t, due) ==
    /\ t \notin fresh /\ due <= now
    /\ Exists(t) => tasks[t].next = Never \/ due < tasks[t].next

\* What has been claimed and what has been sent is past, nothing is claimed
\* twice, and nothing that is still to be sent has been sent.
OnceInv ==
    /\ \A i \in DOMAIN sent : Past(sent[i].task, sent[i].due)
    /\ \A q \in Servers : pc[q] \in Pending =>
         /\ Past(run[q].task, run[q].due)
         /\ \A i \in DOMAIN sent : ~(sent[i].task = run[q].task /\ sent[i].due = run[q].due)
    /\ \A q, o \in Servers : pc[q] \in Pending /\ pc[o] \in Pending /\ q # o =>
         ~(run[q].task = run[o].task /\ run[q].due = run[o].due)
    /\ OccurrenceSentOnce

LEMMA PastStable ==
    ASSUME TypeInv, FreshInv, [Next]_vars, NEW t \in Tasks, NEW due \in Nat, Past(t, due)
    PROVE  Past(t, due)'
<1>1. TaskStep(t) /\ fresh' \subseteq fresh /\ now \in Nat /\ now' \in Nat /\ now <= now'
    BY TaskSteps
<1>2. t \notin fresh' /\ due <= now'
    BY <1>1 DEF Past
<1>3. Exists(t) => tasks[t].next \in Nat
    BY DEF TypeInv, Exists, Snapshots
<1>4. Exists(t)' => tasks'[t].next \in Nat
    <2>1. tasks' \in [Tasks -> Snapshots \cup {NoTask}]
        BY NextKeepsType DEF TypeInv
    <2> QED BY <2>1 DEF Exists, Snapshots
<1>5. CASE tasks'[t] = tasks[t]
    BY <1>2, <1>5 DEF Past, Exists
<1>6. CASE tasks'[t] = NoTask
    BY <1>2, <1>6 DEF Past, Exists
<1>7. CASE Exists(t) /\ tasks'[t] # NoTask /\ LaterVersion(tasks[t], tasks'[t])
    <2>1. tasks'[t].next = tasks[t].next \/ tasks'[t].next = Never \/ tasks'[t].next > now
        BY <1>7 DEF LaterVersion
    <2>2. tasks[t].next = Never \/ due < tasks[t].next
        BY <1>7 DEF Past
    <2>3. due <= now
        BY DEF Past
    <2>4. tasks'[t].next = Never \/ due < tasks'[t].next
        BY <1>1, <1>3, <1>4, <1>7, <2>1, <2>2, <2>3 DEF Exists
    <2> QED BY <1>2, <2>4 DEF Past, Exists
<1> QED BY <1>1, <1>5, <1>6, <1>7 DEF TaskStep, Past

\* A claim takes an occurrence that nothing has taken before.
LEMMA ClaimIsNew ==
    ASSUME TypeInv, FreshInv, NEW s \in Servers, Claim(s), FreshInv'
    PROVE  /\ Past(run[s].task, run[s].due)'
           /\ \A due \in Nat : Past(run'[s].task, due) => due # run'[s].due
<1> DEFINE t == snap[s].id
           new == [id |-> claims + 1, task |-> t, due |-> tasks[t].next, started |-> now,
                   chat |-> tasks[t].chat, status |-> "dispatching"]
<1>1. /\ t \in Tasks /\ Exists(t) /\ tasks[t] \in Snapshots
      /\ tasks'[t] = Advanced(tasks[t])
    BY ClaimKeepsType
<1>2. /\ run'[s] = new /\ now' = now /\ fresh' = fresh
      /\ tasks[t].next # Never /\ tasks[t].next <= now
    BY DEF Claim, Claimable, Due, TypeInv, user
<1>3. run'[s].task = t /\ run'[s].due = tasks[t].next
    BY <1>2
<1> HIDE DEF t, new
<1>4. tasks[t].next \in Nat /\ now \in Nat /\ t \notin fresh
    BY <1>1 DEF Snapshots, TypeInv, FreshInv
<1>5. tasks'[t].next = Never \/ tasks'[t].next > now
    BY <1>1, <1>4, AdvancedType
<1>6. tasks'[t] \in Snapshots
    BY <1>1, <1>4, AdvancedType
<1>7. tasks'[t].next = Never \/ tasks[t].next < tasks'[t].next
    BY <1>2, <1>4, <1>5, <1>6 DEF Snapshots
<1>8. Past(run[s].task, run[s].due)'
    BY <1>2, <1>3, <1>4, <1>7 DEF Past
<1>9. \A due \in Nat : Past(t, due) => due # tasks[t].next
    BY <1>1, <1>2, <1>4 DEF Past
<1> QED BY <1>3, <1>8, <1>9

\* What is sent is the run of a server that was sending.
Carried(q) ==
    [task |-> snap[q].id, due |-> run[q].due, chat |-> run[q].chat,
     prompt |-> snap[q].prompt, reuse |-> snap[q].reuse]
Delivered(q) ==
    /\ pc[q] = "sending" /\ pc'[q] = "taken" /\ run[q].due \in Nat /\ run[q].task \in Tasks
    /\ Len(sent') = Len(sent) + 1
    /\ \A i \in 1 .. Len(sent) : sent'[i] = sent[i]
    /\ sent'[Len(sent) + 1].task = run[q].task /\ sent'[Len(sent) + 1].due = run[q].due
    /\ sent'[Len(sent) + 1] = Carried(q)

LEMMA SentSteps ==
    ASSUME TypeInv, [Next]_vars
    PROVE  sent' = sent \/ \E q \in Servers : Engine(q) /\ Delivered(q)
<1>1. ASSUME NEW q \in Servers, Engine(q) PROVE Delivered(q)
    <2> DEFINE e == Carried(q)
    <2>1. /\ pc[q] = "sending" /\ pc'[q] = "taken" /\ sent' = Append(sent, e)
          /\ snap[q] \in Snapshots /\ run[q] \in Runs /\ run[q].task = snap[q].id
        BY <1>1, ScheduledAssumption DEF Engine, Goto, TypeInv, Delivering, ScheduledAssumption, Carried
    <2>2. e \in Sent /\ sent \in Seq(Sent)
        BY <2>1 DEF Carried, Sent, Snapshots, Runs, TypeInv
    <2>3. /\ e.task = run[q].task /\ e.due = run[q].due
          /\ run[q].due \in Nat /\ run[q].task \in Tasks
        BY <2>1 DEF Runs, Carried
    <2> HIDE DEF e
    <2>4. /\ Len(sent') = Len(sent) + 1 /\ sent'[Len(sent) + 1] = e
          /\ \A i \in 1 .. Len(sent) : sent'[i] = sent[i]
        BY <2>1, <2>2, AppendProperties
    <2> QED BY <2>1, <2>3, <2>4 DEF Delivered, e
<1>2. ASSUME NEW q \in Servers, ServerActs(q), ~Engine(q) PROVE sent' = sent
    BY <1>2 DEF ServerActs, Works, TickBegins, Consider, ClaimLost, ClaimThrows, SearchThrows, Unavailable, TickEnds, CreateChat,
          CreateFails, RecordChat, DeliveryRefused, SendAnswered, SendFails, SendReturns,
          RecordSent, Claim, PrepareDelivery, Fail, Leave, Announce, Crash, user, rest
<1> QED BY <1>1, <1>2, UserLeavesServers

\* A claim leaves every other server at the work it had.
LEMMA ClaimsAreAlone ==
    ASSUME TypeInv, NEW q \in Servers, Claim(q)
    PROVE  /\ \A o \in Servers \ {q} : Stays(o)
           /\ sent' = sent /\ run'[q].task \in Tasks /\ run'[q].due \in Nat
<1>1. \A o \in Servers \ {q} : Stays(o)
    BY OthersStay DEF ServerActs
<1>2. run'[q] = [id |-> claims + 1, task |-> snap[q].id, due |-> tasks[snap[q].id].next,
                 started |-> now, chat |-> tasks[snap[q].id].chat, status |-> "dispatching"]
    BY DEF Claim, TypeInv
<1>3. snap[q].id \in Tasks /\ tasks[snap[q].id] \in Snapshots
    BY ClaimKeepsType
<1>4. sent' = sent
    BY DEF Claim
<1> QED BY <1>1, <1>2, <1>3, <1>4 DEF Snapshots

LEMMA OnceStep ==
    ASSUME TypeInv, FreshInv, OnceInv, [Next]_vars
    PROVE  OnceInv'
<1>0. /\ \A i \in 1 .. Len(sent) : sent[i] \in Sent
      /\ DOMAIN sent = 1 .. Len(sent) /\ Len(sent) \in Nat
      /\ DOMAIN sent' = 1 .. Len(sent')
    BY NextKeepsType DEF TypeInv
<1>1. \A t \in Tasks, due \in Nat : Past(t, due) => Past(t, due)'
    BY PastStable
<1>2. ASSUME NEW q \in Servers, pc[q] \in Pending PROVE run[q].task \in Tasks /\ run[q].due \in Nat
    BY <1>2 DEF TypeInv, Pending, Delivering, Runs
<1>3. ASSUME NEW q \in Servers, pc'[q] \in Pending
      PROVE  \/ Claim(q)
             \/ pc[q] \in Pending /\ run'[q].task = run[q].task /\ run'[q].due = run[q].due
    BY <1>3, ServerSteps DEF ServerStep, SameWork, Pending, Delivering
<1>4. ASSUME NEW q \in Servers, Claim(q)
      PROVE  /\ Past(run[q].task, run[q].due)'
             /\ \A due \in Nat : Past(run'[q].task, due) => due # run'[q].due
    BY <1>4, TaskSteps, ClaimIsNew
<1>5. ASSUME NEW q \in Servers, pc'[q] \in Pending PROVE Past(run[q].task, run[q].due)'
    <2>1. CASE pc[q] \in Pending /\ run'[q].task = run[q].task /\ run'[q].due = run[q].due
        <3>1. Past(run[q].task, run[q].due) /\ run[q].task \in Tasks /\ run[q].due \in Nat
            BY <1>2, <2>1 DEF OnceInv
        <3>2. \A t \in Tasks, due \in Nat : t = run[q].task /\ due = run[q].due => Past(t, due)'
            BY <1>1, <3>1
        <3> QED BY <2>1, <3>1, <3>2 DEF Past
    <2> QED BY <1>3, <1>4, <1>5, <2>1
<1>6. ASSUME NEW q \in Servers, NEW o \in Servers, pc'[q] \in Pending, pc'[o] \in Pending, q # o
      PROVE  ~(run'[q].task = run'[o].task /\ run'[q].due = run'[o].due)
    <2>1. ASSUME NEW a \in Servers, NEW b \in Servers, a # b, Claim(a), pc'[b] \in Pending
          PROVE  ~(run'[a].task = run'[b].task /\ run'[a].due = run'[b].due)
        <3>1. pc[b] \in Pending /\ run'[b] = run[b]
            BY <2>1, ClaimsAreAlone DEF Stays
        <3>2. Past(run[b].task, run[b].due) /\ run[b].due \in Nat
            BY <1>2, <3>1 DEF OnceInv
        <3> QED BY <1>4, <2>1, <3>1, <3>2
    <2>2. CASE ~Claim(q) /\ ~Claim(o)
        BY <1>3, <1>6, <2>2 DEF OnceInv
    <2> QED BY <1>6, <2>1, <2>2
<1>7. CASE sent' = sent
    <2>1. ASSUME NEW i \in DOMAIN sent' PROVE Past(sent[i].task, sent[i].due)'
        <3>1. Past(sent[i].task, sent[i].due) /\ sent[i].task \in Tasks /\ sent[i].due \in Nat
            BY <1>0, <1>7, <2>1 DEF OnceInv, Sent
        <3>2. \A t \in Tasks, due \in Nat : t = sent[i].task /\ due = sent[i].due => Past(t, due)'
            BY <1>1, <3>1
        <3> QED BY <1>7, <3>1, <3>2 DEF Past
    <2>2. ASSUME NEW q \in Servers, pc'[q] \in Pending, NEW i \in DOMAIN sent'
          PROVE  ~(sent'[i].task = run'[q].task /\ sent'[i].due = run'[q].due)
        <3>1. Past(sent[i].task, sent[i].due) /\ sent[i].due \in Nat
            BY <1>0, <1>7, <2>2 DEF OnceInv, Sent
        <3>2. CASE Claim(q)
            BY <1>4, <1>7, <3>1, <3>2
        <3> QED BY <1>3, <1>7, <2>2, <3>2 DEF OnceInv
    <2>3. OccurrenceSentOnce'
        BY <1>7 DEF OnceInv, OccurrenceSentOnce
    <2> QED BY <1>5, <1>6, <2>1, <2>2, <2>3 DEF OnceInv
<1>8. ASSUME NEW s \in Servers, Engine(s), Delivered(s) PROVE OnceInv'
    <2> DEFINE n == Len(sent) + 1
    <2>1. /\ DOMAIN sent' = 1 .. n /\ n \notin 1 .. Len(sent)
          /\ \A i \in 1 .. n : i = n \/ (i \in 1 .. Len(sent) /\ sent'[i] = sent[i])
          /\ sent'[n].task = run[s].task /\ sent'[n].due = run[s].due
          /\ run[s].task \in Tasks /\ run[s].due \in Nat
        BY <1>0, <1>8 DEF Delivered
    <2> HIDE DEF n
    <2>2. /\ pc[s] \in Pending /\ pc'[s] \notin Pending
          /\ Past(run[s].task, run[s].due)
          /\ \A i \in 1 .. Len(sent) : ~(sent[i].task = run[s].task /\ sent[i].due = run[s].due)
        BY <1>0, <1>8 DEF Delivered, Pending, OnceInv
    <2>3. ASSUME NEW i \in DOMAIN sent' PROVE Past(sent[i].task, sent[i].due)'
        <3>1. \A j \in 1 .. Len(sent) :
                sent[j].task \in Tasks /\ sent[j].due \in Nat /\ Past(sent[j].task, sent[j].due)
            BY <1>0 DEF OnceInv, Sent
        <3>2. /\ sent'[i].task \in Tasks /\ sent'[i].due \in Nat
              /\ Past(sent'[i].task, sent'[i].due)
            <4>1. CASE i = n
                BY <2>1, <2>2, <4>1
            <4>2. CASE i \in 1 .. Len(sent) /\ sent'[i] = sent[i]
                BY <3>1, <4>2
            <4> QED BY <2>1, <2>3, <4>1, <4>2
        <3>3. \A t \in Tasks, due \in Nat : t = sent'[i].task /\ due = sent'[i].due => Past(t, due)'
            BY <1>1, <3>2
        <3> QED BY <3>2, <3>3 DEF Past
    <2>4. ASSUME NEW q \in Servers, pc'[q] \in Pending, NEW i \in DOMAIN sent'
          PROVE  ~(sent'[i].task = run'[q].task /\ sent'[i].due = run'[q].due)
        <3>1. q # s /\ Stays(q)
            BY <1>8, <2>2, <2>4, OthersStay DEF ServerActs, Works
        <3>2. pc[q] \in Pending /\ run'[q] = run[q]
            BY <2>4, <3>1 DEF Stays
        <3>3. ~(run[s].task = run[q].task /\ run[s].due = run[q].due)
            BY <2>2, <3>1, <3>2 DEF OnceInv
        <3>4. \A j \in DOMAIN sent : ~(sent[j].task = run[q].task /\ sent[j].due = run[q].due)
            BY <3>2 DEF OnceInv
        <3> QED BY <1>0, <2>1, <2>4, <3>2, <3>3, <3>4
    <2>5. OccurrenceSentOnce'
        <3>1. \A i, j \in 1 .. Len(sent) :
                sent[i].task = sent[j].task /\ sent[i].due = sent[j].due => i = j
            BY <1>0 DEF OnceInv, OccurrenceSentOnce
        <3>2. \A i, j \in 1 .. n :
                sent'[i].task = sent'[j].task /\ sent'[i].due = sent'[j].due => i = j
            BY <2>1, <2>2, <3>1
        <3> QED BY <2>1, <3>2 DEF OccurrenceSentOnce
    <2> QED BY <1>5, <1>6, <2>3, <2>4, <2>5 DEF OnceInv
<1> QED BY <1>7, <1>8, SentSteps

\* One occurrence is sent at most once, by any number of servers, over edits,
\* failures and crashes: claim moves the schedule past it in the transaction that
\* journals the run, so what has been claimed or sent stays in the past.
THEOREM SentAtMostOnce == Spec => []OccurrenceSentOnce
<1>1. Init => OnceInv
    BY DEF Init, OnceInv, Pending, OccurrenceSentOnce
<1>2. Knows /\ OnceInv /\ [Next]_vars => OnceInv'
    BY OnceStep DEF Knows
<1>3. OnceInv => OccurrenceSentOnce
    BY DEF OnceInv
<1> QED BY <1>1, <1>2, <1>3, AlwaysKnows, PTL DEF Spec

-----------------------------------------------------------------------------
(* One chat for the task that keeps its chat.                              *)

\* What has been delivered, and what is being delivered.
Deliveries == { sent[i] : i \in DOMAIN sent } \cup
              { Carried(q) : q \in { o \in Servers : pc[o] = "sending" } }

\* As long as the task has the instructions of a delivery, it has its chat.
Settled(e) ==
    /\ e.task \notin fresh /\ (e.reuse => e.chat # NoChat)
    /\ Exists(e.task) =>
         /\ e.prompt <= tasks[e.task].revision
         /\ tasks[e.task].prompt = e.prompt =>
              tasks[e.task].reuse = e.reuse /\ (e.reuse => tasks[e.task].chat = e.chat)

Agree(e, f) ==
    e.task = f.task /\ e.prompt = f.prompt => e.reuse = f.reuse /\ (e.reuse => e.chat = f.chat)

\* The chat of a run is the one of its task, or has been made for it.
HasChat(q) ==
    /\ snap[q].chat # NoChat => run[q].chat = snap[q].chat
    /\ IF pc[q] = "creating" THEN snap[q].chat = NoChat ELSE run[q].chat # NoChat

ChatInv ==
    /\ \A q \in Servers : pc[q] \in Pending => HasChat(q)
    /\ \A e \in Deliveries : Settled(e)
    /\ \A e, f \in Deliveries : Agree(e, f)

LEMMA SettledStable ==
    ASSUME TypeInv, FreshInv, [Next]_vars, NEW e \in Sent, Settled(e)
    PROVE  Settled(e)'
<1> DEFINE t == e.task
<1>1. t \in Tasks /\ e.prompt \in Nat
    BY DEF Sent
<1>2. TaskStep(t) /\ fresh' \subseteq fresh
    BY <1>1, TaskSteps
<1>3. Exists(t) => tasks[t].revision \in Nat
    BY <1>1 DEF TypeInv, Exists, Snapshots
<1>4. t \notin fresh' /\ (e.reuse => e.chat # NoChat)
    BY <1>2 DEF Settled
<1>5. CASE tasks'[t] = tasks[t]
    BY <1>4, <1>5 DEF Settled, Exists
<1>6. CASE tasks'[t] = NoTask
    BY <1>4, <1>6 DEF Settled, Exists
<1>7. CASE Exists(t) /\ tasks'[t] # NoTask /\ LaterVersion(tasks[t], tasks'[t])
    <2>1. /\ e.prompt <= tasks[t].revision /\ tasks'[t].revision = tasks[t].revision + 1
          /\ tasks[t].prompt = e.prompt =>
               tasks[t].reuse = e.reuse /\ (e.reuse => tasks[t].chat = e.chat /\ tasks[t].chat # NoChat)
        BY <1>7 DEF Settled, LaterVersion
    <2>2. e.prompt <= tasks'[t].revision /\ e.prompt # tasks'[t].revision
        BY <1>1, <1>3, <1>7, <2>1
    <2>3. tasks'[t].prompt = e.prompt =>
            tasks'[t].reuse = e.reuse /\ (e.reuse => tasks'[t].chat = e.chat)
        BY <1>7, <2>1, <2>2 DEF LaterVersion
    <2> QED BY <1>4, <1>7, <2>2, <2>3 DEF Settled, Exists
<1> QED BY <1>2, <1>4, <1>5, <1>6, <1>7 DEF TaskStep, Settled

LEMMA CarriedType ==
    ASSUME TypeInv, NEW q \in Servers, pc[q] \in Delivering
    PROVE  /\ Carried(q) \in Sent
           /\ Carried(q).task = snap[q].id /\ Carried(q).due = run[q].due
           /\ Carried(q).chat = run[q].chat /\ Carried(q).prompt = snap[q].prompt
           /\ Carried(q).reuse = snap[q].reuse
<1>1. snap[q] \in Snapshots /\ run[q] \in Runs
    BY ScheduledAssumption DEF TypeInv, ScheduledAssumption
<1> QED BY <1>1 DEF Carried, Sent, Snapshots, Runs

\* A delivery is added by the server that prepares it.
LEMMA DeliveriesStep ==
    ASSUME TypeInv, [Next]_vars, NEW e \in Deliveries'
    PROVE  e \in Deliveries \/ \E q \in Servers : PrepareDelivery(q) /\ e = Carried(q)
<1>1. ASSUME NEW q \in Servers, pc'[q] = "sending", e = Carried(q)'
      PROVE  e \in Deliveries \/ (PrepareDelivery(q) /\ e = Carried(q))
    <2>1. ~Claim(q)
        BY <1>1 DEF Claim, Goto, TypeInv
    <2>2. pc[q] \in Delivering /\ SameWork(q)
        BY <1>1, <2>1, ServerSteps DEF ServerStep, Delivering
    <2>3. CASE pc[q] = "sending"
        BY <1>1, <2>2, <2>3 DEF SameWork, Carried, Deliveries
    <2>4. CASE PrepareDelivery(q)
        BY <1>1, <2>4 DEF PrepareDelivery, Carried
    <2> QED BY <1>1, <2>2, <2>3, <2>4 DEF SameWork
<1>2. ASSUME NEW i \in DOMAIN sent', e = sent'[i]
      PROVE  e \in Deliveries
    <2>1. CASE sent' = sent
        BY <1>2, <2>1 DEF Deliveries
    <2>2. ASSUME NEW s \in Servers, Delivered(s) PROVE e \in Deliveries
        <3>1. DOMAIN sent = 1 .. Len(sent) /\ DOMAIN sent' = 1 .. Len(sent') /\ Len(sent) \in Nat
            BY NextKeepsType DEF TypeInv
        <3>2. i \in 1 .. Len(sent) \/ i = Len(sent) + 1
            BY <1>2, <2>2, <3>1 DEF Delivered
        <3>3. e = Carried(s) \/ (i \in DOMAIN sent /\ e = sent[i])
            BY <1>2, <2>2, <3>1, <3>2 DEF Delivered
        <3> QED BY <2>2, <3>3 DEF Deliveries, Delivered
    <2> QED BY <2>1, <2>2, SentSteps
<1> QED BY <1>1, <1>2 DEF Deliveries

\* The server that prepares a delivery agrees with all there have been.
LEMMA PreparedAgrees ==
    ASSUME TypeInv, FreshInv, SeesInv, ChatInv, [Next]_vars, NEW q \in Servers, PrepareDelivery(q)
    PROVE  /\ Settled(Carried(q))'
           /\ \A f \in Deliveries : Agree(Carried(q), f) /\ Agree(f, Carried(q))
<1> DEFINE t == snap[q].id
           c == Carried(q)
<1>1. /\ pc[q] = "preparing" /\ MayDeliver(q) /\ fresh' = fresh
      /\ tasks' = [tasks EXCEPT ![t] = Bound(@, run[q].chat)]
    BY DEF PrepareDelivery, user
<1>2. /\ snap[q] \in Snapshots /\ run[q].chat \in Nat /\ Sees(snap[q], 1) /\ HasChat(q)
      /\ c \in Sent /\ c.task = t /\ c.chat = run[q].chat /\ c.prompt = snap[q].prompt
      /\ c.reuse = snap[q].reuse
    <2>1. pc[q] \in Delivering /\ pc[q] \in Pending
        BY <1>1 DEF Delivering, Pending
    <2>2. snap[q] \in Snapshots /\ run[q] \in Runs
        BY <2>1, ScheduledAssumption DEF TypeInv, ScheduledAssumption
    <2>3. Sees(snap[q], 1) /\ HasChat(q)
        BY <2>1 DEF SeesInv, ChatInv
    <2>4. run[q].chat \in Nat
        BY <2>2 DEF Runs
    <2> QED BY <2>1, <2>2, <2>3, <2>4, CarriedType
<1>3. /\ t \in Tasks /\ Exists(t) /\ tasks[t].prompt = c.prompt /\ tasks[t].reuse = c.reuse
      /\ tasks[t].chat = snap[q].chat /\ t \notin fresh /\ c.prompt <= tasks[t].prompt
      /\ c.prompt <= tasks[t].revision
    <2>1. tasks[t].revision = snap[q].revision + 1 /\ Exists(t)
        BY <1>1 DEF MayDeliver
    <2>2. snap[q].revision \in Nat /\ snap[q].prompt \in Nat /\ t \in Tasks
        BY <1>2 DEF Snapshots
    <2>3. /\ tasks[t].prompt = c.prompt /\ tasks[t].reuse = c.reuse
          /\ tasks[t].chat = snap[q].chat /\ t \notin fresh /\ c.prompt <= snap[q].revision
        BY <1>2, <2>1 DEF Sees
    <2> QED BY <1>2, <2>1, <2>2, <2>3
<1>4. tasks[t] \in Snapshots /\ tasks'[t] = Bound(tasks[t], run[q].chat)
    BY <1>1, <1>3 DEF TypeInv, Exists
<1>5. run[q].chat # NoChat /\ (snap[q].chat # NoChat => run[q].chat = snap[q].chat)
    BY <1>1, <1>2 DEF HasChat
<1> HIDE DEF t, c
<1>6. /\ tasks'[t] \in Snapshots /\ tasks'[t].prompt = tasks[t].prompt
      /\ tasks'[t].reuse = tasks[t].reuse
      /\ c.reuse => tasks'[t].chat = c.chat
      /\ c.prompt <= tasks'[t].revision
    <2>1. /\ tasks'[t] \in Snapshots /\ tasks'[t].prompt = tasks[t].prompt
          /\ tasks'[t].reuse = tasks[t].reuse
          /\ \/ tasks'[t] = tasks[t] /\ (tasks[t].reuse => tasks[t].chat # NoChat)
             \/ /\ tasks'[t].revision = tasks[t].revision + 1 /\ tasks'[t].chat = run[q].chat
        <3>1. \A k \in Nat : LET new == Bound(tasks[t], k)
                IN  /\ new \in Snapshots /\ new.prompt = tasks[t].prompt
                    /\ new.reuse = tasks[t].reuse
                    /\ \/ new = tasks[t] /\ (tasks[t].reuse => tasks[t].chat # NoChat)
                       \/ new.revision = tasks[t].revision + 1 /\ new.chat = k
            BY <1>4, BoundType
        <3> QED BY <1>2, <1>4, <3>1
    <2>2. c.prompt \in Nat /\ tasks[t].revision \in Nat
        BY <1>2, <1>4 DEF Sent, Snapshots
    <2> QED BY <1>2, <1>3, <1>5, <2>1, <2>2
<1>7. Settled(c)'
    <2>1. c' = c
        BY DEF c, Carried, PrepareDelivery
    <2>2. \A e \in Sent : e = c => Settled(e)'
        BY <1>1, <1>2, <1>3, <1>5, <1>6 DEF Settled
    <2> QED BY <1>2, <2>1, <2>2 DEF Settled
<1>8. ASSUME NEW f \in Deliveries PROVE Agree(c, f) /\ Agree(f, c)
    <2>1. Settled(f)
        BY DEF ChatInv
    <2> QED BY <1>2, <1>3, <1>5, <2>1 DEF Settled, Agree
<1> QED BY <1>7, <1>8 DEF c

LEMMA ChatStep ==
    ASSUME TypeInv, FreshInv, SeesInv, ChatInv, [Next]_vars
    PROVE  ChatInv'
<1>1. ASSUME NEW q \in Servers, pc'[q] \in Pending PROVE HasChat(q)'
    <2>1. CASE Claim(q)
        <3> DEFINE t == snap[q].id
        <3>1. /\ snap'[q] = snap[q] /\ run'[q].chat = tasks[t].chat
              /\ pc'[q] = IF snap[q].chat = NoChat THEN "creating" ELSE "recording"
              /\ pc[q] = "asking" /\ Exists(t) /\ tasks[t].revision = snap[q].revision
            BY <2>1 DEF Claim, Claimable, Goto, TypeInv
        <3>2. Sees(snap[q], 0) /\ snap[q].revision \in Nat
            BY <3>1, ScheduledAssumption DEF SeesInv, TypeInv, Snapshots, ScheduledAssumption
        <3>3. tasks[t].chat = snap[q].chat
            BY <3>1, <3>2 DEF Sees
        <3> QED BY <3>1, <3>3 DEF HasChat
    <2>2. CASE pc[q] \in Delivering /\ SameWork(q)
        <3>1. pc[q] \in Pending /\ HasChat(q)
            BY <1>1, <2>2 DEF SameWork, ChatInv
        <3> QED BY <1>1, <2>2, <3>1 DEF SameWork, HasChat, Pending
    <2> QED BY <1>1, <2>1, <2>2, ServerSteps DEF ServerStep, Pending, Delivering
<1>2. \A e \in Deliveries : e \in Sent
    <2>1. \A i \in DOMAIN sent : sent[i] \in Sent
        BY DEF TypeInv
    <2>2. \A q \in Servers : pc[q] = "sending" => Carried(q) \in Sent
        BY CarriedType DEF Delivering
    <2> QED BY <2>1, <2>2 DEF Deliveries
<1>3. ASSUME NEW e \in Deliveries' PROVE Settled(e)'
    <2>1. CASE e \in Deliveries
        BY <1>2, <2>1, SettledStable DEF ChatInv
    <2>2. ASSUME NEW q \in Servers, PrepareDelivery(q), e = Carried(q) PROVE Settled(e)'
        <3>1. Carried(q)' = Carried(q)
            BY <2>2 DEF Carried, PrepareDelivery
        <3> QED BY <2>2, <3>1, PreparedAgrees DEF Settled
    <2> QED BY <2>1, <2>2, DeliveriesStep
<1>4. ASSUME NEW e \in Deliveries', NEW f \in Deliveries' PROVE Agree(e, f)
    <2>1. CASE e \in Deliveries /\ f \in Deliveries
        BY <2>1 DEF ChatInv
    <2>2. ASSUME NEW q \in Servers, PrepareDelivery(q) PROVE e = Carried(q) /\ f \in Deliveries => Agree(e, f)
        BY <2>2, PreparedAgrees
    <2>3. ASSUME NEW q \in Servers, PrepareDelivery(q) PROVE f = Carried(q) /\ e \in Deliveries => Agree(e, f)
        BY <2>3, PreparedAgrees
    <2>4. ASSUME NEW q \in Servers, PrepareDelivery(q), NEW o \in Servers, PrepareDelivery(o)
          PROVE  q = o
        <3>1. pc[q] = "preparing" /\ pc'[q] = "sending"
            BY <2>4 DEF PrepareDelivery, Goto, TypeInv
        <3>2. q # o => pc'[q] = pc[q]
            BY <2>4, OthersStay DEF ServerActs, Works, Stays
        <3> QED BY <3>1, <3>2
    <2>5. e = f => Agree(e, f)
        BY DEF Agree
    <2> QED BY <2>1, <2>2, <2>3, <2>4, <2>5, DeliveriesStep
<1>5. \A e, f \in Deliveries' : Agree(e, f)'
    BY <1>4 DEF Agree
<1> QED BY <1>1, <1>3, <1>5 DEF ChatInv

\* What one saved form of a task that keeps its chat sends goes to one chat, by
\* any number of servers and over crashes: prepareDelivery binds the first chat in
\* the transaction that lets the message go, and refuses a run that was claimed
\* before another chat was bound.
THEOREM OneChat == Spec => []OneChatPerTask
<1>1. Init => ChatInv
    BY DEF Init, ChatInv, Deliveries, Pending
<1>2. Knows /\ ChatInv /\ [Next]_vars => ChatInv'
    BY ChatStep DEF Knows
<1>3. ChatInv => OneChatPerTask
    BY DEF ChatInv, Deliveries, Agree, OneChatPerTask
<1> QED BY <1>1, <1>2, <1>3, AlwaysKnows, PTL DEF Spec

-----------------------------------------------------------------------------
(* A run is left undecided only by the end of its server.                  *)

Decided(r) ==
    /\ r.status = "dispatching" => AtWorkOn(r, Delivering)
    /\ r.status = "sent" =>
         AtWorkOn(r, {"announcing"}) \/ \E e \in inbox : e.chat = r.chat /\ e.at >= r.started

\* Servers work on runs of their own; the journal has runs of tasks that are
\* there, and a run that is about to be shown as its server has it.
DecidedInv ==
    /\ \A q, o \in Servers : pc[q] \in Delivering /\ pc[o] \in Delivering /\ q # o =>
         run[q].id # run[o].id
    /\ \A r \in journal : Exists(r.task) /\ (r.id \notin abandoned => Decided(r))
    /\ \A q \in Servers : pc[q] \in Delivering =>
         \A r \in journal : r.id = run[q].id =>
           /\ r.task = run[q].task
           /\ pc[q] = "announcing" =>
                r.status = "sent" /\ r.chat = run[q].chat /\ r.started = run[q].started

\* A chat once shown stays shown, as late as it was.
InboxGrows == \A e \in inbox : \E f \in inbox' : f.chat = e.chat /\ f.at >= e.at

\* What a step of a server must leave for the rest to follow: the runs of others
\* as they were, and its own decided.
OwnRun(s, r) == pc[s] \in Delivering /\ r.id = run[s].id
KeepsRuns(s) ==
    /\ pc'[s] \in Delivering =>
         /\ pc[s] \in Delivering /\ run'[s].id = run[s].id /\ run'[s].task = run[s].task
    /\ \A r \in journal' : ~OwnRun(s, r) => r \in journal
    /\ \A r \in journal' : OwnRun(s, r) =>
         /\ \E old \in journal : old.id = run[s].id
         /\ r.task = run[s].task /\ (r.id \notin abandoned' => Decided(r)')
         /\ pc'[s] = "announcing" =>
              r.status = "sent" /\ r.chat = run'[s].chat /\ r.started = run'[s].started
    /\ \A t \in Tasks : Exists(t) => Exists(t)'
    /\ InboxGrows /\ abandoned \subseteq abandoned'

LEMMA KeptRunsAreDecided ==
    ASSUME TypeInv, DecidedInv, [Next]_vars, NEW s \in Servers, ServerActs(s), KeepsRuns(s)
    PROVE  DecidedInv'
<1>0. \A q \in Servers \ {s} : pc'[q] = pc[q] /\ run'[q] = run[q]
    BY OthersStay DEF Stays
<1>1. \A q, o \in Servers : pc'[q] \in Delivering /\ pc'[o] \in Delivering /\ q # o =>
        run'[q].id # run'[o].id
    BY <1>0 DEF DecidedInv, KeepsRuns
<1>2. ASSUME NEW r \in journal', ~OwnRun(s, r)
      PROVE  r \in journal /\ Exists(r.task)' /\ (r.id \notin abandoned' => Decided(r)')
    <2>1. r \in journal /\ r \in Runs
        BY <1>2 DEF KeepsRuns, TypeInv
    <2>2. Exists(r.task) /\ r.task \in Tasks
        BY <2>1 DEF DecidedInv, Runs
    <2>3. ASSUME r.id \notin abandoned' PROVE Decided(r)'
        <3>1. Decided(r)
            BY <2>1, <2>3 DEF DecidedInv, KeepsRuns
        <3>2. ASSUME r.status = "dispatching" PROVE AtWorkOn(r, Delivering)'
            <4>1. PICK q \in Servers : pc[q] \in Delivering /\ run[q].id = r.id
                BY <3>1, <3>2 DEF Decided, AtWorkOn
            <4>2. q # s
                BY <1>2, <4>1 DEF OwnRun
            <4> QED BY <1>0, <4>1, <4>2 DEF AtWorkOn, Delivering
        <3>3. ASSUME AtWorkOn(r, {"announcing"}) PROVE AtWorkOn(r, {"announcing"})'
            <4>1. PICK q \in Servers : pc[q] = "announcing" /\ run[q].id = r.id
                BY <3>3 DEF AtWorkOn
            <4>2. q # s
                BY <1>2, <4>1 DEF OwnRun, Delivering
            <4> QED BY <1>0, <4>1, <4>2 DEF AtWorkOn
        <3>4. ASSUME NEW e \in inbox, e.chat = r.chat, e.at >= r.started
              PROVE  \E f \in inbox' : f.chat = r.chat /\ f.at >= r.started
            <4>1. PICK f \in inbox' : f.chat = e.chat /\ f.at >= e.at
                BY DEF KeepsRuns, InboxGrows
            <4>2. f.at \in Nat /\ e.at \in Nat /\ r.started \in Nat
                BY <2>1, NextKeepsType DEF TypeInv, Runs
            <4> QED BY <3>4, <4>1, <4>2
        <3> QED BY <3>1, <3>2, <3>3, <3>4 DEF Decided
    <2> QED BY <2>1, <2>2, <2>3 DEF KeepsRuns, Exists
<1>3. ASSUME NEW r \in journal', OwnRun(s, r)
      PROVE  Exists(r.task)' /\ (r.id \notin abandoned' => Decided(r)')
    <2>1. PICK old \in journal : old.id = run[s].id
        BY <1>3 DEF KeepsRuns
    <2>2. old.task = run[s].task /\ Exists(old.task) /\ old.task \in Tasks
        BY <1>3, <2>1 DEF DecidedInv, OwnRun, TypeInv, Runs
    <2> QED BY <1>3, <2>2 DEF KeepsRuns, Exists
<1>4. ASSUME NEW q \in Servers, pc'[q] \in Delivering, NEW r \in journal', r.id = run'[q].id
      PROVE  /\ r.task = run'[q].task
             /\ pc'[q] = "announcing" =>
                  r.status = "sent" /\ r.chat = run'[q].chat /\ r.started = run'[q].started
    <2>1. CASE q = s
        BY <1>4, <2>1 DEF KeepsRuns, OwnRun
    <2>2. CASE q # s
        <3>1. pc[q] \in Delivering /\ run'[q] = run[q] /\ pc'[q] = pc[q]
            BY <1>0, <1>4, <2>2
        <3>2. ~OwnRun(s, r)
            BY <1>4, <2>2, <3>1 DEF DecidedInv, OwnRun
        <3> QED BY <1>2, <1>4, <3>1, <3>2 DEF DecidedInv
    <2> QED BY <2>1, <2>2
<1> QED BY <1>1, <1>2, <1>3, <1>4 DEF DecidedInv

LEMMA LookingKeepsRuns ==
    ASSUME TypeInv, DecidedInv, [Next]_vars, NEW s \in Servers,
           \/ TickBegins(s) \/ TickEnds(s) \/ Unavailable(s) \/ ClaimLost(s)
           \/ ClaimThrows(s) \/ SearchThrows(s) \/ (\E task \in todo[s] : Consider(s, task))
    PROVE  KeepsRuns(s)
<1>1. /\ pc'[s] \notin Delivering /\ pc[s] \notin Delivering
      /\ UNCHANGED <<tasks, journal, inbox, abandoned>>
    BY DEF TickBegins, TickEnds, Unavailable, ClaimLost, ClaimThrows, SearchThrows, Consider, TypeInv, Goto, Delivering,
           database, rest
<1> QED BY <1>1 DEF KeepsRuns, InboxGrows, OwnRun, TypeInv, Exists

LEMMA RecordedRuns ==
    ASSUME NEW own, NEW r \in Recorded(own)
    PROVE  \/ r \in journal /\ r.id # own.id
           \/ r = own /\ \E old \in journal : old.id = own.id
BY DEF Recorded

LEMMA WorkKeepsRuns ==
    ASSUME TypeInv, DecidedInv, [Next]_vars, NEW s \in Servers,
           \/ CreateChat(s) \/ CreateFails(s) \/ RecordChat(s) \/ PrepareDelivery(s)
           \/ DeliveryRefused(s) \/ Engine(s) \/ SendAnswered(s) \/ SendFails(s) \/ RecordSent(s)
    PROVE  KeepsRuns(s)
<1>1. /\ pc[s] \in Delivering \ {"announcing"} /\ pc'[s] \in Delivering
      /\ pc'[s] = "announcing" => RecordSent(s)
      /\ inbox' = inbox /\ abandoned' = abandoned
    BY DEF CreateChat, CreateFails, RecordChat, PrepareDelivery, DeliveryRefused, Engine,
           SendAnswered, SendFails, SendReturns, RecordSent, TypeInv, Goto, Delivering,
           database, rest
<1>2. /\ run[s] \in Runs /\ run[s].status = "dispatching" /\ ServerActs(s)
      /\ run'[s].id = run[s].id /\ run'[s].task = run[s].task
    BY <1>1, ServerSteps
    DEF ServerStep, SameWork, TypeInv, ServerActs, Works, Claim, Delivering
<1>3. \A t \in Tasks : Exists(t) => Exists(t)'
    <2>1. CASE PrepareDelivery(s)
        <3>1. tasks' = [tasks EXCEPT ![snap[s].id] = Bound(@, run[s].chat)] /\ Exists(snap[s].id)
            BY <2>1 DEF PrepareDelivery, MayDeliver
        <3>2. snap[s] \in Snapshots /\ snap[s].id \in Tasks /\ run[s].chat \in Nat
            BY <1>1, <1>2, ScheduledAssumption DEF TypeInv, Snapshots, Runs, ScheduledAssumption
        <3>3. \A k \in Nat : Bound(tasks[snap[s].id], k) \in Snapshots
            <4>1. \A task \in Snapshots, k \in Nat : Bound(task, k) \in Snapshots
                BY BoundType
            <4> QED BY <3>1, <3>2, <4>1 DEF TypeInv, Exists
        <3> QED BY <3>1, <3>2, <3>3, ScheduledAssumption DEF TypeInv, Exists, ScheduledAssumption
    <2>2. CASE tasks' = tasks
        BY <2>2 DEF Exists
    <2> QED BY <2>1, <2>2
        DEF CreateChat, CreateFails, RecordChat, DeliveryRefused, Engine,
            SendAnswered, SendFails, SendReturns, RecordSent, database
<1>4. ASSUME NEW r, r.id = run[s].id PROVE AtWorkOn(r, Delivering)'
    BY <1>1, <1>2, <1>4 DEF AtWorkOn, Delivering
<1>5. CASE journal' = journal /\ pc'[s] # "announcing"
    <2>1. ASSUME NEW r \in journal, OwnRun(s, r)
          PROVE  r.task = run[s].task /\ (r.id \notin abandoned' => Decided(r)')
        <3>1. r.task = run[s].task /\ (r.id \notin abandoned => Decided(r))
            BY <2>1 DEF DecidedInv, OwnRun
        <3>2. AtWorkOn(r, {"announcing"}) => FALSE
            BY <1>1, <2>1 DEF AtWorkOn, DecidedInv, OwnRun, Delivering
        <3>3. AtWorkOn(r, Delivering)'
            BY <1>4, <2>1 DEF OwnRun
        <3> QED BY <1>1, <3>1, <3>2, <3>3 DEF Decided
    <2> QED BY <1>1, <1>2, <1>3, <1>5, <2>1 DEF KeepsRuns, InboxGrows, OwnRun, TypeInv
<1>6. CASE (RecordChat(s) \/ PrepareDelivery(s)) /\ journal' = Recorded(run[s])
    <2>1. pc'[s] # "announcing"
        BY <1>6 DEF RecordChat, PrepareDelivery, Goto, TypeInv
    <2>2. ASSUME NEW r \in journal', OwnRun(s, r)
          PROVE  /\ \E old \in journal : old.id = run[s].id
                 /\ r.task = run[s].task /\ Decided(r)'
        <3>1. r = run[s] /\ \E old \in journal : old.id = run[s].id
            BY <1>6, <2>2, RecordedRuns DEF OwnRun
        <3> QED BY <1>2, <1>4, <3>1 DEF Decided
    <2>3. \A r \in journal' : ~OwnRun(s, r) => r \in journal
        BY <1>1, <1>6, RecordedRuns DEF OwnRun
    <2> QED BY <1>1, <1>2, <1>3, <2>1, <2>2, <2>3 DEF KeepsRuns, InboxGrows, TypeInv
<1>7. CASE RecordSent(s)
    <2> DEFINE own == [run[s] EXCEPT !.status = "sent"]
    <2>1. /\ own.id = run[s].id /\ own.task = run[s].task /\ own.status = "sent"
          /\ own.chat = run[s].chat /\ own.started = run[s].started
        BY <1>2 DEF Runs
    <2>2. journal' = Recorded(own) /\ pc'[s] = "announcing" /\ run'[s] = run[s]
        BY <1>7 DEF RecordSent, Goto, TypeInv
    <2> HIDE DEF own
    <2>3. ASSUME NEW r \in journal', OwnRun(s, r)
          PROVE  r = own /\ (\E old \in journal : old.id = run[s].id) /\ Decided(r)'
        <3>1. r = own /\ \E old \in journal : old.id = own.id
            BY <2>1, <2>2, <2>3, RecordedRuns DEF OwnRun
        <3>2. AtWorkOn(r, {"announcing"})'
            BY <2>1, <2>2, <3>1 DEF AtWorkOn
        <3> QED BY <2>1, <3>1, <3>2 DEF Decided
    <2>4. \A r \in journal' : ~OwnRun(s, r) => r \in journal
        BY <1>1, <2>1, <2>2, RecordedRuns DEF OwnRun
    <2> QED BY <1>1, <1>2, <1>3, <2>1, <2>2, <2>3, <2>4 DEF KeepsRuns, InboxGrows, TypeInv
<1> QED BY <1>1, <1>5, <1>6, <1>7
    DEF CreateChat, CreateFails, RecordChat, PrepareDelivery, DeliveryRefused, Engine,
        SendAnswered, SendFails, SendReturns, database

LEMMA LeavingKeepsRuns ==
    ASSUME TypeInv, DecidedInv, [Next]_vars, NEW s \in Servers, Announce(s) \/ Fail(s) \/ Crash(s)
    PROVE  KeepsRuns(s)
<1>1. pc'[s] \notin Delivering
    BY DEF Announce, Fail, Leave, Crash, Goto, TypeInv, Delivering
<1>2. CASE Announce(s)
    <2>1. /\ pc[s] = "announcing" /\ run[s] \in Runs /\ snap[s].id = run[s].task
          /\ UNCHANGED <<tasks, journal, abandoned>>
          /\ inbox' = IF Exists(run[s].task) THEN Shown(run[s]) ELSE inbox
        BY <1>2 DEF Announce, Leave, TypeInv, Delivering, rest
    <2>2. inbox \subseteq [chat : Nat, at : Nat] /\ run[s].started \in Nat /\ run[s].chat \in Nat
        BY <2>1 DEF TypeInv, Runs
    <2> DEFINE mine == [chat |-> run[s].chat, at |-> run[s].started]
               old == { e \in inbox : e.chat = run[s].chat }
    <2>5. \/ inbox' = inbox
          \/ inbox' = (inbox \ old) \cup {mine} /\ \A e \in old : e.at <= mine.at
        BY <2>1 DEF Shown
    <2>3. InboxGrows
        <3>1. \A e \in inbox : e.at \in Nat
            BY <2>2
        <3>2. ASSUME NEW e \in inbox PROVE \E f \in inbox' : f.chat = e.chat /\ f.at >= e.at
            <4>1. CASE e \in inbox'
                BY <3>1, <4>1
            <4>2. CASE e \notin inbox'
                <5>1. mine \in inbox' /\ mine.chat = e.chat /\ e.at <= mine.at
                    BY <2>5, <4>2
                <5> QED BY <2>2, <3>1, <5>1
            <4> QED BY <4>1, <4>2
        <3> QED BY <3>2 DEF InboxGrows
    <2>4. ASSUME NEW r \in journal, r.id = run[s].id
          PROVE  r.task = run[s].task /\ Decided(r)'
        <3>1. /\ r.task = run[s].task /\ r.status = "sent" /\ r.chat = run[s].chat
              /\ r.started = run[s].started /\ Exists(r.task)
            BY <2>1, <2>4 DEF DecidedInv, Delivering
        <3>2. inbox' = Shown(run[s])
            BY <2>1, <3>1
        <3>3. \E e \in inbox' : e.chat = r.chat /\ e.at >= r.started
            <4>1. CASE mine \in inbox'
                BY <2>2, <3>1, <4>1
            <4>2. CASE mine \notin inbox'
                <5>1. inbox' = inbox /\ ~(\A e \in old : e.at <= run[s].started)
                    BY <2>5, <3>2, <4>2 DEF Shown
                <5>2. PICK e \in inbox : e.chat = run[s].chat /\ ~(e.at <= run[s].started)
                    BY <5>1
                <5>3. e.at \in Nat
                    BY <2>2
                <5> QED BY <2>2, <3>1, <5>1, <5>2, <5>3
            <4> QED BY <4>1, <4>2
        <3> QED BY <3>1, <3>3 DEF Decided
    <2> QED BY <1>1, <2>1, <2>3, <2>4 DEF KeepsRuns, OwnRun, Delivering, Exists
<1>3. CASE Fail(s)
    <2> DEFINE own == [run[s] EXCEPT !.status = "failed"]
               stopped == [tasks[snap[s].id] EXCEPT !.status = "paused", !.revision = @ + 1]
    <2>1. /\ pc[s] \in Delivering /\ run[s] \in Runs
          /\ journal' = Recorded(own) /\ UNCHANGED <<inbox, abandoned>>
          /\ \/ tasks' = tasks
             \/ Exists(snap[s].id) /\ tasks' = [tasks EXCEPT ![snap[s].id] = stopped]
        BY <1>3 DEF Fail, Pauses, Leave, TypeInv, Delivering, rest
    <2>2. own.id = run[s].id /\ own.task = run[s].task /\ own.status = "failed"
        BY <2>1 DEF Runs
    <2>3. \A t \in Tasks : Exists(t) => Exists(t)'
        <3>1. snap[s] \in Snapshots /\ snap[s].id \in Tasks
            BY <2>1, ScheduledAssumption DEF TypeInv, Snapshots, ScheduledAssumption
        <3>2. Exists(snap[s].id) => stopped \in Snapshots
            <4>1. \A task \in Snapshots :
                    [task EXCEPT !.status = "paused", !.revision = @ + 1] \in Snapshots
                BY PausedType
            <4> QED BY <3>1, <4>1 DEF TypeInv, Exists
        <3> HIDE DEF stopped
        <3> QED BY <2>1, <3>1, <3>2, ScheduledAssumption DEF TypeInv, Exists, ScheduledAssumption
    <2> HIDE DEF own, stopped
    <2>4. \A r \in journal' : OwnRun(s, r) => r = own /\ \E old \in journal : old.id = run[s].id
        BY <2>1, <2>2, RecordedRuns DEF OwnRun
    <2>5. \A r \in journal' : ~OwnRun(s, r) => r \in journal
        BY <2>1, <2>2, RecordedRuns DEF OwnRun
    <2>6. \A r \in journal' : OwnRun(s, r) => Decided(r)'
        BY <2>2, <2>4 DEF Decided
    <2>7. InboxGrows /\ abandoned \subseteq abandoned'
        BY <2>1 DEF InboxGrows, TypeInv
    <2>8. \A r \in journal' : OwnRun(s, r) =>
            r.task = run[s].task /\ \E old \in journal : old.id = run[s].id
        BY <2>2, <2>4
    <2> HIDE DEF OwnRun, InboxGrows
    <2> QED BY <1>1, <2>3, <2>5, <2>6, <2>7, <2>8 DEF KeepsRuns, Delivering
<1>4. CASE Crash(s)
    <2>1. /\ abandoned' = abandoned \cup {run[s].id}
          /\ UNCHANGED <<tasks, journal, inbox>>
        BY <1>4 DEF Crash, database
    <2> QED BY <1>1, <2>1 DEF KeepsRuns, InboxGrows, OwnRun, DecidedInv, TypeInv, Delivering, Exists
<1> QED BY <1>2, <1>3, <1>4

LEMMA ClaimKeepsRuns ==
    ASSUME TypeInv, DecidedInv, [Next]_vars, NEW s \in Servers, Claim(s)
    PROVE  DecidedInv'
<1> DEFINE t == snap[s].id
           new == [id |-> claims + 1, task |-> t, due |-> tasks[t].next, started |-> now,
                   chat |-> tasks[t].chat, status |-> "dispatching"]
<1>1. /\ run'[s] = new /\ journal' \subseteq journal \cup {new}
      /\ pc'[s] \in {"creating", "recording"} /\ inbox' = inbox /\ abandoned' = abandoned
    BY DEF Claim, TypeInv, Goto, Trimmed
<1>2. /\ t \in Tasks /\ Exists(t) /\ tasks'[t] = Advanced(tasks[t]) /\ tasks[t] \in Snapshots
      /\ \A u \in Tasks \ {t} : tasks'[u] = tasks[u]
    BY ClaimKeepsType
<1>3. new.id = claims + 1 /\ new.task = t /\ new.status = "dispatching" /\ claims \in Nat
    BY DEF TypeInv
<1> HIDE DEF new, t
<1>4. Advanced(tasks[t]) \in Snapshots
    BY <1>2, AdvancedType DEF TypeInv
<1>5. \A u \in Tasks : Exists(u) => Exists(u)'
    BY <1>2, <1>4, ScheduledAssumption DEF Exists, ScheduledAssumption
<1>6. \A q \in Servers \ {s} : pc'[q] = pc[q] /\ run'[q] = run[q]
    BY ClaimsAreAlone DEF Stays
<1>7. /\ \A q \in Servers : pc[q] \in Delivering => run[q].id # new.id
      /\ \A r \in journal : r.id # new.id /\ r \in Runs
    BY <1>3 DEF TypeInv
<1>8. pc[s] \notin Delivering
    BY DEF Claim, Delivering
<1>9. ASSUME NEW r \in journal PROVE Exists(r.task)' /\ (r.id \notin abandoned' => Decided(r)')
    <2>1. Exists(r.task) /\ r.task \in Tasks /\ (r.id \notin abandoned => Decided(r))
        BY <1>7 DEF DecidedInv, Runs
    <2>2. AtWorkOn(r, Delivering) => AtWorkOn(r, Delivering)'
        BY <1>6, <1>8 DEF AtWorkOn, Delivering
    <2>3. AtWorkOn(r, {"announcing"}) => AtWorkOn(r, {"announcing"})'
        BY <1>6, <1>8 DEF AtWorkOn, Delivering
    <2> QED BY <1>1, <1>5, <2>1, <2>2, <2>3 DEF Decided, Exists
<1>10. ASSUME NEW r, r = new PROVE Exists(r.task)' /\ Decided(r)'
    <2>1. AtWorkOn(r, Delivering)'
        BY <1>1, <1>10 DEF AtWorkOn, Delivering
    <2> QED BY <1>2, <1>3, <1>5, <1>10, <2>1 DEF Decided, Exists
<1>11. \A q, o \in Servers : pc'[q] \in Delivering /\ pc'[o] \in Delivering /\ q # o =>
         run'[q].id # run'[o].id
    BY <1>1, <1>6, <1>7 DEF DecidedInv
<1>12. ASSUME NEW q \in Servers, pc'[q] \in Delivering, NEW r \in journal', r.id = run'[q].id
       PROVE  /\ r.task = run'[q].task
              /\ pc'[q] = "announcing" =>
                   r.status = "sent" /\ r.chat = run'[q].chat /\ r.started = run'[q].started
    BY <1>1, <1>6, <1>7, <1>12 DEF DecidedInv
<1> QED BY <1>1, <1>9, <1>10, <1>11, <1>12 DEF DecidedInv

\* Nobody else touches a run but the user, who removes a task with all of its runs.
LEMMA UserKeepsRuns ==
    ASSUME TypeInv, DecidedInv, [Next]_vars, \A s \in Servers : ~ServerActs(s)
    PROVE  DecidedInv'
<1>1. UNCHANGED <<pc, run, abandoned, inbox>>
    BY UserLeavesServers
<1>2. \A r \in journal' : r \in journal /\ Exists(r.task)'
    <2>0. \A r \in journal : Exists(r.task) /\ r.task \in Tasks
        BY DEF DecidedInv, TypeInv, Runs
    <2>1. CASE Remove
        BY <2>0, <2>1 DEF Remove, Exists, TypeInv
    <2>2. CASE ~Remove
        <3>1. journal' = journal
            BY <2>2 DEF Next, ServerActs, OpenForm, Create, SaveForm, Passes, vars, database
        <3>2. ASSUME NEW t \in Tasks, Exists(t) PROVE Exists(t)'
            <4>1. CASE tasks' = tasks
                BY <3>2, <4>1 DEF Exists
            <4>2. ASSUME NEW u \in Tasks, NEW S \in Schedules, NEW reuse \in BOOLEAN, Create(u, S, reuse)
                  PROVE  Exists(t)'
                <5>1. tasks' = [tasks EXCEPT ![u] =
                         [id |-> u, revision |-> 1, status |-> "active", schedule |-> S,
                          next |-> NextOccurrence(S, now), chat |-> NoChat, reuse |-> reuse,
                          prompt |-> 1]]
                    BY <4>2 DEF Create
                <5>3. NextOccurrence(S, now) \in Nat
                    BY NextOccurrenceType DEF TypeInv
                <5>4. [id |-> u, revision |-> 1, status |-> "active", schedule |-> S,
                       next |-> NextOccurrence(S, now), chat |-> NoChat, reuse |-> reuse,
                       prompt |-> 1] \in Snapshots
                    BY <5>3 DEF Snapshots, NoChat
                <5> QED BY <3>2, <5>1, <5>4, ScheduledAssumption DEF TypeInv, Exists, ScheduledAssumption
            <4>3. ASSUME NEW S \in Schedules, NEW reuse \in BOOLEAN, NEW keep \in BOOLEAN,
                         NEW patch \in {"none", "active", "paused"}, SaveForm(S, reuse, keep, patch)
                  PROVE  Exists(t)'
                <5> DEFINE kept == IF keep THEN form.chat ELSE NoChat
                           saved == Updated(tasks[form.id], S, reuse, kept, patch)
                <5>1. /\ form \in Snapshots /\ form.id \in Tasks /\ kept \in Nat /\ now \in Nat
                      /\ tasks' = tasks \/ (Exists(form.id) /\ tasks' = [tasks EXCEPT ![form.id] = saved])
                    BY <4>3 DEF SaveForm, Current, TypeInv, Snapshots, NoChat
                <5> HIDE DEF kept
                <5>2. \A task \in Snapshots : Updated(task, S, reuse, kept, patch) \in Snapshots
                    BY <5>1, UpdatedType
                <5>3. Exists(form.id) => saved \in Snapshots
                    BY <5>1, <5>2 DEF TypeInv, Exists
                <5> HIDE DEF saved
                <5> QED BY <3>2, <5>1, <5>3, ScheduledAssumption DEF TypeInv, Exists, ScheduledAssumption
            <4> QED BY <2>2, <4>1, <4>2, <4>3
                DEF Next, ServerActs, OpenForm, Passes, vars, database
        <3> QED BY <2>0, <3>1, <3>2
    <2> QED BY <2>1, <2>2
<1> QED BY <1>1, <1>2 DEF DecidedInv, Decided, AtWorkOn

LEMMA DecidedStep ==
    ASSUME TypeInv, DecidedInv, [Next]_vars
    PROVE  DecidedInv'
<1>1. ASSUME NEW s \in Servers, ServerActs(s), ~Claim(s) PROVE DecidedInv'
    <2>1. KeepsRuns(s)
        BY <1>1, LookingKeepsRuns, WorkKeepsRuns, LeavingKeepsRuns DEF ServerActs, Works
    <2> QED BY <1>1, <2>1, KeptRunsAreDecided
<1> QED BY <1>1, ClaimKeepsRuns, UserKeepsRuns

\* Every run of the journal ends as sent or as failed unless its server dies, and a
\* chat that was reached is shown: no path of a tick forgets its run, whatever the
\* user and the other servers do to the task meanwhile.
THEOREM EveryRunIsDecided == Spec => []RunsAreDecided
<1>1. Init => DecidedInv
    BY DEF Init, DecidedInv, Delivering
<1>2. Knows /\ DecidedInv /\ [Next]_vars => DecidedInv'
    BY DecidedStep DEF Knows
<1>3. DecidedInv => RunsAreDecided
    BY DEF DecidedInv, Decided, RunsAreDecided
<1> QED BY <1>1, <1>2, <1>3, AlwaysKnows, PTL DEF Spec

-----------------------------------------------------------------------------
(* A failed delivery pauses its task.                                      *)

\* The journal remembers a run of the task that was claimed with this number or
\* later.
Reached(t, n) == \E r \in journal : r.task = t /\ r.id >= n
Newer(q) == Reached(snap[q].id, run[q].id + 1)

\* The task of a delivery is as its server expects it, unless the user has saved
\* it or an occurrence was claimed since; the server of an earlier claim expects
\* a revision that has passed.
Holds(q) ==
    LET t == snap[q].id
    IN  /\ Reached(t, run[q].id)
        /\ snap[q].revision + 1 <= expected[q] /\ expected[q] <= tasks[t].revision
        /\ tasks[t].prompt > snap[q].prompt \/ Newer(q) \/ tasks[t].revision = expected[q]
        /\ \A o \in Servers :
             pc[o] \in Delivering /\ snap[o].id = t /\ run[o].id < run[q].id =>
               expected[o] <= snap[q].revision
HoldsInv == \A q \in Servers : pc[q] \in Delivering /\ Exists(snap[q].id) => Holds(q)

\* Whose step a change of a task is: the user's, that saves it under a revision
\* of its own, or a server's.
Changes(s, t) ==
    /\ Claim(s) \/ PrepareDelivery(s) \/ (Fail(s) /\ Pauses(s))
    /\ snap[s].id = t
TaskCause(t) ==
    \/ tasks'[t] = tasks[t] \/ tasks'[t] = NoTask \/ ~Exists(t)
    \/ tasks'[t].prompt = tasks'[t].revision
    \/ \E s \in Servers : Changes(s, t)

LEMMA TaskCauses ==
    ASSUME TypeInv, [Next]_vars, NEW t \in Tasks
    PROVE  TaskCause(t)
<1>0. t \in DOMAIN tasks /\ now \in Nat  BY DEF TypeInv
<1>1. CASE tasks' = tasks  BY <1>1 DEF TaskCause
<1>2. ASSUME NEW u \in Tasks, NEW S \in Schedules, NEW reuse \in BOOLEAN, Create(u, S, reuse)
      PROVE  TaskCause(t)
    <2> DEFINE new == [id |-> u, revision |-> 1, status |-> "active", schedule |-> S,
                       next |-> NextOccurrence(S, now), chat |-> NoChat, reuse |-> reuse, prompt |-> 1]
    <2>1. tasks' = [tasks EXCEPT ![u] = new]  BY <1>2 DEF Create
    <2>2. new.prompt = new.revision  OBVIOUS
    <2> HIDE DEF new
    <2> QED BY <1>0, <2>1, <2>2 DEF TaskCause
<1>3. ASSUME NEW S \in Schedules, NEW reuse \in BOOLEAN, NEW keep \in BOOLEAN,
             NEW patch \in {"none", "active", "paused"}, SaveForm(S, reuse, keep, patch)
      PROVE  TaskCause(t)
    <2> DEFINE u == form.id
               kept == IF keep THEN form.chat ELSE NoChat
               saved == Updated(tasks[u], S, reuse, kept, patch)
    <2>1. form \in Snapshots /\ u \in Tasks /\ kept \in Nat
        BY <1>3 DEF SaveForm, TypeInv, Snapshots, NoChat
    <2>2. tasks' = tasks \/ (Exists(u) /\ tasks' = [tasks EXCEPT ![u] = saved])
        BY <1>3 DEF SaveForm, Current
    <2>3. Exists(u) => tasks[u] \in Snapshots  BY <2>1 DEF TypeInv, Exists
    <2>4. Exists(u) => saved.prompt = saved.revision
        <3>1. \A task \in Snapshots : UpdatedWell(task, S, reuse, kept, patch)
            BY <1>0, <2>1, UpdatedIsWell
        <3>2. saved = Updated(tasks[u], S, reuse, kept, patch)  OBVIOUS
        <3> HIDE DEF saved, u, kept
        <3> QED BY <2>3, <3>1, <3>2 DEF UpdatedWell
    <2> HIDE DEF saved, u
    <2> QED BY <1>0, <2>2, <2>4 DEF TaskCause
<1>4. CASE Remove
    <2>1. tasks' = tasks \/ tasks' = [tasks EXCEPT ![form.id] = NoTask]  BY <1>4 DEF Remove
    <2> QED BY <1>0, <2>1 DEF TaskCause
<1>5. ASSUME NEW s \in Servers, Claim(s) \/ PrepareDelivery(s) \/ Fail(s), tasks' # tasks
      PROVE  TaskCause(t)
    <2>1. CASE snap[s].id = t
        <3>1. Changes(s, t)  BY <1>5, <2>1 DEF Changes, Fail
        <3> QED BY <3>1 DEF TaskCause
    <2>2. CASE snap[s].id # t
        <3>1. tasks'[t] = tasks[t]
            BY <1>0, <1>5, <2>2 DEF Claim, PrepareDelivery, Fail
        <3> QED BY <3>1 DEF TaskCause
    <2> QED BY <2>1, <2>2
<1> QED BY <1>1, <1>2, <1>3, <1>4, <1>5
      DEF Next, OpenForm, Passes, Works, TickBegins, Consider, ClaimLost, ClaimThrows, SearchThrows, Unavailable, TickEnds,
          CreateChat, CreateFails, RecordChat, DeliveryRefused, Engine, SendAnswered, SendFails,
          SendReturns, RecordSent, Announce, Crash, database, vars

\* A server changes what it expects when it claims and when it prepares.
LEMMA ExpectedStays ==
    ASSUME TypeInv, [Next]_vars, NEW q \in Servers, pc'[q] \in Delivering,
           ~Claim(q), ~PrepareDelivery(q)
    PROVE  expected'[q] = expected[q]
<1>0. q \in DOMAIN expected /\ q \in DOMAIN pc  BY DEF TypeInv
<1>1. CASE \A s \in Servers : ~ServerActs(s)  BY <1>1, UserLeavesServers
<1>2. ASSUME NEW s \in Servers, s # q, ServerActs(s) PROVE expected'[q] = expected[q]
    BY <1>0, <1>2 DEF ServerActs, Works, TickBegins, Consider, ClaimLost, ClaimThrows, SearchThrows, Unavailable, TickEnds,
          CreateChat, CreateFails, RecordChat, DeliveryRefused, Engine, SendAnswered, SendFails,
          SendReturns, RecordSent, Claim, PrepareDelivery, Fail, Leave, Announce, Crash, user, rest
<1>3. CASE ServerActs(q)
    <2>1. ~Announce(q) /\ ~Fail(q) /\ ~Crash(q)
        BY <1>0 DEF Announce, Fail, Leave, Crash, Goto, Delivering
    <2> QED BY <1>3, <2>1
        DEF ServerActs, Works, TickBegins, Consider, ClaimLost, ClaimThrows, SearchThrows, Unavailable, TickEnds,
            CreateChat, CreateFails, RecordChat, DeliveryRefused, Engine, SendAnswered, SendFails,
            SendReturns, RecordSent
<1> QED BY <1>1, <1>2, <1>3

\* A claim is written down and outlives the trimming: it is the newest run.
LEMMA ClaimIsKept ==
    ASSUME TypeInv, NEW s \in Servers, Claim(s)
    PROVE  /\ run'[s].id = claims + 1
           /\ \E r \in journal' : r.task = snap[s].id /\ r.id = claims + 1
           /\ \A r \in journal : r.task # snap[s].id => r \in journal'
<1> DEFINE t == snap[s].id
           new == [id |-> claims + 1, task |-> t, due |-> tasks[t].next, started |-> now,
                   chat |-> tasks[t].chat, status |-> "dispatching"]
           all == journal \cup {new}
<1>1. run'[s] = new /\ journal' = Trimmed(all, t)
    BY DEF Claim, TypeInv
<1>2. new.id = claims + 1 /\ new.task = t /\ claims \in Nat
    BY DEF TypeInv
<1> HIDE DEF new, t
<1>3. { q \in all : q.task = t /\ q.id > new.id } = {}
    <2>1. \A q \in journal : q.id \in 1 .. claims  BY DEF TypeInv
    <2> QED BY <1>2, <2>1
<1>4. 0 < KeepRuns  BY ScheduledAssumption DEF ScheduledAssumption
<1>5. new \in Trimmed(all, t)
    <2>1. Cardinality({ q \in all : q.task = t /\ q.id > new.id }) = 0
        BY <1>3, FS_EmptySet
    <2> QED BY <1>4, <2>1 DEF Trimmed
<1>6. \A r \in journal : r.task # t => r \in journal'  BY <1>1 DEF Trimmed
<1>7. new \in journal'  BY <1>1, <1>5
<1> QED BY <1>1, <1>2, <1>6, <1>7 DEF t

\* A run once reached stays reached for as long as its task is there: the journal
\* only forgets a run for a newer one.
LEMMA ReachedStays ==
    ASSUME TypeInv, DecidedInv, [Next]_vars, NEW t \in Tasks, NEW n \in Nat, Reached(t, n),
           tasks'[t] # NoTask
    PROVE  \E r \in journal' : r.task = t /\ r.id >= n
<1>0. PICK r \in journal : r.task = t /\ r.id >= n  BY DEF Reached
<1>1. r \in Runs /\ r.id \in 1 .. claims /\ claims \in Nat  BY DEF TypeInv
<1>2. CASE journal' = journal  BY <1>0, <1>2
<1>3. CASE Remove
    <2>1. CASE tasks' = [tasks EXCEPT ![form.id] = NoTask] /\ form.id = t
        BY <2>1 DEF TypeInv
    <2>2. CASE journal' = { q \in journal : q.task # form.id } /\ form.id # t
        BY <1>0, <2>2
    <2> QED BY <1>2, <1>3, <2>1, <2>2 DEF Remove
<1>4. ASSUME NEW s \in Servers, Claim(s) PROVE \E q \in journal' : q.task = t /\ q.id >= n
    <2>1. CASE snap[s].id = t
        <3>1. PICK q \in journal' : q.task = snap[s].id /\ q.id = claims + 1
            BY <1>4, ClaimIsKept
        <3> QED BY <1>0, <1>1, <2>1, <3>1
    <2>2. CASE snap[s].id # t
        <3>1. r \in journal'  BY <1>0, <1>4, <2>2, ClaimIsKept
        <3> QED BY <1>0, <3>1
    <2> QED BY <2>1, <2>2
<1>5. ASSUME NEW s \in Servers, pc[s] \in Delivering,
             NEW own, own.id = run[s].id, own.task = run[s].task, journal' = Recorded(own)
      PROVE  \E q \in journal' : q.task = t /\ q.id >= n
    <2>1. CASE r.id = own.id
        <3>1. r.task = own.task  BY <1>5, <2>1 DEF DecidedInv
        <3>2. own \in journal'  BY <1>5, <2>1 DEF Recorded
        <3> QED BY <1>0, <2>1, <3>1, <3>2
    <2>2. CASE r.id # own.id
        <3>1. r \in journal'  BY <1>5, <2>2 DEF Recorded
        <3> QED BY <1>0, <3>1
    <2> QED BY <2>1, <2>2
<1>6. ASSUME NEW s \in Servers,
             RecordChat(s) \/ PrepareDelivery(s) \/ RecordSent(s) \/ Fail(s)
      PROVE  \E q \in journal' : q.task = t /\ q.id >= n
    <2>1. pc[s] \in Delivering /\ run[s] \in Runs
        BY <1>6 DEF RecordChat, PrepareDelivery, RecordSent, Fail, Delivering, TypeInv
    <2>2. PICK own \in {run[s], [run[s] EXCEPT !.status = "sent"], [run[s] EXCEPT !.status = "failed"]} :
              journal' = Recorded(own)
        BY <1>6 DEF RecordChat, PrepareDelivery, RecordSent, Fail
    <2>3. own.id = run[s].id /\ own.task = run[s].task
        <3>1. \A x \in Runs, status \in {"sent", "failed"} :
                  LET y == [x EXCEPT !.status = status] IN y.id = x.id /\ y.task = x.task
            BY DEF Runs
        <3>2. own = run[s] \/ \E status \in {"sent", "failed"} : own = [run[s] EXCEPT !.status = status]
            BY <2>2
        <3> QED BY <2>1, <3>1, <3>2
    <2> QED BY <1>5, <2>1, <2>2, <2>3
<1> QED BY <1>2, <1>3, <1>4, <1>6
      DEF Next, OpenForm, Create, SaveForm, Passes, Works, TickBegins, Consider, ClaimLost, ClaimThrows, SearchThrows,
          Unavailable, TickEnds, CreateChat, CreateFails, DeliveryRefused, Engine, SendAnswered,
          SendFails, SendReturns, Announce, Crash, database, vars

\* The task of a delivery that is still there was there before the step; it is
\* the same, or has the next revision and instructions that are not older.
LEMMA DeliveredTask ==
    ASSUME Knows, [Next]_vars, NEW q \in Servers, pc[q] \in Delivering,
           tasks'[snap[q].id] # NoTask
    PROVE  LET t == snap[q].id
           IN  /\ t \in Tasks /\ Exists(t) /\ snap[q] \in Snapshots
               /\ snap[q].prompt <= snap[q].revision
               /\ tasks[t] \in Snapshots /\ tasks[t].prompt <= tasks[t].revision
               /\ tasks[t].revision >= snap[q].revision + 1
               /\ \/ tasks'[t] = tasks[t]
                  \/ /\ tasks'[t].revision = tasks[t].revision + 1
                     /\ tasks'[t].prompt = tasks'[t].revision \/ tasks'[t].prompt = tasks[t].prompt
<1> DEFINE t == snap[q].id
<1>1. snap[q] \in Snapshots /\ t \in Tasks
    BY ScheduledAssumption DEF Knows, TypeInv, Snapshots, ScheduledAssumption
<1>2. Sees(snap[q], 1)  BY DEF Knows, SeesInv
<1>3. TaskStep(t)  BY <1>1, TaskSteps DEF Knows
<1>4. t \notin fresh /\ snap[q].prompt <= snap[q].revision  BY <1>2 DEF Sees
<1>5. Exists(t)  BY <1>3, <1>4 DEF TaskStep, Exists
<1>6. tasks[t] \in Snapshots /\ tasks[t].prompt <= tasks[t].revision
    BY <1>1, <1>5 DEF Knows, TypeInv, Exists, SeesInv
<1>7. tasks[t].revision >= snap[q].revision + 1  BY <1>2, <1>5 DEF Sees
<1>8. \/ tasks'[t] = tasks[t]
      \/ /\ tasks'[t].revision = tasks[t].revision + 1
         /\ tasks'[t].prompt = tasks'[t].revision \/ tasks'[t].prompt = tasks[t].prompt
    BY <1>3, <1>5 DEF TaskStep, LaterVersion
<1> QED BY <1>1, <1>4, <1>5, <1>6, <1>7, <1>8

\* Another server that changes the task of a delivery has claimed it since: to
\* the earlier ones the task is at a revision they do not expect.
LEMMA OnlyLaterChange ==
    ASSUME Knows, DecidedInv, HoldsInv, NEW q \in Servers, pc[q] \in Delivering,
           Exists(snap[q].id), NEW s \in Servers \ {q}, Changes(s, snap[q].id), ~Claim(s)
    PROVE  Newer(q) \/ (tasks[snap[q].id].revision # expected[q])
<1> DEFINE t == snap[q].id
<1>1. /\ pc[s] \in Delivering /\ snap[s].id = t /\ Exists(t)
      /\ \/ tasks[t].revision = snap[s].revision + 1
         \/ tasks[t].revision = expected[s]
    BY DEF Changes, PrepareDelivery, MayDeliver, Fail, Pauses, Delivering
<1>2. Holds(q) /\ Holds(s)  BY <1>1 DEF HoldsInv
<1>3. /\ run[q].id \in Nat /\ run[s].id \in Nat /\ run[q].id # run[s].id
      /\ snap[q] \in Snapshots /\ snap[s] \in Snapshots
      /\ expected[q] \in Nat /\ expected[s] \in Nat
      /\ \A r \in journal : r.id \in Nat
    BY <1>1, ScheduledAssumption DEF DecidedInv, Knows, TypeInv, Runs, ScheduledAssumption
<1>4. snap[q].revision \in Nat /\ snap[s].revision \in Nat  BY <1>3 DEF Snapshots
<1>5. CASE run[s].id < run[q].id
    <2>1. /\ expected[s] <= snap[q].revision /\ snap[q].revision + 1 <= expected[q]
          /\ snap[s].revision + 1 <= expected[s]
        BY <1>1, <1>2, <1>5 DEF Holds
    <2>2. tasks[t].revision = snap[s].revision + 1 => tasks[t].revision <= snap[q].revision
        BY <1>3, <1>4, <2>1
    <2>3. tasks[t].revision <= snap[q].revision /\ tasks[t].revision \in Nat
        BY <1>1, <1>3, <1>4, <2>1, <2>2
    <2> HIDE DEF t
    <2>4. tasks[t].revision # expected[q]  BY <1>3, <1>4, <2>1, <2>3
    <2> QED BY <2>4 DEF t
<1>6. CASE run[s].id > run[q].id
    <2>1. PICK r \in journal : r.task = t /\ r.id >= run[s].id
        BY <1>1, <1>2 DEF Holds, Reached
    <2>2. r.id >= run[q].id + 1  BY <1>3, <1>6, <2>1
    <2> QED BY <2>1, <2>2 DEF Newer, Reached
<1> QED BY <1>3, <1>5, <1>6

\* A delivery that goes on.
LEMMA HoldsOn ==
    ASSUME Knows, DecidedInv, HoldsInv, [Next]_vars, NEW q \in Servers,
           pc[q] \in Delivering, pc'[q] \in Delivering, SameWork(q), tasks'[snap[q].id] # NoTask
    PROVE  Holds(q)'
<1> DEFINE t == snap[q].id
<1>0. /\ t \in Tasks /\ Exists(t) /\ snap[q] \in Snapshots
      /\ snap[q].prompt <= snap[q].revision
      /\ tasks[t] \in Snapshots /\ tasks[t].prompt <= tasks[t].revision
      /\ tasks[t].revision >= snap[q].revision + 1
      /\ \/ tasks'[t] = tasks[t]
         \/ /\ tasks'[t].revision = tasks[t].revision + 1
            /\ tasks'[t].prompt = tasks'[t].revision \/ tasks'[t].prompt = tasks[t].prompt
    BY DeliveredTask
<1>1. Holds(q)  BY <1>0 DEF HoldsInv
<1>2. snap'[q] = snap[q] /\ run'[q].id = run[q].id  BY DEF SameWork
<1>3. /\ snap[q].revision \in Nat /\ snap[q].prompt \in Nat
      /\ tasks[t].revision \in Nat /\ tasks[t].prompt \in Nat
      /\ run[q].id \in 1 .. claims /\ claims \in Nat /\ expected[q] \in Nat
    BY <1>0 DEF Snapshots, Knows, TypeInv
<1>4. /\ tasks'[t].revision >= tasks[t].revision /\ tasks'[t].prompt >= tasks[t].prompt
      /\ tasks'[t].revision \in Nat /\ tasks'[t].prompt \in Nat
    <2> HIDE DEF t
    <2> QED BY <1>0, <1>3
<1>5. PrepareDelivery(q) => expected'[q] = tasks'[t].revision
    BY DEF PrepareDelivery, Knows, TypeInv
<1>6. ~Claim(q)  BY DEF Claim, Delivering
<1>7. ~PrepareDelivery(q) => expected'[q] = expected[q]
    BY <1>6, ExpectedStays DEF Knows
<1>8. /\ snap[q].revision + 1 <= expected[q] /\ expected[q] <= tasks[t].revision
      /\ tasks[t].prompt > snap[q].prompt \/ Newer(q) \/ tasks[t].revision = expected[q]
      /\ Reached(t, run[q].id)
    BY <1>1 DEF Holds
<1>9. snap[q].revision + 1 <= expected'[q] /\ expected'[q] <= tasks'[t].revision
    <2> HIDE DEF t
    <2> QED BY <1>3, <1>4, <1>5, <1>7, <1>8
<1>10. \E r \in journal' : r.task = t /\ r.id >= run[q].id
    BY <1>0, <1>3, <1>8, ReachedStays DEF Knows
<1>11. Newer(q) => \E r \in journal' : r.task = t /\ r.id >= run[q].id + 1
    <2>1. run[q].id + 1 \in Nat  BY <1>3
    <2> QED BY <1>0, <2>1, ReachedStays DEF Knows, Newer
<1>12. \/ tasks'[t].prompt > snap[q].prompt
       \/ \E r \in journal' : r.task = t /\ r.id >= run[q].id + 1
       \/ tasks'[t].revision = expected'[q]
    <2>1. CASE tasks[t].prompt > snap[q].prompt
        <3> HIDE DEF t
        <3> QED BY <1>3, <1>4, <2>1
    <2>2. CASE PrepareDelivery(q)  BY <1>5, <2>2
    <2>3. CASE /\ ~PrepareDelivery(q) /\ ~Newer(q) /\ tasks[t].revision = expected[q]
        <3>1. TaskCause(t)  BY <1>0, TaskCauses DEF Knows
        <3>2. CASE tasks'[t] = tasks[t]  BY <1>7, <2>3, <3>2
        <3>3. CASE tasks'[t].prompt = tasks'[t].revision
            <4> HIDE DEF t
            <4> QED BY <1>0, <1>3, <1>4, <3>3
        <3>4. ASSUME NEW s \in Servers, Changes(s, t)
              PROVE  \E r \in journal' : r.task = t /\ r.id >= run[q].id + 1
            <4>1. CASE Claim(s)
                <5>1. PICK r \in journal' : r.task = snap[s].id /\ r.id = claims + 1
                    BY <4>1, ClaimIsKept DEF Knows
                <5>2. r.task = t  BY <3>4, <5>1 DEF Changes
                <5>3. r.id >= run[q].id + 1  BY <1>3, <5>1
                <5> QED BY <5>2, <5>3
            <4>2. CASE s = q
                <5>1. Fail(q)  BY <1>6, <2>3, <3>4, <4>2 DEF Changes
                <5>2. pc'[q] = "ticking"  BY <5>1 DEF Fail, Leave, Goto, Knows, TypeInv
                <5> QED BY <5>2 DEF Delivering
            <4>3. CASE ~Claim(s) /\ s # q
                BY <1>0, <2>3, <3>4, <4>3, OnlyLaterChange
            <4> QED BY <4>1, <4>2, <4>3
        <3> QED BY <1>0, <3>1, <3>2, <3>3, <3>4 DEF TaskCause
    <2> QED BY <1>8, <1>11, <2>1, <2>2, <2>3
<1>13. ASSUME NEW o \in Servers, pc'[o] \in Delivering, snap'[o].id = t, run'[o].id < run[q].id
       PROVE  expected'[o] <= snap[q].revision
    <2>1. ~Claim(o)
        <3>1. ASSUME Claim(o) PROVE FALSE
            <4>1. run'[o].id = claims + 1  BY <3>1, ClaimIsKept DEF Knows
            <4> QED BY <1>3, <1>13, <4>1
        <3> QED BY <3>1
    <2>2. pc[o] \in Delivering /\ snap[o].id = t /\ run[o].id < run[q].id
        BY <1>13, <2>1, ServerSteps DEF Knows, ServerStep, SameWork
    <2>3. expected[o] <= snap[q].revision  BY <1>1, <2>2 DEF Holds
    <2>4. ~PrepareDelivery(o)
        <3>1. ASSUME PrepareDelivery(o) PROVE FALSE
            <4>1. tasks[t].revision = snap[o].revision + 1
                BY <2>2, <3>1 DEF PrepareDelivery, MayDeliver
            <4>2. Holds(o)  BY <1>0, <2>2 DEF HoldsInv
            <4>3. snap[o].revision + 1 <= expected[o]  BY <4>2 DEF Holds
            <4>4. expected[o] \in Nat  BY DEF Knows, TypeInv
            <4> HIDE DEF t
            <4> QED BY <1>0, <1>3, <2>3, <4>1, <4>3, <4>4
        <3> QED BY <3>1
    <2>5. expected'[o] = expected[o]  BY <1>13, <2>1, <2>4, ExpectedStays DEF Knows
    <2> QED BY <2>3, <2>5
<1>14. Newer(q)' <=> \E r \in journal' : r.task = t /\ r.id >= run[q].id + 1
    BY <1>2 DEF Newer, Reached
<1>15. Reached(snap[q].id, run[q].id)'  BY <1>2, <1>10 DEF Reached
<1> QED BY <1>2, <1>9, <1>12, <1>13, <1>14, <1>15 DEF Holds

\* A delivery that begins: its server expects the revision of its own claim.
LEMMA HoldsFirst ==
    ASSUME Knows, HoldsInv, [Next]_vars, NEW q \in Servers, Claim(q)
    PROVE  Holds(q)'
<1> DEFINE t == snap[q].id
<1>1. /\ t \in Tasks /\ Exists(t) /\ tasks[t] \in Snapshots
      /\ tasks'[t] = Advanced(tasks[t])
    BY ClaimKeepsType DEF Knows
<1>2. /\ snap'[q] = snap[q] /\ expected'[q] = snap[q].revision + 1
      /\ tasks[t].revision = snap[q].revision /\ run'[q].id = claims + 1
    BY ClaimIsKept DEF Claim, Claimable, Knows, TypeInv
<1>3. tasks'[t].revision = tasks[t].revision + 1 /\ snap[q].revision \in Nat
    <2>1. now \in Nat  BY DEF Knows, TypeInv
    <2>2. tasks[t].revision \in Nat  BY <1>1 DEF Snapshots
    <2> QED BY <1>1, <1>2, <2>1, <2>2, AdvancedType
<1>4. /\ snap[q].revision + 1 <= expected'[q] /\ expected'[q] <= tasks'[t].revision
      /\ tasks'[t].revision = expected'[q]
    BY <1>2, <1>3
<1>5. \E r \in journal' : r.task = t /\ r.id >= claims + 1
    <2>1. PICK r \in journal' : r.task = t /\ r.id = claims + 1  BY ClaimIsKept DEF Knows
    <2> QED BY <2>1 DEF Knows, TypeInv
<1>6. ASSUME NEW o \in Servers, pc'[o] \in Delivering, snap'[o].id = t, run'[o].id < run'[q].id
      PROVE  expected'[o] <= snap[q].revision
    <2>1. o # q /\ Stays(o)
        <3>1. o # q  BY <1>2, <1>6 DEF Knows, TypeInv
        <3> QED BY <3>1, ClaimsAreAlone DEF Knows
    <2>2. pc[o] \in Delivering /\ snap[o].id = t  BY <1>6, <2>1 DEF Stays
    <2>3. Holds(o)  BY <1>1, <2>2 DEF HoldsInv
    <2>4. expected[o] <= tasks[t].revision  BY <2>2, <2>3 DEF Holds
    <2>5. expected'[o] = expected[o]  BY <2>1 DEF Claim, Knows, TypeInv
    <2> QED BY <1>2, <2>4, <2>5
<1>7. Reached(snap[q].id, run[q].id)'  BY <1>2, <1>5 DEF Reached
<1> QED BY <1>2, <1>4, <1>6, <1>7 DEF Holds

LEMMA HoldsStep ==
    ASSUME Knows, DecidedInv, HoldsInv, [Next]_vars
    PROVE  HoldsInv'
<1> SUFFICES ASSUME NEW q \in Servers, pc'[q] \in Delivering, tasks'[snap'[q].id] # NoTask
             PROVE  Holds(q)'
    BY DEF HoldsInv, Exists
<1>1. CASE Claim(q)  BY <1>1, HoldsFirst
<1>2. CASE pc[q] \in Delivering /\ SameWork(q)
    <2>1. snap'[q] = snap[q]  BY <1>2 DEF SameWork
    <2> QED BY <1>2, <2>1, HoldsOn
<1> QED BY <1>1, <1>2, ServerSteps DEF Knows, ServerStep

\* After a failed delivery the task is paused, unless the user saved or removed it
\* or an occurrence was claimed since: fail compares one number, and whatever else
\* changes the number while the run is the newest is the server's own doing.
THEOREM FailedIsPaused == Spec => FailurePauses
<1>1. Init => DecidedInv /\ HoldsInv
    BY DEF Init, DecidedInv, HoldsInv, Delivering
<1>2. ASSUME Knows, HoldsInv, [Next]_vars, NEW s \in Servers, pc[s] = "failing", pc'[s] = "ticking"
      PROVE  LET t == snap[s].id
             IN  \/ tasks'[t] = NoTask \/ tasks'[t].prompt # snap[s].prompt
                 \/ \E r \in journal : r.task = t /\ r.id > run[s].id
                 \/ tasks'[t].status = "paused"
    <2> DEFINE t == snap[s].id
    <2>0. pc[s] \in Delivering /\ s \in DOMAIN pc  BY <1>2 DEF Delivering, Knows, TypeInv
    <2>1. Fail(s)
        <3>1. ~Stays(s)  BY <1>2 DEF Stays
        <3>2. ServerActs(s)
            BY <1>2, <3>1, OthersStay, UserLeavesServers DEF Knows, Stays
        <3>3. ~Crash(s)  BY <1>2, <2>0 DEF Crash, Goto
        <3> QED BY <1>2, <3>2, <3>3
            DEF ServerActs, Works, TickBegins, Consider, ClaimLost, ClaimThrows, SearchThrows, Unavailable, TickEnds,
                CreateChat, CreateFails, RecordChat, PrepareDelivery, DeliveryRefused, Engine,
                SendAnswered, SendFails, SendReturns, RecordSent, Announce, Claim
    <2>2. CASE tasks'[t] = NoTask  BY <2>2
    <2>3. CASE tasks'[t] # NoTask
        <3>1. /\ t \in Tasks /\ Exists(t) /\ tasks[t] \in Snapshots /\ snap[s] \in Snapshots
            BY <1>2, <2>0, <2>3, DeliveredTask
        <3>2. \/ tasks[t].prompt > snap[s].prompt \/ Newer(s)
              \/ tasks[t].revision = expected[s]
            BY <1>2, <2>0, <3>1 DEF HoldsInv, Holds
        <3>3. CASE Newer(s)
            <4>1. PICK r \in journal : r.task = t /\ r.id >= run[s].id + 1
                BY <3>3 DEF Newer, Reached
            <4>2. r.id \in Nat /\ run[s].id \in Nat
                BY <1>2, <2>0 DEF Knows, TypeInv, Runs
            <4>3. r.id > run[s].id  BY <4>1, <4>2
            <4> QED BY <4>1, <4>3
        <3>4. CASE tasks[t].revision = expected[s]
            <4>1. tasks' = [tasks EXCEPT ![t].status = "paused", ![t].revision = @ + 1]
                BY <2>1, <3>1, <3>4 DEF Fail, Pauses
            <4>2. tasks'[t] = [tasks[t] EXCEPT !.status = "paused", !.revision = @ + 1]
                BY <1>2, <3>1, <4>1 DEF Knows, TypeInv
            <4>3. tasks'[t].status = "paused"  BY <3>1, <4>2 DEF Snapshots
            <4> QED BY <4>3
        <3>5. CASE tasks[t].prompt > snap[s].prompt /\ ~Pauses(s)
            <4>1. tasks' = tasks  BY <2>1, <3>5 DEF Fail
            <4>2. tasks[t].prompt # snap[s].prompt  BY <3>1, <3>5 DEF Snapshots
            <4> QED BY <4>1, <4>2
        <3> QED BY <3>1, <3>2, <3>3, <3>4, <3>5 DEF Pauses
    <2> QED BY <2>2, <2>3
<1>3. Knows /\ HoldsInv /\ [Next]_vars =>
        [\A s \in Servers :
           pc[s] = "failing" /\ pc'[s] = "ticking" =>
             LET t == snap[s].id
             IN  \/ tasks'[t] = NoTask \/ tasks'[t].prompt # snap[s].prompt
                 \/ \E r \in journal : r.task = t /\ r.id > run[s].id
                 \/ tasks'[t].status = "paused"]_vars
    BY <1>2
<1>4. Knows /\ DecidedInv /\ HoldsInv /\ [Next]_vars => DecidedInv' /\ HoldsInv'
    BY DecidedStep, HoldsStep DEF Knows
<1> QED BY <1>1, <1>3, <1>4, AlwaysKnows, PTL DEF Spec, FailurePauses

=============================================================================
