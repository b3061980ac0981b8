---------------------------- MODULE ReviewQueue ----------------------------
(***************************************************************************)
(* The queue that bounds the work of document reviews: ReviewQueue of      *)
(* apps/server/src/reviews/scheduler.ts.  A limited number of jobs run at  *)
(* a time, reviews (groups) take turns, a provider that pushes back cools  *)
(* down, a failed job gives its place up and waits for its next attempt,   *)
(* and the caller may abort at any time, all jobs of one signal at once.   *)
(*                                                                         *)
(* The queue lives in one thread.  A step is what runs without an await;   *)
(* the loop of pump is one step per round, and nothing else happens while  *)
(* pumping is set.  An abort tells the jobs of its signal one by one, and  *)
(* each may pump before the next is told; in which order is left open.     *)
(* Times are what is left of them, so that they come to 0 as the clock     *)
(* goes; a timer may fire late.                                            *)
(***************************************************************************)
EXTENDS Naturals, FiniteSets, SequencesExt

CONSTANTS
    Jobs, Groups, Providers, Signals,
    GroupOf, ProviderOf, SignalOf, \* of each job
    Concurrency,         \* jobs running at a time
    Attempts,            \* attempts of one job
    MaxWait,             \* bound: the longest wait a provider asks for
    MaxAborts,           \* bound: signals that are aborted
    NoGroup, NoTimer

ASSUME QueueAssumption ==
    /\ GroupOf \in [Jobs -> Groups] /\ ProviderOf \in [Jobs -> Providers]
    /\ SignalOf \in [Jobs -> Signals]
    /\ IsFiniteSet(Jobs) /\ IsFiniteSet(Groups) /\ NoGroup \notin Groups /\ NoTimer \notin Nat
    /\ Concurrency \in Nat \ {0} /\ Attempts \in Nat \ {0} /\ MaxWait \in Nat
    /\ MaxAborts \in Nat

VARIABLES
    groups,    \* the reviews that have jobs waiting, in the order of the map
    queue,     \* the waiting jobs of each
    active,    \* places taken
    lastGroup, \* the review that started a job last
    timer,     \* what is left until the one timer fires
    cooldown,  \* what is left of each provider's cooldown
    readyIn,   \* what is left of each job's wait
    attempts,
    stage,     \* each job: new, waiting, running, answered or left
    answer,    \* what its request came back with
    promise,   \* what the caller was told
    aborted,   \* jobs that have been told of their signal's abort
    hearing,   \* jobs of the aborted signal that are still to be told
    pumping,
    overtaken  \* history: starts of each review while another has had a job ready

vars == <<groups, queue, active, lastGroup, timer, cooldown, readyIn, attempts, stage,
          answer, promise, aborted, hearing, pumping, overtaken>>
places == <<active, lastGroup, timer>>
waits == <<cooldown, readyIn, attempts>>

Init ==
    /\ groups = << >> /\ queue = [g \in Groups |-> << >>]
    /\ active = 0 /\ lastGroup = NoGroup /\ timer = NoTimer
    /\ cooldown = [p \in Providers |-> 0]
    /\ readyIn = [j \in Jobs |-> 0] /\ attempts = [j \in Jobs |-> 0]
    /\ stage = [j \in Jobs |-> "new"] /\ answer = [j \in Jobs |-> "none"]
    /\ promise = [j \in Jobs |-> "pending"] /\ aborted = {} /\ hearing = {} /\ pumping = FALSE
    /\ overtaken = [g \in Groups |-> [h \in Groups |-> 0]]

Move(j, to) == stage' = [stage EXCEPT ![j] = to]
Settle(j, how) ==
    promise' = IF promise[j] = "pending" THEN [promise EXCEPT ![j] = how] ELSE promise
Hears(j) == aborted' = aborted \cup {j} /\ hearing' = hearing \ {j}

\* Between two turns of the thread: nothing pumps, and no abort is being told.
Calm == ~pumping /\ hearing = {}

Enqueue(j) ==
    LET g == GroupOf[j]
    IN  /\ queue' = [queue EXCEPT ![g] = Append(@, j)]
        /\ groups' = IF queue[g] = << >> THEN Append(groups, g) ELSE groups

\* An entry is in a list once, or not at all.
Without(s, x) ==
    IF \E n \in DOMAIN s : s[n] = x THEN RemoveAt(s, CHOOSE n \in DOMAIN s : s[n] = x) ELSE s

\* A review without waiting jobs leaves the map, and comes back at its end.
Dequeue(j) ==
    LET g    == GroupOf[j]
        left == Without(queue[g], j)
    IN  /\ queue' = [queue EXCEPT ![g] = left]
        /\ groups' = IF left = << >> THEN Without(groups, g) ELSE groups

-----------------------------------------------------------------------------
(* pump.                                                                   *)

Larger(a, b) == IF a > b THEN a ELSE b
WakeIn(j) == Larger(readyIn[j], cooldown[ProviderOf[j]])
Waiting == { j \in Jobs : stage[j] = "waiting" }

\* The turn goes to the review after the last one, or to the first of the map
\* when the last one has left it.
MutTurn == 0
Turn ==
    IF \E i \in DOMAIN groups : groups[i] = lastGroup
      THEN (CHOOSE i \in DOMAIN groups : groups[i] = lastGroup) % Len(groups) ELSE 0
InTurn(i) == groups[((Turn + i) % Len(groups)) + 1]
HasReady(g) == \E n \in DOMAIN queue[g] : WakeIn(queue[g][n]) = 0
FirstReady(g) ==
    queue[g][CHOOSE n \in DOMAIN queue[g] :
               /\ WakeIn(queue[g][n]) = 0
               /\ \A m \in DOMAIN queue[g] : m < n => WakeIn(queue[g][m]) # 0]

\* History: the count of a review goes on only while it has a job ready.
Recount(started) ==
    overtaken' = [g \in Groups |-> [h \in Groups |->
        IF g = started \/ ~HasReady(g)' THEN 0
        ELSE overtaken[g][h] + (IF h = started THEN 1 ELSE 0)]]

\* One round of the loop: the first ready job of the first review in turn that
\* has one takes a place.  If its signal is aborted and it has not been told, it
\* is turned away at once, and the place with it; the pump of its end goes on as
\* this one does.
Runs(j) ==
    /\ Move(j, "running") /\ active' = active + 1 /\ attempts' = [attempts EXCEPT ![j] = @ + 1]
    /\ UNCHANGED <<promise, aborted, hearing>>
TurnedAway(j) ==
    Move(j, "left") /\ Settle(j, "rejected") /\ Hears(j) /\ UNCHANGED <<active, attempts>>
Start(j) ==
    /\ Dequeue(j)
    /\ lastGroup' = GroupOf[j] /\ timer' = NoTimer
    /\ IF j \in hearing THEN TurnedAway(j) ELSE Runs(j)
    /\ UNCHANGED <<cooldown, readyIn, answer, pumping>>
    /\ Recount(GroupOf[j])
MutFree == active <= Concurrency
Free == active < Concurrency
PumpStarts ==
    /\ pumping /\ Free
    /\ \E i \in 0 .. Len(groups) - 1 :
         /\ HasReady(InTurn(i)) /\ \A k \in 0 .. i - 1 : ~HasReady(InTurn(k))
         /\ Start(FirstReady(InTurn(i)))

\* The end of the loop: with a free place and nothing ready, one timer is set
\* for the job that is ready first.
Earliest == CHOOSE n \in { WakeIn(j) : j \in Waiting } : \A j \in Waiting : n <= WakeIn(j)
MutPumpEnds ==
    /\ pumping /\ pumping' = FALSE /\ timer' = NoTimer
    /\ Free => \A g \in Groups : ~HasReady(g)
    /\ UNCHANGED <<groups, queue, active, lastGroup, waits, stage, answer, promise, aborted, hearing, overtaken>>
PumpEnds ==
    /\ pumping /\ pumping' = FALSE
    /\ Free => \A g \in Groups : ~HasReady(g)
    /\ timer' = IF Free /\ groups # << >> THEN Earliest ELSE NoTimer
    /\ UNCHANGED <<groups, queue, active, lastGroup, waits, stage, answer, promise, aborted, hearing, overtaken>>

-----------------------------------------------------------------------------
(* The callers and their requests.                                         *)

Run(j) ==
    /\ Calm /\ stage[j] = "new"
    /\ IF j \in aborted
         THEN /\ Move(j, "left") /\ Settle(j, "rejected")
              /\ UNCHANGED <<groups, queue, pumping>>
         ELSE /\ Move(j, "waiting") /\ Enqueue(j) /\ pumping' = TRUE
              /\ UNCHANGED promise
    /\ UNCHANGED <<places, waits, answer, aborted, hearing, overtaken>>

\* The caller aborts one signal, once.
SignalAborts(s) ==
    /\ Calm /\ \A j \in aborted : SignalOf[j] # s
    /\ Cardinality({ SignalOf[j] : j \in aborted }) < MaxAborts
    /\ hearing' = { j \in Jobs : SignalOf[j] = s /\ stage[j] # "left" }
    /\ UNCHANGED <<groups, queue, places, waits, stage, answer, promise, aborted, pumping, overtaken>>

\* The abort of a job, when it is told.
\* A running job keeps its place until its request has stopped; a waiting one
\* leaves at once.
MutLeavesAtOnce(j) == stage[j] \in {"waiting", "running"}
LeavesAtOnce(j) == stage[j] = "waiting"
Abort(j) ==
    /\ ~pumping /\ j \in hearing /\ Hears(j)
    /\ IF LeavesAtOnce(j)
         THEN /\ Dequeue(j) /\ Move(j, "left") /\ Settle(j, "rejected") /\ pumping' = TRUE
         ELSE UNCHANGED <<groups, queue, stage, promise, pumping>>
    /\ UNCHANGED <<places, waits, answer>>
    /\ Recount(NoGroup)

\* The request comes back; an answer that comes after the abort is not used.
Answer(j, how) ==
    /\ Calm /\ stage[j] = "running" /\ Move(j, "answered")
    /\ answer' = [answer EXCEPT ![j] = IF how = "done" /\ j \in aborted THEN "fatal" ELSE how]
    /\ IF how = "done" /\ j \notin aborted THEN Settle(j, "resolved") ELSE UNCHANGED promise
    /\ UNCHANGED <<groups, queue, places, waits, aborted, hearing, pumping, overtaken>>

\* The handler of execute, and its finally.  A push-back cools the provider
\* down, whether or not the job has an attempt left.
Backoff(j) == 2 ^ (attempts[j] - 1)
PushedBack(j) == answer[j] = "transient" /\ j \notin aborted
Again(j) == PushedBack(j) /\ attempts[j] < Attempts

CoolDown(j, wait) ==
    IF PushedBack(j)
      THEN /\ readyIn' = [readyIn EXCEPT ![j] = wait]
           /\ cooldown' = [cooldown EXCEPT ![ProviderOf[j]] = Larger(wait, @)]
      ELSE UNCHANGED <<readyIn, cooldown>>
Finish(j, wait) ==
    /\ Calm /\ stage[j] = "answered" /\ wait \in Backoff(j) .. Larger(Backoff(j), MaxWait)
    /\ CoolDown(j, wait)
    /\ active' = active - 1
    /\ answer' = [answer EXCEPT ![j] = "none"]
    /\ IF Again(j)
         THEN Move(j, "waiting") /\ Enqueue(j) /\ UNCHANGED promise
         ELSE Move(j, "left") /\ Settle(j, "rejected") /\ UNCHANGED <<groups, queue>>
    /\ pumping' = TRUE
    /\ UNCHANGED <<lastGroup, timer, attempts, aborted, hearing>>
    /\ Recount(NoGroup)

TimerFires ==
    /\ Calm /\ timer = 0 /\ timer' = NoTimer /\ pumping' = TRUE
    /\ UNCHANGED <<groups, queue, active, lastGroup, waits, stage, answer, promise, aborted, hearing, overtaken>>

-----------------------------------------------------------------------------
Sooner(n) == IF n = 0 THEN 0 ELSE n - 1
Passes ==
    /\ Calm
    /\ readyIn' = [j \in Jobs |-> Sooner(readyIn[j])]
    /\ cooldown' = [p \in Providers |-> Sooner(cooldown[p])]
    /\ timer' = IF timer = NoTimer THEN NoTimer ELSE Sooner(timer)
    /\ UNCHANGED <<groups, queue, active, lastGroup, attempts, stage, answer, promise, aborted, hearing, pumping, overtaken>>

Pump == PumpStarts \/ PumpEnds
System ==
    \/ \E j \in Jobs :
         \/ Abort(j)
         \/ \E how \in {"done", "transient", "fatal"} : Answer(j, how)
         \/ \E wait \in 1 .. 2 ^ Attempts + MaxWait : Finish(j, wait)
    \/ Pump \/ TimerFires \/ Passes
Next ==
    \/ System
    \/ \E j \in Jobs : Run(j)
    \/ \E s \in Signals : SignalAborts(s)

Spec == Init /\ [][Next]_vars

\* The thread does not rest while there is something to do: an abort is told to
\* the end, requests have time-outs, what has come back is handled, the clock goes.
FairSpec == Spec /\ WF_vars(System)

-----------------------------------------------------------------------------
(* Properties.                                                             *)

InQueue(j) == { n \in DOMAIN queue[GroupOf[j]] : queue[GroupOf[j]][n] = j }

\* Every variable has its type; places taken are the jobs that run, never more
\* than allowed; a job waits in its review's queue and nowhere else, and only
\* one that is not aborted; a job that has left has been answered.
QueueOK ==
    /\ active = Cardinality({ j \in Jobs : stage[j] \in {"running", "answered"} })
    /\ active <= Concurrency
    /\ \A g \in Groups :
         /\ \A n \in DOMAIN queue[g] : GroupOf[queue[g][n]] = g
         /\ Cardinality({ i \in DOMAIN groups : groups[i] = g }) = IF queue[g] = << >> THEN 0 ELSE 1
    /\ \A j \in Jobs :
         /\ Cardinality(InQueue(j)) = IF stage[j] = "waiting" THEN 1 ELSE 0
         /\ stage[j] = "waiting" => j \notin aborted /\ attempts[j] < Attempts
         /\ stage[j] = "left" => promise[j] # "pending"
         /\ stage[j] \in {"new", "waiting", "running"} => promise[j] = "pending"

\* No wake-up is lost: with a place free and a job waiting, one timer is set
\* and fires no later than the first of them is ready.
NoLostWakeUp ==
    ~pumping /\ active < Concurrency =>
      \A j \in Waiting : timer # NoTimer /\ timer <= WakeIn(j)

\* "round-robin between reviews" (line 52), as far as it goes: while a review has
\* a job ready, another one starts fewer jobs than there are reviews, and one more
\* for each job that is aborted; a job that is turned away counts as started.
\* Turns are not strict, for a review that leaves the map comes back at its end,
\* where it may be ahead of the turn.
BoundedOvertaking ==
    \A g, h \in Groups : overtaken[g][h] < Cardinality(Groups) + Cardinality(aborted)

\* Every caller gets an answer: retries, cooldowns and aborts never leave a job
\* behind.
EveryJobIsSettled == Waiting # {} ~> \A j \in Jobs : stage[j] \in {"new", "left"}

=============================================================================
