# LAWOSS: models, checks and proofs

This directory holds TLA+ models of parts of LAWOSS, a desktop workspace for law
firms: an Electron application with a local server (`apps/server`), an engine that runs
the language models (opencode, an external program), and command line tools that keep
case files in order (`lawoss/okf`). Line numbers refer to the commit beside this
directory. `PROJECT.json` maps each definition to the lines it stands for.

## 1. Inventory

### 1.1 The parts, their state and their operations

| Part | State | Operations | Hard behaviour |
| --- | --- | --- | --- |
| Message queue of a chat (`session-message-queue.ts`) | one JSON file per chat, its copy in memory, a `running` flag, a 1 s timer | enqueue, edit lease, submit, pause, resume, reorder, remove; dispatch; confirm; load after a restart | requests of several windows, overlapping timer ticks, lost answers, crashes, failed writes |
| Send and delete gate (`session-execution-gate.ts`) | count of sends and set of deletions per chat | with-execution, begin/end deletion | a send waits for a deletion, a deletion refuses during a send |
| Session routes (`routes/sessions.ts`) | none of their own for the queue | `confirmed`, `idle`, `send`, DELETE | the order of the engine's deletion and the queue's |
| Onboarding transaction (`okf/src/onboarding/transaction.ts`) | journal, append-only events file, the tree of a case | apply, recover by finishing, recover by rolling back | a crash between any two steps, an owner who edits the tree meanwhile |
| Onboarding lock (same file) | a lock file per root | take, take over from a dead process, release | takeover races |
| Scheduled tasks (`scheduled-tasks/store.ts`, `runner.ts`) | SQLite: tasks with a revision, runs, an inbox of chats; a `ticking` flag per server | create, update, remove; tick: list, claim, prepare, send, record, fail | two servers, edits during a delivery, crash after the claim |
| Review queue (`reviews/scheduler.ts`) | waiting jobs per review, cooldowns, places taken, the review that went last, one timer | run, abort, retry, pump | aborts at any time, places returned once, no lost wake-up |
| Sandbox settings sync (`agent-sandbox/sync.ts`, `settings.ts`) | local settings with an edit mark, agreed revision; one round under way | edit, round of GET and PUT | local edits and sign-ins during a round, lost answers, two computers |
| Concurrency limiter (`lawoss/concurrency-limiter.ts`) | places taken, waiting tasks | run, time out | places returned once |
| Token refresh (`eigenwelt-refresh.ts`, `eigenwelt-connection-store.ts`) | stored credentials, request id, refresh under way | refresh, sign out, sign in | lost answers of a rotating token, late rejections |
| Approvals and host decisions (`approvals.ts`, `lawoss/host-decision.ts`) | pending requests, remembered answers, receipts | request, respond natively or by HTTP, time out, cancel | two presentations of one request, stale inputs |
| Write and commit locks (`file-write-lock.ts`, `agent-sandbox/commit-lock.ts`, `engine-warmup-gate.ts`) | chains of promises keyed by path | lock one, lock several, abort | order, deadlock |
| Triage (`okf/src/triage/apply.ts`) | journal of creations and moves | apply, resume, undo | crash inside a move |
| Deadlines (`lawoss/deadlines/service.ts`) | candidate revisions, confirmation, export | prepare, confirm, revoke, defer | decision on stale inputs |
| Runtime database lifecycle (`runtime-db-lifecycle.ts`) | reference counts per database path | enter, leave, close, retry the close | a new generation while the old one closes |

Further parts are left out with their reasons in `PROJECT.json` (pure derivations,
thin loops around an external call, file watching).

### 1.2 How they interact

* A window enqueues a message over HTTP. The queue writes it, asks the engine whether
  the chat is idle, claims the first message with a second write, takes the gate and
  sends. The answer arrives minutes later through the engine's event stream. If it is
  lost, the timer asks the engine whether it shows a message with that id.
* The DELETE route takes the gate, deletes the session in the engine, then the queue.
* A scheduled task and a voice message send to a chat directly, through the same gate.
* The trial copy and the triage take the onboarding lock around their own journals.
* Deadlines ask for a host decision, which asks for an approval.

### 1.3 What makes each modelled part correct

* **Queue.** A message is handed to the engine at most once, and is not lost. One
  message is sent at a time, in the order the user sees. While the fate of a message is
  unknown nothing is sent past it. A pause means that nothing starts; a message
  restored after a restart waits for the user. A chat that is being deleted does not
  send, and a deleted queue does not come back.
* **Onboarding.** All planned entries are made or none is left; only entries recorded as
  the transaction's own and unchanged since are removed; the journal always tells which
  way to go.
* **Lock.** At most one process writes to a root, and a process that died does not
  block it for ever.
* **Scheduled tasks.** An occurrence is sent at most once, by whatever server, and only in
  the form the user has saved. A failure pauses the task, unless the user changed it. A
  task that keeps its chat has one. What is due is taken up, and a run is left undecided
  only by the death of its server.
* **Review queue.** Places are counted right and never exceeded, each caller is answered,
  nobody waits while a place is free and nothing holds him up, and a review that has a
  job ready is not passed over again and again.
* **Settings.** An edit reaches the account it was made under, or gives way: to a change
  of another computer, to what an account holds that this computer did not know yet, after
  a lost answer to the computer's own upload, and to a change of account, which drops it
  for good.

## 2. Modules

| Module | Stands for |
| --- | --- |
| `SessionMessageQueue` | the queue of one chat with gate, transport, timer, restarts, deletion |
| `MessageDelivery` | what the queue promises of each message (abstract specification) |
| `MCSessionMessageQueue` | symmetry, and the refinement of `MessageDelivery` |
| `SessionMessageQueueProofs` | type correctness of the queue, lemmas on its operators |
| `SessionMessageQueueSafety` | the inductive invariant of the queue and its safety theorems |
| `SessionMessageQueueDelivery` | that no message is lost, and that the queue implements `MessageDelivery` |
| `OnboardingTransaction` | apply and recover of an onboarding plan |
| `AllOrNothing` | what a transaction promises to a reader of its journal (abstract) |
| `MCOnboardingTransaction` | a plan, and the refinement of `AllOrNothing` |
| `OnboardingTransactionProofs` | the inductive invariant of the transaction, its safety theorems, and that it implements `AllOrNothing` |
| `OnboardingLock` | the lock file of a root |
| `OnboardingLockProofs` | proofs about the lock |
| `ScheduledTasks` | the store and the runner of scheduled tasks, in several servers |
| `MCScheduledTasks` | two schedules, and what rule comes to an end of its search |
| `ScheduledTasksProofs` | the inductive invariant of the tasks and their safety theorems |
| `ReviewQueue` | the queue of review jobs |
| `MCReviewQueue` | three reviews and two providers |
| `ReviewQueueProofs` | the book-keeping of the queue, its wake-ups and its turns, proved |
| `SettingsSync` | the settings of several computers and of the platform |
| `SettingsSyncProofs` | what an upload may replace and what an edit gives way to, proved |

Definitions whose name begins with `Mut` are wrong variants of the definition that
follows them. No specification uses them: `PROJECT.json` names, for each checked
property, the variant under which TLC finds it violated.

### 2.1 SessionMessageQueue

`queue` is the record of the file: `order` and `entry` are the code's `entries` (status,
lease token, whether its two minutes are over, `lastEditToken`, and the kind: a prompt, or
a command, which stands for a shell line as well), the other fields have the code's names.
The kind matters once: the engine shows no message for a command, so an undecided command
is never confirmed (line 122) and waits for the user. Drafts, model choices and error texts
are left out: no condition reads them. Disk and memory hold the same record between steps,
because `change()` serialises the writes of a chat and publishes the memory copy after the
rename; a failed write leaves both unchanged.

`dispatch` is the one dispatcher the `running` flag admits. Its phases are the awaits:

    checking -> claiming -> claimed -> calling -> issued -> returned -> (written)
                                                \-> erred -> settling -> (written)

`tick` has the timer ticks under way (nothing in the code stops the next from beginning
while one waits for the engine): each has the undecided messages it saw when it began,
the one that was confirmed and whose write is to land, and whether it saw a lease.

`deleting` is the gate and `gone` the engine's deletion. A deletion of the queue takes
two steps: `MarkRemoved` refuses what comes later, except for one write that may be under
way (`WriteUnderWay`), and `RemoveSession`, which drops memory and file, waits for that
write to land (line 271). `closing` tells how far this is. `requests` counts what was issued
per id and `accepted` has the ids the engine shows as messages. `seen` is read by no
step: it has the observations some properties are stated with (ids that slid out of the
completed list, whether a resume came after the claim, which pauses are owed to the
user). `used` counts what `MaxActs`, `MaxFaults` and `MaxRestarts` bound.

Abstractions: two chats share nothing but the gate's maps (keyed by chat), so one is
modelled. A request that is refused (409) is no step. A tick that saw a lease which was
renewed meanwhile makes one empty write in the code, left out. After `MarkRemoved`
the model keeps refusing requests for the rest of the process's life, as `removed` does.
`Restart` finds the last file written or none. That a file which does not parse is set
aside (lines 44-50), and that reading one may fail, is left out: files are replaced by a
rename, so no step of the program leaves such a file, and what a queue with no file does
is in the model.

### 2.2 OnboardingTransaction

`Before` is what the root held when the plan was made of it: the first call writes no
journal when it holds something else. `disk` gives each path's content, who made it and
whether its identity (inode, and change time for a file) is the one its `created` event
recorded. `events` is the events file, `torn` an incomplete last line (of either file:
every later call throws on it). `proc` is the call that holds the lock and the await it is
at. A crash stands also for an I/O error: in both the call ends where it is. The owner of
the root may add, change, touch, make again or delete entries between any two steps, except
between the last check before a removal and the removal, a gap the code states it cannot
close (lines 238-240). What he makes again or touches between a creation and its record
gets the maker "taken": the code records the identity it finds then (lines 277-280,
353-354), and so takes the entry for its own. Symbolic links, case folding and the volatile
names are left out, and the comparison with the baseline is the recursive one (`scope`
absent).

### 2.3 OnboardingLock

Each system call of `lock()` is a step, with the first stat and read taken together: the
pair is compared with a second pair. A file is known by the process that created it and
whether the owner is written in it; a dead process makes no second file, so this tells
apart what device, inode, change time and content do. Process numbers are not reused.
`strayed` is history: a takeover has removed another file than the one it had read.

### 2.4 ScheduledTasks

`tasks`, `journal` and `inbox` are the three tables; a step is one transaction
(`BEGIN IMMEDIATE` admits one writer) or one answer of the engine, and other servers and
the user come between any two. `pc`, `todo`, `snap`, `run` and `expected` are the locals of
a server's tick: the rest of the list, the snapshot it looks at, the run it claimed and the
revision at which its failure may pause the task. `form` is the task as a window
shows it, whose revision goes along with the edit and may be stale by then.

    idle -> ticking -> asking -> creating -> recording -> preparing -> sending -> taken
                 ^                  |                         |           |         |
                 +----- failing <---+-------------------------+-----------+---------+
                 +----- announcing <- sent <----------------------------------------+

A schedule is the set of its instants, which is what the once, interval and calendar rules
of `schedule.ts` come to; the arithmetic is left out, but for its way out: the search of a
rule throws when it finds nothing within 40 years (`schedule.ts:94`). `Endless` are the
schedules of such rules, and `Unfound` says that their search is at this end. In a form it
refuses the edit; in a claim it rolls the claim back and ends the tick (`SearchThrows`), as
any error of the database there does (`ClaimThrows`). Title, instructions and model of a
task are named by the revision that saved them (`prompt`). `record` of a sent run is two
statements outside a transaction, and so two steps. `sent` and `abandoned` are history.
`Crash` stands for a server that dies, one that stops, and a tick that an error of the
database ends after the claim. Not modelled: a chat chosen by the user at creation, a clock
that is set back, and an error of a single statement of the database within a delivery (the
code then takes the path of a failed delivery).

### 2.5 ReviewQueue

The queue lives in one thread: a step is what runs without an await. The loop of `pump`
has a step for each round, and while `pumping` is set nothing else happens. `groups` is
the `Map` of reviews in the order of insertion, `queue` the jobs of each. Times are kept as
what is left of them (`readyIn`, `cooldown`, `timer`), so that they end at zero; the clock
goes by one unit, and a timer may fire late. The jobs of a review share the signal of its
caller: an abort tells them one by one (`hearing`; in the order in which they came, which the
model leaves open), and the pump of one may come to another that has not been told. That job is turned away before its request begins (`TurnedAway`,
line 115); the pump it starts in turn is the next round of the loop, and the second timer
that such a nested pump may set is left out: it is set for the same instant as the first
and pumps once more than needed. An attempt that fails waits at least its
backoff, and longer when the provider asks for it (`MaxWait`). `overtaken` is history: for
each two reviews, how many jobs the second has started (those turned away included) since
the first last started one or had none ready.

### 2.6 SettingsSync

`row` is the one row of a computer's database (settings, edit mark, and the revision of the
account it is in step with), `round` what the round under way has read and been
answered, `saving` an edit that waits for the lock. A request is served in one step and
its answer used in a later one, or lost. `remote` has each account's changes; their number
is the revision. The platform is not in this repository: it answers as the one of
`sync.test.ts` does (lines 35-46). History: who made or confirmed a change and what its
user knew (`by`, `seen`), and who has lost the answer to an upload (`unheard`). Left out:
`writeSandboxNetworkMode`, which no caller outside the tests reaches, the notification of
listeners, and the settings of one chat.

## 3. Runs

| Run | Instance | Shows |
| --- | --- | --- |
| `QueueRecovery` | 2 prompts, 2 ticks, 3 requests, 1 failed write, 1 restart | pauses, deletion, no loss, refinement of `MessageDelivery` |
| `QueueEditing` | 2 prompts, 1 edit token, 4 requests, 1 restart, 1 remembered completed id, a full queue at 2 | at most once, order, leases, the revision boundary of pauses |
| `QueueProgress` | 2 messages, prompts or commands, 1 token, 2 requests, 1 restart, fair | liveness of dispatcher, timer and leases |
| `QueueUserPause`, `QueueRestored` | smallest instances that show it | section 5 |
| `Onboarding` | a directory, a file in it, a file beside it, a path for a note of the owner's, a letter he had there before; 3 crashes, 2 edits by the owner, fair | refinement of `AllOrNothing`, ownership, both recoveries end |
| `OnboardingLock` | 3 processes of which 2 may die, 1 failed write, fair | a holder has its file unless a takeover strayed, dead locks are reclaimed |
| `OnboardingTwoTakers` | 3 processes, 1 death | section 5 |
| `Scheduled` | 2 servers, 1 task that is due twice, or once by a rule that goes on past the search, claims that fail, 1 edit, pause, resume or removal, 1 crash, fair | no occurrence twice, nothing the user took back, failures pause, what is due is taken up |
| `ScheduledStall` | 1 server, 2 tasks, fair | section 5 |
| `Review` | a review of 2 jobs and two of 1, 2 providers, 1 place, 2 attempts, 3 signals of which 1 is aborted, fair | places, turns, wake-ups, every job is settled |
| `Settings` | 2 computers, 2 accounts, 2 edits, 1 change of account, 1 lost request or answer, fair | what uploads replace, what edits give way to, edits arrive |

Why the bounds are enough for what they are used for:

* Two messages are one being sent and one waiting behind it, all that ordering, pauses
  and confirmation distinguish; three appear where a failed, an undecided and a waiting
  one are needed together. Two ticks are the smallest overlap. `CompletedLimit = 1` makes
  the loss of old ids happen within two messages (500 in the code); `QueueLimit = 2` makes
  the limit of 100 reachable.
* Faults and restarts are one each in the queue: a second restart meets a queue that
  the first left paused.
* The kind of a message decides only whether an undecided entry can be confirmed:
  `QueueProgress` has both kinds, the larger runs prompts, which can do more.
* In the lock run three processes allow a holder, a taker whose file it may lose and a dead
  owner; two that die let the one who took over be taken over.
* In the onboarding run three crashes allow one in the creation, one in a first rollback
  and one in its resumption.
* Two servers are enough for one that acts on an old list; a third would act as the second.
  Two instants let a task be claimed again while an earlier run of it is still being
  delivered, and `KeepRuns = 1` makes the loss of old runs happen (50 in the code). One
  form and one crash meet every place of a tick. Two edits (safety only), and one server
  with two edits and three instants (with liveness), were explored too, without a violation.
* In the review queue three reviews and two providers let a review wait for a cooldown
  while others have a job ready, let jobs of several reviews share a provider, and let a
  review leave the map and come back while another is passed over. Two places were
  explored for safety as well. With three reviews turns are not strict: the one that comes
  back does so at the end of the map, and the turn starts over at the front when the
  review that went last has left it. So `BoundedOvertaking` says how far the "round-robin"
  of line 52 goes: less than once for each review, and once more for each abort.
* Two computers suffice for one that changes what the other has not seen; a second edit
  meets the round of the first. Two changes of account were explored for safety.
* Symmetry over messages, ticks and tokens is used only in runs without liveness.

Deadlock is not checked. The queue may stop for good when the user does nothing, and
with the counters used up there is nothing left to do; an onboarding whose journal has
half a line is refused from then on; dead processes take no steps; without tasks a
server's tick does nothing, and nobody syncs without an account.

## 4. Fairness

* Queue: `WF(Dispatch)` and `WF(Tick)`: the event loop runs continuations that are ready,
  and the interval timer fires until `stop()`. `SF(EngineIdle)` and `SF(TickConfirms)`: an
  engine that is asked every second is at some time idle, and shows a message it has.
  `SF(BeginSend)`: a waiting send resumes in the same turn in which the gate is released,
  before another request can take it. `WF(EngineAccepts)`, `WF(EndDeletion)`: calls to the
  engine end. `WF(RemoveSession)`: the write a deletion waits for ends. Users, crashes and
  `stop()` have no fairness.
* Onboarding: `WF(Call)`: a call that began goes on. `SF` on both recoveries: a user whose
  root is left half done calls recovery again until it works; the properties say
  that this is enough, not that the code does it by itself.
* Lock: `WF` for each process: a caller that was refused tries again.
* Scheduled tasks: `WF(Works(s))`: a server that runs goes on: its interval timer starts
  ticks, every request has a time-out. `SF(Claim(s))`: a server that asks again and again
  finds the chat idle at some time, and a database that does not fail at every claim. A
  claim whose search throws is not helped by this: `DueIsTakenUp` exempts the time while
  such a task is due, and `ScheduledStall` shows why. Users, crashes and the clock have no
  fairness.
* Review queue: `WF(System)`: the thread, the timer, the clock and the requests together do
  not rest while one of them has something to do. Waits are bounded and a clock with
  nothing to count down changes nothing, so this is enough for requests to end (they
  have time-outs) and to be handled. Callers and aborts have no fairness.
* Settings: `WF` for the rounds (an interval timer of 30 s, requests with time-outs) and for
  a save that waits for the lock. Users and failing requests have no fairness.

## 5. Disagreements between code and words

1. `QueueUserPause`: a user pauses while a message is being sent, the send fails, and the
   failure overwrites the pause with an error pause (lines 262-263), which the
   confirmation lifts (197-199). The test at `session-message-queue.test.ts:347` says that
   reconciliation preserves an explicit pause; it pauses after the failure.
2. `QueueRestored`: no restart pause is set beside a failed entry (line 67); when the user
   removes that entry, the confirmation of the interrupted message releases what was
   restored as waiting. The comments at lines 60 and 66 say it waits for Resume.
3. `OnboardingTwoTakers`: two processes that both found the lock of a dead one may both take
   it: the second removes the file the first has just created (line 230). The comment at
   211 says the lock coordinates the writers of a root.
4. `ScheduledStall`: a rule such as `FREQ=YEARLY;INTERVAL=50` is accepted, and when its one
   occurrence within 40 years is due, the search for the next one throws
   (`schedule.ts:94`) inside the claim (`store.ts:67`). The claim is rolled back and the tick
   ends, each time: the task stays due and first in the list, and the tasks behind it are
   not sent. The comment at `schedule.ts:40` says that impossible custom rules cannot stall
   the local server.

Six more things the models show and no document contradicts. A message stays "sending"
until a restart when the write that settles its failed send fails too (line 251). An empty
lock file, left by a death between lines 217 and 233, is never reclaimed. A run whose
server died stays "dispatching" in the history of its task (`RunsAreDecided` exempts it).
An entry that the owner makes again or touches between its creation and the record of it is
recorded as the transaction's own, and a rollback removes it (`OwnersContentStands` exempts
it by "taken"). A queued edit of settings that was made under one account is dropped for
good when another member signs in and a round applies that account's settings
(`sync.ts:34,41,65`; `sync.test.ts:100-105` wants it so). And when the answer to an upload
of settings is lost and the user edits again, the newer edit is refused by the computer's
own first upload and gives way to it (`sync.ts:43-47`; `EditGivesWayToOthersOnly` exempts
it by `unheard`).

## 6. Proofs

Checked by TLAPS for all values of the constants:

* `SessionMessageQueueProofs!TypeCorrect`: `Spec => []TypeOK`. The invariant is inductive as it
  stands; two clauses are there for that: a dispatcher with a message in hand has an id,
  and a tick about to land a confirmation has one. There is a lemma for each operator
  on queue records (removal from `order`, the bounded list of completed ids, retiring an
  entry, restoring after a restart) and one for each family of steps.
* `SessionMessageQueueSafety!Invariant` and its consequences: `NeverSentTwice`
  (`[]AtMostOnce`), `NothingGoesBack` (`NeverRequeued`), `NothingTakesTheSend`
  (`[]InHandStays`), `SendsTheHead`, `UndecidedPausesQueue`, `RestartWaitsForTheUser`,
  `RemovalIsFinal` and `DeletionAndSendExclude`. None of the hard ones is inductive alone.
  That no message is sent twice needs `AskedIsPast`: an id the engine was ever asked for is
  being sent, undecided or completed, and the dispatcher is past the request. That needs,
  in turn, that nobody can open an edit on such an entry (`NobodyEditsASend`: saving an
  edit would make it wait again), that completed ids have no entry (`CompletedIsGone`),
  that a tick which comes late only lands on a message that is still undecided or already
  completed (`TicksPursueThePast`: otherwise it would take away the one in hand), and that
  a process that finds no file had nothing (`NoFileIsEmpty`). The facts about ids are
  stated for those that did not slide out of the completed list (`seen.forgotten`), as the
  properties are. The proof goes by one predicate of records (`Consistent`), kept by each
  operator, and one of steps (`QuietStep`): all steps but the claim, the request to the
  engine, the restart and the deletion are quiet, and a quiet step keeps the invariant
  (`QuietInv`). TLC also found the invariant to hold of the states of `QueueRecovery` and
  `QueueEditing`.
* `OnboardingLockProofs!TypeCorrect`: a lock file that is at the path belongs to a call that is
  not done with it, or to a dead process.
* `OnboardingLockProofs!HolderHasItsFile` (`[]HolderHasFile`) and `ExclusiveUnlessStrayed`:
  until a takeover has removed a file other than the one it had read (`strayed`, line 230),
  whoever holds the lock has its complete file at the path, and no two hold it, for any
  number of processes, deaths, takeovers and failed writes. The inductive invariant
  `Undisturbed` says that whoever got past the creation, dead or alive, has the one file at
  the path, so that a failed write (line 233) removes only its own.
  `ExclusiveWithoutDeaths` follows: with no death there is no takeover. Together with
  `OnboardingTwoTakers` this puts the fault in the removal of the takeover and nowhere
  else.
* `OnboardingTransactionProofs`: `TypeCorrect`, `CleanRollback` (`[]RolledBackClean`),
  `OwnersContent` (`OwnersContentStands`, which leaves out what is "taken") and
  `NoneCreatedAgain` (`NoCreateAfterRemoval`), for any plan, any number of crashes and any
  edits of the owner. `TransInv` says where an entry of the transaction's own may be in the
  journal, recorded or intended and not yet recorded (`MakersInv`), that a rollback has
  started only when nothing is in the second state (`JournalInv`), and at which steps a
  call can be then (`CallInv`: no creation is under way in a rollback, and an entry being
  recorded as removed is gone). `RolledBackClean` needs all three: without the second, an
  entry made before a crash and never recorded would pass.
* `ScheduledTasksProofs`: `TypeCorrect`, `OnlySavedIsDelivered` (`DeliversWhatIsSaved`),
  `SentAtMostOnce` (`[]OccurrenceSentOnce`), `OneChat` (`[]OneChatPerTask`) and
  `EveryRunIsDecided` (`[]RunsAreDecided`), for any number of servers, tasks, schedules,
  edits and crashes. All rest on `Knows`: types; that ids are used once (`FreshInv`); and
  that what anybody has read of a task is of a revision not above the present one, and is
  the same task when the revision is the same (`SeesInv`). `OnceInv` adds that an
  occurrence claimed or sent lies before the task's next one, `ChatInv` that what was sent
  in one saved form went to the chat the task is bound to, `DecidedInv` that every run in
  the journal which is not abandoned is decided or in the hands of one server.
  `FailedIsPaused` (`FailurePauses`) needs `HoldsInv`: the revision a delivery expects is
  the task's, or the user has saved it, or a later run of it was claimed; and a server that
  is still at an earlier run expects a revision that has passed, so that its failure pauses
  nothing that is not its own.
* `SessionMessageQueueDelivery` reduces each step to its effect on the stages of the
  messages (`Does`), and adds what is known of the engine (`KnownInv`: what dispatcher and
  ticks take for confirmed the engine has; the resume revision is above the dispatcher's
  exactly when a resume came since the claim). From this `NothingIsLost` (`NoSilentLoss`)
  and `LaterResumeStands` (`LaterResumeWins`) follow, and with `HandedInv` the refinement
  `QueueDelivers`: `Spec /\ Remembers => DeliversOnce`. An id that has slid out of the
  completed ones (500 in the code) is a new message to the queue and may be sent again, so
  the promise holds as long as none slides out (`Remembers`). `FewAreDelivered` has no
  condition on the behaviour: it proves `Remembers` for `Cardinality(Ids) *
  (Cardinality(Ticks) + 1) <= CompletedLimit`. The factor is no weakness of the proof: a
  tick that comes late enters an id another has entered already (line 196), so `SlotInv`
  counts the places of an id together with the ticks that are after it. `QueueRecovery` is
  an instance of it (2 messages, 2 ticks, 6 places).
* `OnboardingTransactionProofs!AllIsMadeOrTakenBack` (`JournalIsAllOrNothing`): every step
  of the transaction is a step of `AllOrNothing` on the events of its journal, or none.
  `VerdictInv` adds to `TransInv` that a completed transaction is not rolled back and that
  one which is rolled back has taken back every record. A plan's size is counted with
  `PlanAssumption`.
* `SettingsSyncProofs!UploadsFounded` (`[]UploadsAreFounded`): `SyncInv` says of a row, and
  of the copy of it that a round works with, that the revision it names was known to its
  user or is one this computer made or confirmed. `EditGivesWay`
  (`EditGivesWayToOthersOnly`) needs `HeardInv`: unless an answer was lost or the account
  was new, whatever is beyond the revision of a row was changed by another computer, also
  while a round with an older copy of the row is under way. With another account signed in
  nothing is claimed.
* `ReviewQueueProofs`: `BooksAreKept` (`[]QueueOK`), `WakeUpsAreKept` (`[]NoLostWakeUp`) and
  `OvertakingIsBounded` (`[]BoundedOvertaking`), for any number of jobs, reviews, providers and
  places. `Book` says that the map and the lists hold each entry once and exactly what waits,
  and that the places taken are the jobs that run. `TurnInv` bounds not what has been
  started but that together with what may still be (`RoomIn`): as many starts as reviews are
  ahead in the map, one more if the turn comes by again first, one less if it is on its way.

Assumptions on constants: `TokenAssumption` and `LockAssumption` (the "none" values are not
values), `KindAssumption` (prompts and commands), `PlanAssumption` (a plan names each path
once), `ScheduledAssumption` (instants are positive, at least one run is kept),
`SyncAssumption`, `IdAssumption` (the message ids of a run are finite), `LimitAssumption`
(both limits of the queue are positive) and `QueueAssumption` (jobs and reviews are finite,
each job has a review, a provider and a signal, there is a place and an attempt). TLC
evaluates them in every run of the module. Besides the invariant of the queue, TLC found
`VerdictInv` to hold of the states of `Onboarding`, `HoldsInv` of those of `Scheduled` and
`Remembers` of the behaviours of `QueueRecovery`.

Every invariant, action property and refinement that a passing run checks is also proved.
Only model-checked is liveness (`HeadMoves`, `UndecidedReconciled`, `LeasesEnd`, `SendingEnds`,
`RollbackEnds`, `TransactionEnds`, `DeadLocksReclaimed`, `DueIsTakenUp`, `EveryJobIsSettled`,
`EditsArrive`): fairness and ENABLED are out of the prover's reach. The four violations of
section 5 are TLC's counterexamples.

## 7. What is left

Done: the queue, the onboarding transaction and its lock, the scheduled tasks, the review
queue and the sync of settings.

Not modelled, in the order in which they are worth it:

1. `ConcurrencyLimiter`: places handed over and given back by time-out (a slot returned twice
   would let more than the limit run).
2. `TokenRefresh`: a lost answer does not sign the user out, a late rejection does not undo a
   new sign-in.
3. `Approvals` with host decisions: one answer counts, and it is of the revision shown.
4. `WriteLocks`, then the triage, deadlines and the database lifecycle.

Left out for good: the parts `PROJECT.json` lists as pure derivations, thin loops around
external calls, calendar arithmetic, text merging, and the user interface, translations,
command line and route tables, which make up most of the repository and keep no state
that a model could say more of than a test.

Theorem worth proving next: that `AskedIsPast` holds up to the moment an id slides out of
the completed ones, so that `AtMostOnce` could be stated by a window of messages instead of
`seen.forgotten`.
