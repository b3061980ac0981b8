----------------------- MODULE OnboardingTransaction -----------------------
(***************************************************************************)
(* The journalled creation of a folder tree: applyOnboardingPlan and       *)
(* recoverOnboardingPlan of lawoss/okf/src/onboarding/transaction.ts.      *)
(*                                                                         *)
(* A plan creates directories and files in a root somebody else also works *)
(* in.  Each creation is an intent, the creation itself and a record of    *)
(* what was created; a removal likewise.  Every append to the journal and  *)
(* every change of the root is a step, a crash may come between any two,   *)
(* and so may the owner of the root, except between a last check and the   *)
(* operation it guards (the code says it cannot close that gap).  An       *)
(* identity is given once: a directory that is made again has another      *)
(* inode.  The lock that keeps two transactions apart is OnboardingLock.   *)
(***************************************************************************)
EXTENDS Integers, Sequences, FiniteSets

CONSTANTS
    Paths,      \* paths that may exist in the root
    Dirs,       \* those that are directories
    Parent,     \* the directory a path is in
    TopLevel,   \* "in the root itself"
    Plan,       \* the planned paths, parents first
    Before,     \* what the root held when the plan was made
    NoPath,     \* the path of an event that has none
    NoJournal,  \* the journal has not been written
    MaxCrashes, \* bound: crashes
    MaxEdits    \* bound: changes by the owner of the root

ASSUME PlanAssumption ==
    /\ Plan \in Seq(Paths) /\ Dirs \subseteq Paths
    /\ \A i, j \in DOMAIN Plan : Plan[i] = Plan[j] => i = j
    /\ Parent \in [Paths -> Dirs \cup {TopLevel}] /\ TopLevel \notin Paths
    /\ NoPath \notin Paths
    /\ Before \in [Paths -> {"missing", "dir", "planned", "other"}]

VARIABLES
    disk,     \* each path: what it holds, who made it, and whether its
              \* identity is the one its "created" event recorded
    baseline, \* the journal: what the root held before, or NoJournal
    events,   \* the events file, oldest first
    torn,     \* its last line is incomplete
    proc,     \* the call under way and where it is
    used      \* what was used of the bounds

vars == <<disk, baseline, events, torn, proc, used>>

Missing(p) == disk[p].body = "missing"
Bodies == [p \in Paths |-> disk[p].body]
Planned(p) == IF p \in Dirs THEN "dir" ELSE "planned"
Nothing == [body |-> "missing", maker |-> "nobody", same |-> FALSE]
Idle == [mode |-> "none", at |-> "idle"]

\* The root is as it was when the plan was made of it.
Init ==
    /\ disk = [p \in Paths |-> IF Before[p] = "missing" THEN Nothing
                              ELSE [body |-> Before[p], maker |-> "owner", same |-> FALSE]]
    /\ baseline = NoJournal /\ events = <<>> /\ torn = FALSE
    /\ proc = Idle /\ used = [crashes |-> 0, edits |-> 0]

-----------------------------------------------------------------------------
(* What the journal says.                                                  *)

Types == {"intent", "created", "remove_intent", "removed",
          "completed", "rollback_started", "rolled_back"}
Seen(type) == \E n \in DOMAIN events : events[n].type = type
Of(type) == { events[n].path : n \in { m \in DOMAIN events : events[m].type = type } }
MutCreated == Of("created")
Created == Of("created") \ Of("removed")
MutNeverRollingBack == FALSE
RollingBack == Seen("rollback_started") \/ Seen("remove_intent") \/ Seen("removed")

\* targetState() is "correct" and the identity is the recorded one.
MutContentOnly(p) == disk[p].body = Planned(p)
Owned(p) == disk[p].body = Planned(p) /\ disk[p].same
\* verifyBaseline(): but for what the journal owns, the root is as it was.
BaselineHolds == \A p \in Paths \ Created : disk[p].body = baseline[p]
Empty(p) == \A x \in Paths : Parent[x] = p => Missing(x)
ParentThere(p) == Parent[p] # TopLevel => disk[Parent[p]].body = "dir"

\* The operation a call is at: the first one not created, the last one created.
Left == { n \in DOMAIN Plan : Plan[n] \notin Created }
Done == { n \in DOMAIN Plan : Plan[n] \in Created }
First(S) == Plan[CHOOSE n \in S : \A m \in S : n <= m]
NextUp == First(Left)
NextDown == Plan[CHOOSE n \in Done : \A m \in Done : m <= n]

-----------------------------------------------------------------------------
(* Steps of a call.                                                        *)

Log(type, path) == events' = Append(events, [type |-> type, path |-> path])
Goto(at) == proc' = [proc EXCEPT !.at = at]
\* The call throws or returns; the lock is released.
MutLeave == proc' = [proc EXCEPT !.mode = "none"]
Leave == proc' = Idle
At(at) == proc.at = at /\ UNCHANGED <<torn, used>>
DiskOnly == UNCHANGED <<baseline, events>>
JournalOnly == UNCHANGED <<disk, baseline>>
LeaveAsIs == Leave /\ UNCHANGED <<disk, baseline, events>>

\* A call that finds an incomplete line in either file throws, and changes nothing.
BeginApply ==
    /\ proc = Idle /\ ~torn
    /\ proc' = [mode |-> "apply", at |-> IF baseline = NoJournal THEN "journal" ELSE "check"]
    /\ UNCHANGED <<disk, baseline, events, torn, used>>

\* The first call writes the journal if the root is what the plan was made of.
WriteJournal ==
    /\ At("journal") /\ UNCHANGED <<disk, events>>
    /\ IF Bodies = Before THEN baseline' = Bodies /\ Goto("check")
       ELSE UNCHANGED baseline /\ Leave

\* A journal with events is left to recovery; otherwise the baseline must
\* hold and every target be missing.
CheckApply ==
    /\ At("check")
    /\ IF events = <<>> /\ BaselineHolds /\ \A n \in DOMAIN Plan : Missing(Plan[n])
       THEN Goto("intend") /\ UNCHANGED <<disk, baseline, events>>
       ELSE LeaveAsIs

MutDoneEarly == Cardinality(Left) <= 1
AllMade == Left = {}

Intend ==
    /\ At("intend") /\ JournalOnly
    /\ IF AllMade THEN Log("completed", NoPath) /\ Leave
       ELSE IF ~Missing(NextUp) THEN UNCHANGED events /\ Leave
       ELSE /\ IF NextUp \in Of("intent") THEN UNCHANGED events ELSE Log("intent", NextUp)
            /\ Goto("create")

\* mkdir, or open with O_EXCL: it fails on an entry that came meanwhile.
Create ==
    /\ At("create") /\ DiskOnly
    /\ IF Missing(NextUp) /\ ParentThere(NextUp)
       THEN /\ disk' = [disk EXCEPT ![NextUp] =
                          [body |-> Planned(NextUp), maker |-> "us", same |-> FALSE]]
            /\ Goto("record")
       ELSE UNCHANGED disk /\ Leave

\* The identity recorded is the one the entry has by now: an entry the owner
\* has made again or touched since its creation is taken for the call's own.
Record ==
    /\ At("record") /\ UNCHANGED baseline
    /\ IF Missing(NextUp) THEN UNCHANGED <<disk, events>> /\ Leave
       ELSE /\ Log("created", NextUp)
            /\ disk' = [disk EXCEPT ![NextUp] =
                          [body |-> @.body, same |-> TRUE,
                           maker |-> IF @.maker = "owner" THEN "taken" ELSE @.maker]]
            /\ Goto("intend")

BeginRecover(mode) ==
    /\ proc = Idle /\ baseline # NoJournal /\ ~torn
    /\ mode = "finish" => ~RollingBack
    /\ proc' = [mode |-> mode, at |-> "resume"]
    /\ UNCHANGED <<disk, baseline, events, torn, used>>

MutNothingToResume == {}
\* A durable intent to remove plus absence: the removal happened.
Resumable == { n \in Done : Plan[n] \in Of("remove_intent") /\ Missing(Plan[n]) }

Resume ==
    /\ At("resume") /\ Resumable # {} /\ Log("removed", First(Resumable))
    /\ JournalOnly /\ UNCHANGED proc

Verify ==
    /\ At("resume") /\ Resumable = {} /\ UNCHANGED <<disk, baseline, events>>
    /\ IF (\A p \in Created : Owned(p)) /\ BaselineHolds
          /\ ~Seen("rolled_back") /\ ~Seen("completed")
       THEN Goto(IF proc.mode = "rollback" THEN "inspect" ELSE "intend")
       ELSE Leave

\* A creation that may or may not have happened, or somebody else's entry in
\* a directory to be removed, stops the rollback before it starts.
Uncertain == \E n \in Left : Plan[n] \in Of("intent") \ Of("removed")
Foreign == \E p \in Created \cap Dirs :
              Missing(p) \/ \E x \in Paths : Parent[x] = p /\ ~Missing(x) /\ x \notin Created

Inspect ==
    /\ At("inspect") /\ JournalOnly
    /\ IF Uncertain \/ Foreign THEN UNCHANGED events /\ Leave
       ELSE /\ IF RollingBack THEN UNCHANGED events ELSE Log("rollback_started", NoPath)
            /\ Goto("remove")

MutFilesGone == Created \subseteq Dirs
AllGone == Created = {}

Remove ==
    /\ At("remove") /\ JournalOnly
    /\ IF AllGone THEN Log("rolled_back", NoPath) /\ Leave
       ELSE IF Owned(NextDown) THEN Log("remove_intent", NextDown) /\ Goto("unlink")
       ELSE UNCHANGED events /\ Leave

\* Checked once more; rmdir refuses a directory that is not empty.
Unlink ==
    /\ At("unlink") /\ DiskOnly
    /\ IF Owned(NextDown) /\ (NextDown \in Dirs => Empty(NextDown))
       THEN disk' = [disk EXCEPT ![NextDown] = Nothing] /\ Goto("unlinked")
       ELSE UNCHANGED disk /\ Leave

Unlinked == At("unlinked") /\ JournalOnly /\ Log("removed", NextDown) /\ Goto("remove")

Call ==
    \/ WriteJournal \/ CheckApply \/ Intend \/ Create \/ Record
    \/ Resume \/ Verify \/ Inspect \/ Remove \/ Unlink \/ Unlinked

\* The process dies, or an operation of its fails; a write under way may be
\* left half done.  (Half a file in the root is a creation not recorded.)
Appending == proc.at \in {"journal", "intend", "record", "resume", "inspect", "remove", "unlinked"}
Crash ==
    /\ proc # Idle /\ used.crashes < MaxCrashes
    /\ used' = [used EXCEPT !.crashes = @ + 1]
    /\ proc' = Idle
    /\ torn' \in IF Appending THEN {torn, TRUE} ELSE {torn}
    /\ UNCHANGED <<disk, baseline, events>>

\* The owner of the root adds, changes, touches, makes again or deletes an
\* entry; what he has written is his, also when it reads as planned.
Contents(p) == IF p \in Dirs THEN {"dir"} ELSE {"planned", "other"}
Edit(p) ==
    /\ used.edits < MaxEdits /\ used' = [used EXCEPT !.edits = @ + 1]
    /\ \/ /\ IF Missing(p) THEN ParentThere(p) ELSE p \notin Dirs
          /\ \E body \in Contents(p) :
                disk' = [disk EXCEPT ![p] = [body |-> body, maker |-> "owner", same |-> FALSE]]
       \/ ~Missing(p) /\ Empty(p) /\ disk' = [disk EXCEPT ![p] = Nothing]
    /\ UNCHANGED <<baseline, events, torn, proc>>

Next ==
    \/ BeginApply \/ BeginRecover("finish") \/ BeginRecover("rollback")
    \/ Call \/ Crash
    \/ \E p \in Paths : Edit(p)

Spec == Init /\ [][Next]_vars

\* A call runs to its end, and a rollback or finish that is called for is
\* called again and again.
FairSpec ==
    /\ Spec /\ WF_vars(Call)
    /\ SF_vars(BeginRecover("rollback")) /\ SF_vars(BeginRecover("finish"))

-----------------------------------------------------------------------------
(* Properties.                                                             *)

Nodes == [body : {"missing", "dir", "planned", "other"}, maker : {"nobody", "us", "owner", "taken"},
          same : BOOLEAN]

\* Every variable has its type.
TypeOK ==
    /\ disk \in [Paths -> Nodes]
    /\ baseline = NoJournal \/ baseline \in [Paths -> {"missing", "dir", "planned", "other"}]
    /\ events \in Seq([type : Types, path : Paths \cup {NoPath}])
    /\ torn \in BOOLEAN
    /\ proc \in [mode : {"none", "apply", "finish", "rollback"},
                 at : {"idle", "journal", "check", "intend", "create", "record", "resume", "inspect",
                       "remove", "unlink", "unlinked"}]
    /\ proc.mode = "none" <=> proc.at = "idle"
    /\ used \in [crashes : Nat, edits : Nat]

\* A transaction that says it is rolled back has left nothing of its own
\* behind that the owner has not changed or touched, whatever crashes and
\* foreign changes came before (lines 320-345).
RolledBackClean == Seen("rolled_back") => \A p \in Paths : disk[p].maker # "us"

\* No call removes or replaces an entry that the owner made, changed, touched
\* or made again, nor anything whose content is not the planned one, although
\* path, kind and content may be as planned (lines 333-335).  The exception is
\* "taken": what the owner makes again or touches between a creation and its
\* record is recorded as the call's own (277-280, 353-354).
Owners(p) == disk[p].maker = "owner" \/ disk[p].body = "other"
OwnersContentStands ==
    [][\A p \in Paths : Owners(p) /\ disk'[p].body # disk[p].body => proc' = proc]_vars

\* Nothing is created once a rollback has started, by whatever call: what has
\* been removed does not come back (line 304).
NoCreateAfterRemoval ==
    [][\A p \in Paths : Missing(p) /\ disk'[p].maker = "us" => ~Seen("rollback_started")]_vars

\* A rollback that has started can be taken to its end, however often it is
\* interrupted, as long as nobody else touches the root (lines 305-312).
RollbackEnds ==
    Seen("rollback_started") ~> Seen("rolled_back") \/ torn \/ used.edits > 0

\* A transaction that was interrupted ends completed or rolled back, unless a
\* crash left a creation unrecorded (line 349) or half a line of the journal.
Unrecorded == proc = Idle /\ Uncertain /\ ~BaselineHolds
TransactionEnds ==
    baseline # NoJournal ~>
        Seen("completed") \/ Seen("rolled_back") \/ torn \/ used.edits > 0 \/ Unrecorded

=============================================================================
