--------------------------- MODULE OnboardingLock ---------------------------
(***************************************************************************)
(* The lock file that keeps the writers of one root apart: lock() of       *)
(* lawoss/okf/src/onboarding/transaction.ts, taken by applyOnboardingPlan, *)
(* recoverOnboardingPlan, the trial copy and the triage.                   *)
(*                                                                         *)
(* Every system call is a step of its process, except that the stat and    *)
(* the read of a lock file that is there are one: the pair is compared     *)
(* with a second pair later, and a stale lock's identity is its owner's.   *)
(* A process that died does not come back under its number.                *)
(***************************************************************************)
EXTENDS Naturals, FiniteSets

CONSTANTS
    Procs,     \* processes that write to the root, one call each at a time
    NoFile,    \* there is no lock file
    MaxDeaths, \* bound: processes that die
    MaxFaults  \* bound: writes of the lock file that fail

Files == [by : Procs, written : BOOLEAN]

ASSUME LockAssumption == NoFile \notin Files /\ MaxDeaths \in Nat /\ MaxFaults \in Nat

VARIABLES
    lock, \* the lock file: whose it is and whether its owner is written in it
    pc,   \* where each process is
    seen, \* the lock file a process has read and found to be a dead one's
    strayed, \* history: a takeover has removed another file than the one it read
    faults

vars == <<lock, pc, seen, strayed, faults>>

Alive(p) == pc[p] # "dead"
Goto(p, to) == pc' = [pc EXCEPT ![p] = to]
\* Every throw: the caller is told that another transaction is active.
GiveUp(p) == Goto(p, "idle") /\ UNCHANGED lock
Is(p, where) == pc[p] = where /\ UNCHANGED <<seen, faults>>
At(p, where) == Is(p, where) /\ UNCHANGED strayed
Mine(p) == lock # NoFile /\ lock.by = p

Init ==
    /\ lock = NoFile /\ pc = [p \in Procs |-> "idle"]
    /\ seen = [p \in Procs |-> NoFile] /\ strayed = FALSE /\ faults = 0

\* open with O_EXCL, on either of the two lines that do.
Exclusive(p, otherwise) ==
    IF lock = NoFile THEN lock' = [by |-> p, written |-> FALSE] /\ Goto(p, "write")
                     ELSE UNCHANGED lock /\ Goto(p, otherwise)

TryCreate(p) == At(p, "idle") /\ Exclusive(p, "look")

\* Only a complete lock of a process that is gone may be taken over.
MutStale(p) == lock # NoFile /\ lock.written
Stale(p) == lock # NoFile /\ lock.written /\ ~Alive(lock.by)

Look(p) ==
    /\ pc[p] = "look" /\ UNCHANGED <<strayed, faults>>
    /\ IF Stale(p) THEN seen' = [seen EXCEPT ![p] = lock] /\ Goto(p, "recheck") /\ UNCHANGED lock
                   ELSE UNCHANGED seen /\ GiveUp(p)

LookAgain(p) ==
    /\ At(p, "recheck")
    /\ IF lock = seen[p] THEN Goto(p, "remove") /\ UNCHANGED lock ELSE GiveUp(p)

\* rm removes what is at the path by now, and fails when nothing is.
MutRemove(p) == At(p, "remove") /\ GiveUp(p)
Remove(p) ==
    /\ Is(p, "remove") /\ strayed' = (strayed \/ lock \notin {seen[p], NoFile})
    /\ IF lock = NoFile THEN GiveUp(p) ELSE lock' = NoFile /\ Goto(p, "recreate")

Recreate(p) == At(p, "recreate") /\ Exclusive(p, "idle")

\* The owner is written through the handle: into its own file, even if that
\* is at the path no longer.
WriteOwner(p) ==
    /\ At(p, "write") /\ Goto(p, "held")
    /\ IF Mine(p) THEN lock' = [lock EXCEPT !.written = TRUE] ELSE UNCHANGED lock

WriteFails(p) ==
    /\ pc[p] = "write" /\ faults < MaxFaults /\ faults' = faults + 1
    /\ lock' = NoFile /\ Goto(p, "idle") /\ UNCHANGED <<seen, strayed>>

\* The token is read, and the file removed if it is this call's.
Release(p) ==
    /\ At(p, "held")
    /\ IF Mine(p) THEN Goto(p, "unlink") /\ UNCHANGED lock ELSE GiveUp(p)
MutUnlink(p) == At(p, "unlink") /\ GiveUp(p)
Unlink(p) == At(p, "unlink") /\ lock' = NoFile /\ Goto(p, "idle")

Die(p) ==
    /\ At(p, pc[p]) /\ Alive(p) /\ UNCHANGED lock
    /\ Cardinality({ q \in Procs : ~Alive(q) }) < MaxDeaths
    /\ Goto(p, "dead")

Step(p) ==
    \/ Look(p) \/ LookAgain(p) \/ Remove(p) \/ Recreate(p)
    \/ WriteOwner(p) \/ Release(p) \/ Unlink(p)

Next == \E p \in Procs : TryCreate(p) \/ Step(p) \/ WriteFails(p) \/ Die(p)

Spec == Init /\ [][Next]_vars

\* A call that was begun goes on, and somebody who is refused tries again.
FairSpec == Spec /\ \A p \in Procs : WF_vars(Step(p)) /\ WF_vars(TryCreate(p))

-----------------------------------------------------------------------------
(* Properties.                                                             *)

\* Every variable has its type, and a process whose file is at the path is not
\* done with it: what a call leaves behind is left by a death only.
TypeOK ==
    /\ lock \in Files \cup {NoFile} /\ seen \in [Procs -> Files \cup {NoFile}]
    /\ pc \in [Procs -> {"idle", "look", "recheck", "remove", "recreate", "write",
                         "held", "unlink", "dead"}]
    /\ lock # NoFile => pc[lock.by] \in {"write", "held", "unlink", "dead"}
    /\ strayed \in BOOLEAN /\ faults \in 0 .. MaxFaults

\* Writers of one root are serialised: no two processes hold its lock
\* (line 211, "Coordinates same-root writers").
MutualExclusion == \A p, q \in Procs : pc[p] = "held" /\ pc[q] = "held" => p = q

\* A process that holds the lock has its complete file at the path, so that
\* nobody else holds it, through deaths, takeovers, failed writes (line 233) and
\* late releases.  The one thing that can take the file away is a takeover that
\* removes what has come to the path since it looked (line 230): this says that
\* MutualExclusion has no other way to fail.
HolderHasFile ==
    ~strayed => \A p \in Procs : pc[p] = "held" => Mine(p) /\ lock.written

\* The lock of a process that died while it held it is taken over by somebody
\* who tries: it does not block the root for ever (lines 224-231).
DeadLocksReclaimed ==
    (\E p \in Procs : Stale(p)) ~> (lock = NoFile \/ Alive(lock.by) \/ \A p \in Procs : ~Alive(p))

=============================================================================
