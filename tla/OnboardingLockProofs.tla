------------------------ MODULE OnboardingLockProofs ------------------------
(***************************************************************************)
(* What holds of the lock whatever the number of processes, deaths and     *)
(* failed writes: its type, and, until a takeover removes another file     *)
(* than the one it looked at, the holder's file and mutual exclusion.  The *)
(* run OnboardingTwoTakers shows that such a removal comes about; without  *)
(* a death it does not.                                                    *)
(***************************************************************************)
EXTENDS OnboardingLock, FiniteSetTheorems, TLAPS

Places == {"idle", "look", "recheck", "remove", "recreate", "write", "held", "unlink", "dead"}

\* Every variable keeps its type, and a file at the path belongs to somebody
\* who is not done with it, however many processes take over from each other.
THEOREM TypeCorrect == Spec => []TypeOK
<1>1. Init => TypeOK
  <2> SUFFICES ASSUME Init PROVE TypeOK
    OBVIOUS
  <2>1. faults \in 0 .. MaxFaults
    BY LockAssumption DEF LockAssumption, Init
  <2> QED
    BY <2>1 DEF Init, TypeOK
<1>2. TypeOK /\ [Next]_vars => TypeOK'
  <2> SUFFICES ASSUME TypeOK, [Next]_vars PROVE TypeOK'
    OBVIOUS
  <2> USE LockAssumption DEF LockAssumption, TypeOK, Files, At, Is, Goto, GiveUp, Mine, Alive
  <2>0. ASSUME NEW p \in Procs, NEW where, At(p, where), NEW to \in Places, Exclusive(p, to),
               to \notin {"write", "dead"}, where \in {"idle", "recreate"}
        PROVE  TypeOK'
    <3>1. CASE lock = NoFile
      <4>1. lock' = [by |-> p, written |-> FALSE] /\ pc' = [pc EXCEPT ![p] = "write"]
        BY <2>0, <3>1 DEF Exclusive
      <4>2. lock' \in Files /\ lock'.by = p /\ pc'[p] = "write"
        BY <4>1
      <4> QED
        BY <4>1, <4>2, <2>0
    <3>2. CASE lock # NoFile
      <4>1. lock' = lock /\ pc' = [pc EXCEPT ![p] = to]
        BY <2>0, <3>2 DEF Exclusive
      <4> QED
        BY <4>1, <2>0, <3>2 DEF Places
    <3> QED
      BY <3>1, <3>2
  <2>1. ASSUME NEW p \in Procs, TryCreate(p) PROVE TypeOK'
    BY <2>0, <2>1 DEF TryCreate, Places
  <2>2. ASSUME NEW p \in Procs, Look(p) PROVE TypeOK'
    BY <2>2 DEF Look, Stale
  <2>3. ASSUME NEW p \in Procs, LookAgain(p) PROVE TypeOK'
    BY <2>3 DEF LookAgain
  <2>4. ASSUME NEW p \in Procs, Remove(p) PROVE TypeOK'
    BY <2>4 DEF Remove
  <2>5. ASSUME NEW p \in Procs, Recreate(p) PROVE TypeOK'
    BY <2>0, <2>5 DEF Recreate, Places
  <2>6. ASSUME NEW p \in Procs, WriteOwner(p) PROVE TypeOK'
    BY <2>6 DEF WriteOwner
  <2>7. ASSUME NEW p \in Procs, WriteFails(p) PROVE TypeOK'
    BY <2>7 DEF WriteFails
  <2>8. ASSUME NEW p \in Procs, Release(p) PROVE TypeOK'
    BY <2>8 DEF Release
  <2>9. ASSUME NEW p \in Procs, Unlink(p) PROVE TypeOK'
    BY <2>9 DEF Unlink
  <2>10. ASSUME NEW p \in Procs, Die(p) PROVE TypeOK'
    BY <2>10 DEF Die
  <2>11. CASE UNCHANGED vars
    BY <2>11 DEF vars
  <2> QED
    BY <2>1, <2>2, <2>3, <2>4, <2>5, <2>6, <2>7, <2>8, <2>9, <2>10, <2>11 DEF Next, Step
<1> QED
  BY <1>1, <1>2, PTL DEF Spec

-----------------------------------------------------------------------------
(* Who is on the way to a takeover has read a dead process's file.  As long *)
(* as no removal strayed, whoever got past the creation has the one file at *)
(* the path: a takeover only ever removes the file of a dead process.       *)

Dead(p) == ~Alive(p)
TakersInv ==
    \A p \in Procs : pc[p] \in {"recheck", "remove"} => seen[p] # NoFile /\ Dead(seen[p].by)
Undisturbed ==
    ~strayed => /\ \A p \in Procs : pc[p] \in {"write", "held", "unlink"} => Mine(p)
                /\ \A p \in Procs : pc[p] = "held" => lock.written

\* A process moves and the dead stay dead.
LEMMA Moves ==
    ASSUME TypeOK, NEW p \in Procs, NEW to \in Places, Goto(p, to)
    PROVE  pc'[p] = to /\ \A q \in Procs \ {p} : pc'[q] = pc[q]
BY DEF TypeOK, Goto

LEMMA TakersStep ==
    ASSUME TypeOK, TypeOK', TakersInv, [Next]_vars
    PROVE  TakersInv'
<1>1. ASSUME NEW p \in Procs, Alive(p), NEW to \in Places \ {"recheck", "remove"}, Goto(p, to),
             seen' = seen
      PROVE  TakersInv'
    BY <1>1, Moves DEF TakersInv, Dead, Alive, TypeOK, Files
<1>2. ASSUME NEW p \in Procs, Look(p), Stale(p) PROVE TakersInv'
    <2>1. seen' = [seen EXCEPT ![p] = lock] /\ Goto(p, "recheck") /\ pc[p] = "look"
        BY <1>2 DEF Look
    <2>2. lock # NoFile /\ lock \in Files /\ Dead(lock.by) /\ lock.by \in Procs
        BY <1>2 DEF Stale, Dead, TypeOK, Files
    <2>3. \A q \in Procs : Dead(q) => Dead(q)'
        BY <2>1, Moves DEF Dead, Alive, Places
    <2> QED BY <2>1, <2>2, <2>3, Moves DEF TakersInv, TypeOK, Files, Places
<1>3. ASSUME NEW p \in Procs, LookAgain(p), lock = seen[p] PROVE TakersInv'
    <2>1. seen' = seen /\ Goto(p, "remove") /\ pc[p] = "recheck"
        BY <1>3 DEF LookAgain, At, Is
    <2>3. \A q \in Procs : Dead(q) => Dead(q)'
        BY <2>1, Moves DEF Dead, Alive, Places
    <2> QED BY <2>1, <2>3, Moves DEF TakersInv, TypeOK, Files, Places
<1>4. CASE UNCHANGED vars
    BY <1>4 DEF vars, TakersInv, Dead, Alive
<1>5. ASSUME NEW p \in Procs, TryCreate(p) \/ Step(p) \/ WriteFails(p) \/ Die(p) PROVE TakersInv'
    <2> DEFINE Leads == /\ Alive(p) /\ seen' = seen
                        /\ \E to \in Places \ {"recheck", "remove"} : Goto(p, to)
    <2> USE DEF At, Is, GiveUp, Alive, Places
    <2>1. TryCreate(p) \/ Recreate(p) => Leads
        BY DEF TryCreate, Recreate, Exclusive
    <2>2. Look(p) /\ ~Stale(p) => Leads
        BY DEF Look
    <2>3. LookAgain(p) /\ lock # seen[p] => Leads
        BY DEF LookAgain
    <2>4. Remove(p) => Leads
        BY DEF Remove
    <2>5. WriteOwner(p) \/ Release(p) \/ Unlink(p) => Leads
        BY DEF WriteOwner, Release, Unlink
    <2>6. WriteFails(p) \/ Die(p) => Leads
        BY DEF WriteFails, Die
    <2>7. Leads => TakersInv'
        BY <1>1
    <2> HIDE DEF Leads
    <2> QED BY <1>2, <1>3, <1>5, <2>1, <2>2, <2>3, <2>4, <2>5, <2>6, <2>7 DEF Step
<1> QED BY <1>4, <1>5 DEF Next

LEMMA NothingDisturbs == Spec => [](TakersInv /\ Undisturbed)
<1>1. Init => TakersInv /\ Undisturbed
  BY DEF Init, TakersInv, Undisturbed
<1>2. TypeOK /\ TypeOK' /\ TakersInv /\ Undisturbed /\ [Next]_vars => Undisturbed'
  <2> SUFFICES ASSUME TypeOK, TypeOK', TakersInv, Undisturbed, [Next]_vars, ~strayed'
               PROVE  Undisturbed'
    BY DEF Undisturbed
  <2> USE LockAssumption DEF LockAssumption, Undisturbed, TypeOK, Files, At, Is, Goto, GiveUp, Mine
  <2>0. ASSUME NEW p \in Procs, NEW to \in {"look", "idle"}, Exclusive(p, to), ~strayed
        PROVE  Undisturbed'
    <3>1. CASE lock = NoFile
      <4>1. lock' = [by |-> p, written |-> FALSE] /\ pc' = [pc EXCEPT ![p] = "write"]
        BY <2>0, <3>1 DEF Exclusive
      <4>2. lock' \in Files /\ lock'.by = p
        BY <4>1
      <4>3. \A q \in Procs : pc[q] \notin {"write", "held", "unlink"}
        BY <2>0, <3>1
      <4> QED
        BY <4>1, <4>2, <4>3
    <3>2. CASE lock # NoFile
      BY <2>0, <3>2 DEF Exclusive
    <3> QED
      BY <3>1, <3>2
  <2>1. ASSUME NEW p \in Procs, TryCreate(p) \/ Recreate(p) PROVE Undisturbed'
    BY <2>0, <2>1 DEF TryCreate, Recreate
  <2>2. ASSUME NEW p \in Procs, Look(p) \/ LookAgain(p) PROVE Undisturbed'
    BY <2>2 DEF Look, LookAgain
  <2>3. ASSUME NEW p \in Procs, Remove(p) PROVE Undisturbed'
    <3>1. /\ pc[p] = "remove" /\ ~strayed /\ lock \in {seen[p], NoFile}
          /\ \/ lock' = lock /\ Goto(p, "idle")
             \/ lock' = NoFile /\ Goto(p, "recreate")
      BY <2>3 DEF Remove
    <3>2. lock # NoFile => pc[lock.by] = "dead" /\ lock.by \in Procs
      BY <3>1 DEF TakersInv, Dead, Alive
    <3>3. \A q \in Procs : pc[q] \notin {"write", "held", "unlink"}
      BY <3>1, <3>2
    <3>4. \A q \in Procs : pc'[q] \notin {"write", "held", "unlink"}
      BY <3>1, <3>3
    <3> QED
      BY <3>4
  <2>4. ASSUME NEW p \in Procs, WriteOwner(p) PROVE Undisturbed'
    <3>1. Mine(p) /\ lock \in Files
      BY <2>4 DEF WriteOwner
    <3>2. lock' = [lock EXCEPT !.written = TRUE] /\ pc' = [pc EXCEPT ![p] = "held"] /\ ~strayed
      BY <2>4, <3>1 DEF WriteOwner
    <3>3. lock' \in Files /\ lock'.by = p /\ lock'.written
      BY <3>1, <3>2
    <3>4. \A q \in Procs : q # p => pc[q] \notin {"write", "held", "unlink"}
      BY <3>1, <3>2
    <3>5. Mine(p)' /\ pc'[p] = "held" /\ \A q \in Procs \ {p} : pc'[q] = pc[q]
      BY <3>2, <3>3
    <3> QED
      BY <3>3, <3>4, <3>5
  <2>5. ASSUME NEW p \in Procs, WriteFails(p) PROVE Undisturbed'
    BY <2>5 DEF WriteFails
  <2>6. ASSUME NEW p \in Procs, Release(p) PROVE Undisturbed'
    BY <2>6 DEF Release
  <2>7. ASSUME NEW p \in Procs, Unlink(p) PROVE Undisturbed'
    BY <2>7 DEF Unlink
  <2>8. ASSUME NEW p \in Procs, Die(p) PROVE Undisturbed'
    BY <2>8 DEF Die
  <2>9. CASE UNCHANGED vars
    BY <2>9 DEF vars
  <2> QED
    BY <2>1, <2>2, <2>3, <2>4, <2>5, <2>6, <2>7, <2>8, <2>9 DEF Next, Step
<1> QED
  BY <1>1, <1>2, TakersStep, TypeCorrect, PTL DEF Spec

\* Whoever holds the lock has its complete file at the path, whatever processes
\* die and whatever writes fail, until a takeover removes a file that came to
\* the path after it looked (line 230): nothing else takes the file away.
THEOREM HolderHasItsFile == Spec => []HolderHasFile
<1>1. Undisturbed => HolderHasFile
  BY DEF Undisturbed, HolderHasFile
<1> QED
  BY <1>1, NothingDisturbs, PTL

\* Two processes never hold the lock before such a removal.
THEOREM ExclusiveUnlessStrayed == Spec => [](~strayed => MutualExclusion)
<1>1. Undisturbed => (~strayed => MutualExclusion)
  BY DEF Undisturbed, MutualExclusion, Mine
<1> QED
  BY <1>1, NothingDisturbs, PTL

\* As long as nobody dies, the lock is a lock: two processes never hold it,
\* because nobody is ever on the way to a takeover.
THEOREM ExclusiveWithoutDeaths ==
    ASSUME MaxDeaths = 0 PROVE Spec => []MutualExclusion
<1> DEFINE Calm == ~strayed /\ \A p \in Procs : Alive(p)
<1>1. Init => Calm
  BY DEF Init, Alive
<1>2. TypeOK /\ TakersInv /\ Calm /\ [Next]_vars => Calm'
  <2> SUFFICES ASSUME TypeOK, TakersInv, Calm, [Next]_vars PROVE Calm'
    OBVIOUS
  <2>1. \A p \in Procs : ~Die(p)
    <3>1. { q \in Procs : ~Alive(q) } = {}
      OBVIOUS
    <3>2. Cardinality({ q \in Procs : ~Alive(q) }) = 0
      BY <3>1, FS_EmptySet
    <3> QED
      BY <3>2 DEF Die
  <2>2. \A p \in Procs : ~Remove(p)
    <3>1. \A p \in Procs : pc[p] # "remove"
      BY DEF TakersInv, Dead, TypeOK, Files
    <3> QED
      BY <3>1 DEF Remove, Is
  <2>3. ASSUME NEW p \in Procs, TryCreate(p) \/ Step(p) \/ WriteFails(p) PROVE Calm'
    <3>1. strayed' = strayed /\ \E to \in Places \ {"dead"} : Goto(p, to)
      BY <2>2, <2>3 DEF Step, TryCreate, Look, LookAgain, Recreate, WriteOwner, WriteFails,
                        Release, Unlink, Exclusive, At, Is, GiveUp, Places
    <3> QED
      BY <3>1, Moves DEF Alive
  <2>4. CASE UNCHANGED vars
    BY <2>4 DEF vars, Alive
  <2> QED
    BY <2>1, <2>3, <2>4 DEF Next
<1> HIDE DEF Calm
<1>3. Spec => []~strayed
  <2>1. Calm => ~strayed
    BY DEF Calm
  <2> QED
    BY <1>1, <1>2, <2>1, NothingDisturbs, TypeCorrect, PTL DEF Spec
<1> QED
  BY <1>3, ExclusiveUnlessStrayed, PTL

=============================================================================
