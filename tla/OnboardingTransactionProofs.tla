--------------------- MODULE OnboardingTransactionProofs ---------------------
(***************************************************************************)
(* The type and the clean rollback of OnboardingTransaction, for every     *)
(* plan, every number of crashes and whatever the owner of the root does.  *)
(* The invariant says where an entry of ours may be in the journal:        *)
(* recorded, or intended and not yet recorded; and that a rollback starts  *)
(* only when nothing is in the second state, and nothing is created then.  *)
(***************************************************************************)
EXTENDS MCOnboardingTransaction, SequenceTheorems, FiniteSetTheorems, WellFoundedInduction, TLAPS

Events == [type : Types, path : Paths \cup {NoPath}]
Targets == { Plan[n] : n \in DOMAIN Plan }

-----------------------------------------------------------------------------
(* The journal, and the first and the last of a set of operations.         *)

LEMMA LogEffect ==
    ASSUME events \in Seq(Events), NEW type \in Types, NEW path \in Paths \cup {NoPath},
           Log(type, path)
    PROVE  /\ events' \in Seq(Events)
           /\ \A t \in Types : Of(t)' = IF t = type THEN Of(t) \cup {path} ELSE Of(t)
           /\ \A t \in Types : Seen(t)' <=> Seen(t) \/ t = type
<1> DEFINE e == [type |-> type, path |-> path]
           n == Len(events)
<1>1. e \in Events /\ e.type = type /\ e.path = path
    BY DEF Events
<1> HIDE DEF e
<1>2. /\ events' = Append(events, e) /\ events' \in Seq(Events) /\ n \in Nat
      /\ DOMAIN events = 1 .. n /\ DOMAIN events' = 1 .. (n + 1)
      /\ \A i \in 1 .. n : events'[i] = events[i]
      /\ events'[n + 1] = e
    <2>1. events' = Append(events, e)
        BY DEF Log, e
    <2> QED BY <1>1, <2>1, AppendProperties
<1>3. ASSUME NEW t \in Types
      PROVE  /\ Of(t)' = IF t = type THEN Of(t) \cup {path} ELSE Of(t)
             /\ Seen(t)' <=> Seen(t) \/ t = type
    <2>1. { m \in DOMAIN events' : events'[m].type = t } =
             { m \in 1 .. n : events[m].type = t } \cup (IF t = type THEN {n + 1} ELSE {})
        <3>1. \A m : m \in 1 .. (n + 1) <=> (m \in 1 .. n \/ m = n + 1)
            BY <1>2
        <3>2. n + 1 \notin 1 .. n
            BY <1>2
        <3> HIDE DEF n
        <3> QED BY <1>1, <1>2, <3>1, <3>2
    <2>2. Of(t)' = { events'[m].path : m \in { k \in DOMAIN events' : events'[k].type = t } }
        BY DEF Of
    <2>3. Of(t) = { events[m].path : m \in { k \in 1 .. n : events[k].type = t } }
        BY <1>2 DEF Of
    <2>4. \A m \in { k \in 1 .. n : events[k].type = t } : events'[m].path = events[m].path
        BY <1>2
    <2>5. Of(t)' = IF t = type THEN Of(t) \cup {path} ELSE Of(t)
        <3> HIDE DEF n
        <3> QED BY <1>1, <1>2, <2>1, <2>2, <2>3, <2>4
    <2>6. Seen(t)' <=> Seen(t) \/ t = type
        <3>1. Seen(t) <=> \E m \in 1 .. n : events[m].type = t
            BY <1>2 DEF Seen
        <3>2. Seen(t)' <=> \E m \in 1 .. (n + 1) : events'[m].type = t
            BY <1>2 DEF Seen
        <3>3. \A m : m \in 1 .. (n + 1) <=> (m \in 1 .. n \/ m = n + 1)
            BY <1>2
        <3> HIDE DEF n
        <3> QED BY <1>1, <1>2, <3>1, <3>2, <3>3
    <2> QED BY <2>5, <2>6
<1> QED BY <1>2, <1>3

\* A set of operations that is not empty has a first one, and a last one.
LEMMA SmallestOf ==
    ASSUME NEW S \in SUBSET Nat, S # {}
    PROVE  \E n \in S : \A m \in S : n <= m
<1>1. PICK n \in S : \A m \in S : ~(<<m, n>> \in OpToRel(<, Nat))
    BY WFMin, NatLessThanWellFounded
<1>2. ASSUME NEW m \in S PROVE n <= m
    <2>1. m \in Nat /\ n \in Nat
        BY <1>2
    <2>3. ~(<<m, n>> \in OpToRel(<, Nat))
        BY <1>1, <1>2
    <2>2. ~(m < n)
        BY <2>1, <2>3 DEF OpToRel
    <2> QED BY <2>1, <2>2
<1> QED BY <1>2

PlanLen == Len(Plan)
LEMMA PlanIs == PlanLen \in Nat /\ DOMAIN Plan = 1 .. PlanLen /\ Targets \subseteq Paths
                /\ \A n \in DOMAIN Plan : Plan[n] \in Paths
BY PlanAssumption DEF PlanAssumption, PlanLen, Targets

LEMMA FirstIs ==
    ASSUME NEW S \in SUBSET (DOMAIN Plan), S # {}
    PROVE  \E n \in S : First(S) = Plan[n]
<1>1. \E n \in S : \A m \in S : n <= m
    BY PlanIs, SmallestOf
<1> QED BY <1>1 DEF First

LEMMA NextDownIs ==
    ASSUME Done # {}
    PROVE  \E n \in Done : NextDown = Plan[n]
<1>1. Done \subseteq 1 .. PlanLen /\ PlanLen \in Nat
    BY PlanIs DEF Done
<1> DEFINE S == { PlanLen - n : n \in Done }
<1>2. S \subseteq Nat /\ S # {}
    BY <1>1
<1>3. PICK k \in S : \A m \in S : k <= m
    <2> HIDE DEF S
    <2> QED BY <1>2, SmallestOf
<1>4. PICK n \in Done : k = PlanLen - n
    BY <1>3
<1>5. ASSUME NEW m \in Done PROVE m <= n
    <2>1. PlanLen - n <= PlanLen - m
        BY <1>3, <1>4, <1>5
    <2> QED BY <1>1, <1>4, <1>5, <2>1
<1>6. \E x \in Done : \A m \in Done : m <= x
    BY <1>4, <1>5
<1> QED BY <1>6 DEF NextDown

-----------------------------------------------------------------------------
(* The invariant.                                                          *)

MakersInv ==
    \A p \in Paths :
      /\ Missing(p) => disk[p].maker \notin {"us", "owner"}
      /\ disk[p].maker = "owner" => ~disk[p].same
      /\ disk[p].maker = "us" =>
           p \in Created \/ (p \in Targets /\ p \in Of("intent") /\ p \notin Of("removed"))

JournalInv ==
    /\ Of("created") \subseteq Targets
    /\ RollingBack => ~Uncertain
    /\ Seen("rolled_back") => RollingBack /\ \A p \in Paths : disk[p].maker # "us"

CallInv ==
    /\ proc.at \in {"intend", "create", "record"} \/ proc.mode = "finish" => ~RollingBack
    /\ proc.at \in {"create", "record"} => Left # {} /\ NextUp \in Of("intent")
    /\ proc.at = "resume" => proc.mode \in {"finish", "rollback"}
    /\ proc.at = "inspect" => proc.mode = "rollback"
    /\ proc.at \in {"remove", "unlink", "unlinked"} => RollingBack /\ proc.mode = "rollback"
    /\ proc.at \in {"unlink", "unlinked"} => Done # {}
    /\ proc.at = "unlinked" => disk[NextDown].maker # "us"

\* What the owner leaves, or finds in the beginning, is his or nothing.
IsHis(entry) ==
    entry.maker # "us" /\ ~entry.same /\ (entry.body = "missing" => entry.maker # "owner")

TransInv == TypeOK /\ MakersInv /\ JournalInv /\ CallInv

\* What the journal says stays when it is not written, and where a call then is
\* among its operations.
LEMMA SameJournal ==
    ASSUME events' = events
    PROVE  /\ \A t : Of(t)' = Of(t) /\ (Seen(t)' <=> Seen(t))
           /\ Created' = Created /\ Left' = Left /\ Done' = Done
           /\ (RollingBack' <=> RollingBack) /\ (Uncertain' <=> Uncertain)
           /\ NextUp' = NextUp /\ NextDown' = NextDown
BY DEF Of, Seen, Created, Left, Done, RollingBack, Uncertain, NextUp, NextDown, First

LEMMA LogStep ==
    ASSUME TypeOK, NEW type \in Types, NEW path \in Paths \cup {NoPath}, Log(type, path)
    PROVE  /\ events' \in Seq(Events)
           /\ Of("intent")' = IF type = "intent" THEN Of("intent") \cup {path} ELSE Of("intent")
           /\ Of("created")' = IF type = "created" THEN Of("created") \cup {path} ELSE Of("created")
           /\ Of("removed")' = IF type = "removed" THEN Of("removed") \cup {path} ELSE Of("removed")
           /\ RollingBack' <=> RollingBack \/ type \in {"rollback_started", "remove_intent", "removed"}
           /\ Seen("rolled_back")' <=> Seen("rolled_back") \/ type = "rolled_back"
           /\ type \notin {"created", "removed"} =>
                /\ Created' = Created /\ Left' = Left /\ Done' = Done
                /\ NextUp' = NextUp /\ NextDown' = NextDown
<1>1. events \in Seq(Events)
    BY DEF TypeOK, Events
<1>2. /\ events' \in Seq(Events)
      /\ \A t \in Types : Of(t)' = IF t = type THEN Of(t) \cup {path} ELSE Of(t)
      /\ \A t \in Types : Seen(t)' <=> Seen(t) \/ t = type
    BY <1>1, LogEffect
<1>3. /\ Of("intent")' = IF type = "intent" THEN Of("intent") \cup {path} ELSE Of("intent")
      /\ Of("created")' = IF type = "created" THEN Of("created") \cup {path} ELSE Of("created")
      /\ Of("removed")' = IF type = "removed" THEN Of("removed") \cup {path} ELSE Of("removed")
      /\ RollingBack' <=> RollingBack \/ type \in {"rollback_started", "remove_intent", "removed"}
      /\ Seen("rolled_back")' <=> Seen("rolled_back") \/ type = "rolled_back"
    BY <1>2 DEF Types, RollingBack
<1>4. ASSUME type \notin {"created", "removed"}
      PROVE  /\ Created' = Created /\ Left' = Left /\ Done' = Done
             /\ NextUp' = NextUp /\ NextDown' = NextDown
    <2>1. Created' = Created
        BY <1>3, <1>4 DEF Created
    <2> QED BY <2>1 DEF Left, Done, NextUp, NextDown, First
<1> QED BY <1>2, <1>3, <1>4

\* The operation that is next is one of the plan.
LEMMA NextUpIs == Left # {} => \E n \in Left : NextUp = Plan[n] /\ NextUp \in Targets \cap Paths
<1>1. Left \in SUBSET (DOMAIN Plan)
    BY DEF Left
<1>2. Left # {} => \E n \in Left : NextUp = Plan[n]
    BY <1>1, FirstIs DEF NextUp
<1> QED BY <1>1, <1>2, PlanIs DEF Targets

LEMMA DownIs == Done # {} => NextDown \in Created \cap Targets \cap Paths
BY NextDownIs, PlanIs DEF Done, Targets

LEMMA InitInv == Init => TransInv
<1> SUFFICES ASSUME Init PROVE TransInv
    OBVIOUS
<1>1. \A t : Of(t) = {} /\ ~Seen(t)
    BY DEF Init, Of, Seen
<1>4. ASSUME NEW p \in Paths
      PROVE  disk[p] \in Nodes /\ IsHis(disk[p])
    <2>1. Before[p] \in {"missing", "dir", "planned", "other"}
        BY PlanAssumption DEF PlanAssumption
    <2>2. CASE Before[p] = "missing"
        BY <2>2 DEF Init, Nothing, Nodes, IsHis
    <2>3. CASE Before[p] # "missing"
        BY <2>1, <2>3 DEF Init, Nodes, IsHis
    <2> QED BY <2>2, <2>3
<1>2. TypeOK
    <2>1. disk \in [Paths -> Nodes]
        BY <1>4 DEF Init
    <2> QED BY <2>1, EmptySeq DEF Init, TypeOK, Idle
<1>3. ~RollingBack /\ proc = Idle
    BY <1>1 DEF RollingBack, Init
<1> QED BY <1>1, <1>2, <1>3, <1>4
    DEF TransInv, MakersInv, JournalInv, CallInv, Idle, Missing, IsHis

-----------------------------------------------------------------------------
(* Every step.                                                             *)

\* A step that writes nothing to the journal, and creates nothing.
LEMMA QuietInv ==
    ASSUME TransInv, TypeOK', events' = events, CallInv',
           \A p \in Paths : /\ disk'[p].maker = "us" => disk[p].maker = "us"
                            /\ Missing(p)' => disk'[p].maker \notin {"us", "owner"}
                            /\ disk'[p].maker = "owner" => ~disk'[p].same
    PROVE  TransInv'
<1>1. MakersInv'
    BY SameJournal DEF TransInv, MakersInv
<1>2. JournalInv'
    BY SameJournal DEF TransInv, JournalInv
<1> QED BY <1>1, <1>2 DEF TransInv

Modes == {"none", "apply", "finish", "rollback"}
Ats == {"idle", "journal", "check", "intend", "create", "record", "resume", "inspect",
        "remove", "unlink", "unlinked"}

LEMMA ProcSteps ==
    ASSUME TypeOK
    PROVE  /\ proc.mode \in Modes /\ proc.at \in Ats
           /\ \A at \in Ats : Goto(at) => proc'.at = at /\ proc'.mode = proc.mode
           /\ \A at \in Ats \ {"idle"} : Goto(at) /\ proc.mode # "none" =>
                 /\ proc' \in [mode : Modes, at : Ats]
                 /\ (proc'.mode = "none" <=> proc'.at = "idle")
           /\ Leave => /\ proc' \in [mode : Modes, at : Ats] /\ proc'.mode = "none" /\ proc'.at = "idle"
BY DEF TypeOK, Modes, Ats, Goto, Leave, Idle

LEMMA BeginInv ==
    ASSUME TransInv,
           BeginApply \/ BeginRecover("finish") \/ BeginRecover("rollback") \/ Crash
    PROVE  TransInv'
<1>0. torn \in BOOLEAN /\ used \in [crashes : Nat, edits : Nat]
    BY DEF TransInv, TypeOK
<1>1. UNCHANGED <<disk, baseline, events>> /\ torn' \in BOOLEAN
      /\ used' \in [crashes : Nat, edits : Nat]
    <2>1. CASE Crash
        <3>1. used' = [used EXCEPT !.crashes = @ + 1] /\ torn' \in {torn, TRUE}
              /\ UNCHANGED <<disk, baseline, events>>
            BY <2>1 DEF Crash
        <3>2. torn' \in BOOLEAN
            BY <1>0, <3>1
        <3>3. used' \in [crashes : Nat, edits : Nat]
            BY <1>0, <3>1
        <3> QED BY <3>1, <3>2, <3>3
    <2>2. CASE BeginApply
        BY <1>0, <2>2 DEF BeginApply
    <2>3. ASSUME NEW mode, BeginRecover(mode)
          PROVE  UNCHANGED <<disk, baseline, events, torn, used>>
        BY <2>3 DEF BeginRecover
    <2> QED BY <1>0, <2>1, <2>2, <2>3
<1>2. /\ proc' \in [mode : Modes, at : Ats]
      /\ (proc'.mode = "none" <=> proc'.at = "idle")
      /\ proc'.at \in {"idle", "journal", "check", "resume"}
      /\ proc'.at = "resume" => proc'.mode \in {"finish", "rollback"}
      /\ proc'.mode = "finish" => ~RollingBack
    <2>1. CASE Crash
        BY <2>1 DEF Crash, Idle, Modes, Ats
    <2>2. CASE BeginApply
        BY <2>2 DEF BeginApply, Modes, Ats
    <2>3. ASSUME NEW mode \in {"finish", "rollback"}, BeginRecover(mode)
          PROVE  /\ proc' = [mode |-> mode, at |-> "resume"]
                 /\ mode = "finish" => ~RollingBack
        BY <2>3 DEF BeginRecover
    <2>4. CASE BeginRecover("finish") \/ BeginRecover("rollback")
        BY <2>3, <2>4 DEF Modes, Ats
    <2> QED BY <2>1, <2>2, <2>4
<1>3. TypeOK'
    BY <1>1, <1>2 DEF TransInv, TypeOK, Modes, Ats
<1>4. CallInv'
    BY <1>1, <1>2, SameJournal DEF CallInv
<1> QED BY <1>1, <1>3, <1>4, QuietInv DEF TransInv, MakersInv, Missing

LEMMA EditIs ==
    ASSUME NEW p \in Paths, Edit(p)
    PROVE  \E new \in Nodes : disk' = [disk EXCEPT ![p] = new] /\ IsHis(new)
<1>1. ASSUME NEW body \in Contents(p),
             disk' = [disk EXCEPT ![p] = [body |-> body, maker |-> "owner", same |-> FALSE]]
      PROVE  \E new \in Nodes : disk' = [disk EXCEPT ![p] = new] /\ IsHis(new)
    <2> DEFINE new == [body |-> body, maker |-> "owner", same |-> FALSE]
    <2>1. new \in Nodes /\ IsHis(new)
        BY DEF Contents, Nodes, IsHis
    <2> QED BY <1>1, <2>1
<1>2. CASE disk' = [disk EXCEPT ![p] = Nothing]
    <2>1. Nothing \in Nodes /\ IsHis(Nothing)
        BY DEF Nothing, Nodes, IsHis
    <2> QED BY <1>2, <2>1
<1> QED BY <1>1, <1>2 DEF Edit

LEMMA EditInv ==
    ASSUME TransInv, NEW p \in Paths, Edit(p)
    PROVE  TransInv'
<1>1. /\ UNCHANGED <<baseline, events, torn, proc>>
      /\ used' \in [crashes : Nat, edits : Nat]
    BY DEF Edit, TransInv, TypeOK
<1>2. PICK new \in Nodes : disk' = [disk EXCEPT ![p] = new] /\ IsHis(new)
    BY EditIs
<1>3. /\ disk' \in [Paths -> Nodes]
      /\ \A q \in Paths : disk'[q] = IF q = p THEN new ELSE disk[q]
    BY <1>2 DEF TransInv, TypeOK
<1>4. TypeOK'
    BY <1>1, <1>3 DEF TransInv, TypeOK
<1>5. \A q \in Paths : /\ disk'[q].maker = "us" => disk[q].maker = "us"
                       /\ Missing(q)' => disk'[q].maker \notin {"us", "owner"}
                       /\ disk'[q].maker = "owner" => ~disk'[q].same
    BY <1>2, <1>3 DEF TransInv, MakersInv, Missing, IsHis
<1>6. CallInv'
    <2>1. Done # {} => NextDown \in Paths
        BY DownIs
    <2> QED BY <1>1, <1>5, <2>1, SameJournal DEF TransInv, CallInv
<1> QED BY <1>1, <1>4, <1>5, <1>6, QuietInv

LEMMA ApplyInv ==
    ASSUME TransInv, WriteJournal \/ CheckApply
    PROVE  TransInv'
<1>1. /\ UNCHANGED <<disk, events, torn, used>>
      /\ baseline' = baseline \/ baseline' = Bodies
      /\ proc.mode # "none"
      /\ Leave \/ Goto("check") \/ (Goto("intend") /\ events = <<>>)
    BY DEF WriteJournal, CheckApply, LeaveAsIs, At, TransInv, TypeOK
<1>2. ~RollingBack \/ events # <<>>
    BY DEF RollingBack, Seen
<1>3. TypeOK'
    <2>1. Bodies \in [Paths -> {"missing", "dir", "planned", "other"}]
        BY DEF TransInv, TypeOK, Bodies, Nodes
    <2> QED BY <1>1, <2>1, ProcSteps DEF TransInv, TypeOK, Modes, Ats
<1>4. CallInv'
    BY <1>1, <1>2, SameJournal, ProcSteps DEF TransInv, CallInv, Ats
<1> QED BY <1>1, <1>3, <1>4, QuietInv DEF TransInv, MakersInv, Missing

LEMMA IntendInv ==
    ASSUME TransInv, Intend
    PROVE  TransInv'
<1>1. /\ proc.at = "intend" /\ UNCHANGED <<disk, baseline, torn, used>> /\ ~RollingBack
      /\ proc.mode # "none" /\ TypeOK
    BY DEF Intend, At, JournalOnly, TransInv, CallInv, TypeOK
<1>2. CASE events' = events /\ Leave
    <2>1. TypeOK'
        BY <1>1, <1>2, ProcSteps DEF TypeOK, Modes, Ats
    <2>2. CallInv'
        BY <1>1, <1>2, ProcSteps DEF CallInv
    <2> QED BY <1>1, <1>2, <2>1, <2>2, QuietInv DEF TransInv, MakersInv, Missing
<1>3. CASE AllMade /\ Log("completed", NoPath) /\ Leave
    <2>1. "completed" \in Types
        BY DEF Types
    <2>2. /\ events' \in Seq(Events) /\ Of("intent")' = Of("intent") /\ Of("created")' = Of("created")
          /\ Of("removed")' = Of("removed") /\ ~RollingBack'
          /\ (Seen("rolled_back")' <=> Seen("rolled_back")) /\ Created' = Created /\ Left' = Left
        BY <1>1, <1>3, <2>1, LogStep
    <2>3. TypeOK'
        BY <1>1, <1>3, <2>2, ProcSteps DEF TypeOK, Modes, Ats, Events
    <2>4. CallInv'
        BY <1>1, <1>3, ProcSteps DEF CallInv
    <2>5. MakersInv' /\ JournalInv'
        BY <1>1, <2>2 DEF TransInv, MakersInv, JournalInv, Missing
    <2> QED BY <2>3, <2>4, <2>5 DEF TransInv
<1>4. CASE /\ Left # {} /\ Goto("create")
           /\ IF NextUp \in Of("intent") THEN events' = events ELSE Log("intent", NextUp)
    <2>1. "intent" \in Types /\ NextUp \in Paths
        BY <1>4, NextUpIs DEF Types
    <2>2. /\ events' \in Seq(Events) /\ Of("intent")' = Of("intent") \cup {NextUp}
          /\ Of("created")' = Of("created")
          /\ Of("removed")' = Of("removed") /\ ~RollingBack' /\ NextUp' = NextUp
          /\ (Seen("rolled_back")' <=> Seen("rolled_back")) /\ Created' = Created /\ Left' = Left
        <3>1. CASE events' = events /\ NextUp \in Of("intent")
            BY <1>1, <3>1, SameJournal DEF TypeOK, Events
        <3>2. CASE Log("intent", NextUp)
            BY <1>1, <2>1, <3>2, LogStep
        <3> QED BY <1>4, <3>1, <3>2
    <2>3. TypeOK'
        BY <1>1, <1>4, <2>2, ProcSteps DEF TypeOK, Modes, Ats, Events
    <2>4. CallInv'
        BY <1>1, <1>4, <2>2, ProcSteps DEF CallInv, Ats
    <2>5. MakersInv' /\ JournalInv'
        BY <1>1, <2>2 DEF TransInv, MakersInv, JournalInv, Missing
    <2> QED BY <2>3, <2>4, <2>5 DEF TransInv
<1> QED BY <1>2, <1>3, <1>4 DEF Intend, AllMade

LEMMA CreateInv ==
    ASSUME TransInv, Create
    PROVE  TransInv'
<1>1. /\ proc.at = "create" /\ UNCHANGED <<baseline, events, torn, used>> /\ ~RollingBack
      /\ proc.mode # "none" /\ TypeOK /\ Left # {} /\ NextUp \in Of("intent")
      /\ NextUp \in Targets \cap Paths
    BY NextUpIs DEF Create, At, DiskOnly, TransInv, CallInv, TypeOK
<1>2. CASE disk' = disk /\ Leave
    <2>1. TypeOK'
        BY <1>1, <1>2, ProcSteps DEF TypeOK, Modes, Ats
    <2>2. CallInv'
        BY <1>1, <1>2, ProcSteps DEF CallInv
    <2> QED BY <1>1, <1>2, <2>1, <2>2, QuietInv DEF TransInv, MakersInv, Missing
<1>3. CASE /\ disk' = [disk EXCEPT ![NextUp] =
                          [body |-> Planned(NextUp), maker |-> "us", same |-> FALSE]]
           /\ Goto("record")
    <2> DEFINE new == [body |-> Planned(NextUp), maker |-> "us", same |-> FALSE]
    <2>1. new \in Nodes /\ new.body # "missing" /\ new.maker = "us"
        BY DEF Planned, Nodes
    <2>2. disk' \in [Paths -> Nodes] /\ \A p \in Paths : disk'[p] = IF p = NextUp THEN new ELSE disk[p]
        BY <1>1, <1>3, <2>1 DEF TypeOK
    <2> HIDE DEF new
    <2>3. TypeOK'
        BY <1>1, <1>3, <2>2, ProcSteps DEF TypeOK, Modes, Ats
    <2>4. CallInv'
        BY <1>1, <1>3, ProcSteps, SameJournal DEF CallInv, Ats
    <2>5. NextUp \notin Of("removed")
        BY <1>1 DEF RollingBack, Of, Seen
    <2>6. MakersInv'
        BY <1>1, <2>1, <2>2, <2>5, SameJournal DEF TransInv, MakersInv, Missing
    <2>7. JournalInv'
        BY <1>1, SameJournal DEF TransInv, JournalInv
    <2> QED BY <2>3, <2>4, <2>6, <2>7 DEF TransInv
<1> QED BY <1>2, <1>3 DEF Create

\* A record changes neither contents nor what is the call's own; what it takes
\* from the owner is his no more.
Recorded ==
    disk' = [disk EXCEPT ![NextUp] = [body |-> @.body, same |-> TRUE,
                                      maker |-> IF @.maker = "owner" THEN "taken" ELSE @.maker]]
LEMMA RecordedIs ==
    ASSUME disk \in [Paths -> Nodes], NextUp \in Paths, Recorded
    PROVE  /\ disk' \in [Paths -> Nodes]
           /\ \A p \in Paths : /\ disk'[p].maker = "us" <=> disk[p].maker = "us"
                               /\ disk'[p].body = disk[p].body
                               /\ disk'[p] = disk[p] \/ disk'[p].maker # "owner"
<1> DEFINE maker == IF disk[NextUp].maker = "owner" THEN "taken" ELSE disk[NextUp].maker
           new == [body |-> disk[NextUp].body, same |-> TRUE, maker |-> maker]
<1>1. disk[NextUp] \in Nodes
    OBVIOUS
<1>2. /\ new \in Nodes /\ new.body = disk[NextUp].body /\ new.maker # "owner"
      /\ new.maker = "us" <=> disk[NextUp].maker = "us"
    BY <1>1 DEF Nodes
<1>3. disk' = [disk EXCEPT ![NextUp] = new]
    BY DEF Recorded
<1> HIDE DEF new
<1> QED BY <1>2, <1>3

LEMMA RecordInv ==
    ASSUME TransInv, Record
    PROVE  TransInv'
<1>1. /\ proc.at = "record" /\ UNCHANGED <<baseline, torn, used>> /\ ~RollingBack
      /\ proc.mode # "none" /\ TypeOK /\ Left # {} /\ NextUp \in Targets \cap Paths
    BY NextUpIs DEF Record, At, TransInv, CallInv, TypeOK
<1>2. CASE disk' = disk /\ events' = events /\ Leave
    <2>1. TypeOK'
        BY <1>1, <1>2, ProcSteps DEF TypeOK, Modes, Ats
    <2>2. CallInv'
        BY <1>1, <1>2, ProcSteps DEF CallInv
    <2> QED BY <1>1, <1>2, <2>1, <2>2, QuietInv DEF TransInv, MakersInv, Missing
<1>3. CASE Log("created", NextUp) /\ Recorded /\ Goto("intend")
    <2>1. "created" \in Types
        BY DEF Types
    <2>2. /\ events' \in Seq(Events) /\ Of("intent")' = Of("intent")
          /\ Of("created")' = Of("created") \cup {NextUp}
          /\ Of("removed")' = Of("removed") /\ ~RollingBack'
          /\ (Seen("rolled_back")' <=> Seen("rolled_back"))
        BY <1>1, <1>3, <2>1, LogStep
    <2>3. /\ disk' \in [Paths -> Nodes]
          /\ \A p \in Paths : /\ disk'[p].maker = "us" <=> disk[p].maker = "us"
                              /\ disk'[p].body = disk[p].body
                              /\ disk'[p].maker = "owner" => disk'[p] = disk[p] /\ ~disk'[p].same
        <3>1. disk \in [Paths -> Nodes] /\ NextUp \in Paths /\ Recorded
            BY <1>1, <1>3 DEF TypeOK
        <3> QED BY <3>1, RecordedIs DEF TransInv, MakersInv
    <2>4. TypeOK'
        BY <1>1, <1>3, <2>2, <2>3, ProcSteps DEF TypeOK, Modes, Ats, Events
    <2>5. CallInv'
        BY <1>1, <1>3, <2>2, ProcSteps DEF CallInv, Ats
    <2>6. Created \subseteq Created'
        BY <2>2 DEF Created
    <2>7. MakersInv'
        BY <2>2, <2>3, <2>6 DEF TransInv, MakersInv, Missing
    <2>8. JournalInv'
        BY <1>1, <2>2 DEF TransInv, JournalInv
    <2> QED BY <2>4, <2>5, <2>7, <2>8 DEF TransInv
<1> QED BY <1>2, <1>3 DEF Record, Recorded

\* What was removed is gone: its record takes away nothing but that.
LEMMA RemovedInv ==
    ASSUME TransInv, NEW p \in Paths, p \in Created, disk[p].maker # "us", Log("removed", p),
           RollingBack, UNCHANGED disk, TypeOK', CallInv'
    PROVE  TransInv'
<1>1. "removed" \in Types /\ TypeOK
    BY DEF Types, TransInv
<1>2. /\ Of("intent")' = Of("intent") /\ Of("created")' = Of("created")
      /\ Of("removed")' = Of("removed") \cup {p} /\ RollingBack'
      /\ (Seen("rolled_back")' <=> Seen("rolled_back"))
    BY <1>1, LogStep
<1>3. MakersInv'
    BY <1>2 DEF TransInv, MakersInv, Missing, Created
<1>4. ~Uncertain'
    <2>1. ~Uncertain
        BY DEF TransInv, JournalInv
    <2>2. ASSUME NEW n \in DOMAIN Plan, Plan[n] \notin Created', Plan[n] \in Of("intent")' \ Of("removed")'
          PROVE  FALSE
        <3>1. Plan[n] \notin Created /\ Plan[n] \in Of("intent") \ Of("removed")
            BY <1>2, <2>2 DEF Created
        <3> QED BY <2>1, <3>1 DEF Uncertain, Left
    <2> QED BY <2>2 DEF Uncertain, Left
<1>5. JournalInv'
    BY <1>2, <1>4 DEF TransInv, JournalInv
<1> QED BY <1>3, <1>5 DEF TransInv

LEMMA RecoverInv ==
    ASSUME TransInv, Resume \/ Verify
    PROVE  TransInv'
<1>0. TypeOK /\ proc.at = "resume" /\ proc.mode # "none" /\ proc.mode \in Modes
    BY DEF Resume, Verify, At, TransInv, TypeOK, Modes
<1>1. CASE Resume
    <2> DEFINE p == First(Resumable)
    <2>1. /\ UNCHANGED <<disk, baseline, proc, torn, used>> /\ Log("removed", p)
          /\ Resumable # {}
        BY <1>1 DEF Resume, At, JournalOnly
    <2>2. PICK n \in Resumable : p = Plan[n]
        BY <2>1, FirstIs DEF Resumable, Done
    <2>3. /\ p \in Created /\ p \in Paths /\ Missing(p) /\ p \in Of("remove_intent")
        BY <2>2, PlanIs DEF Resumable, Done
    <2>4. RollingBack /\ disk[p].maker # "us"
        BY <2>3 DEF RollingBack, Of, Seen, TransInv, MakersInv
    <2> HIDE DEF p
    <2>5. events' \in Seq(Events) /\ RollingBack'
        BY <1>0, <2>1, <2>3, LogStep DEF Types
    <2>6. TypeOK'
        BY <1>0, <2>1, <2>5 DEF TypeOK, Events
    <2>7. CallInv'
        BY <1>0, <2>1, <2>4 DEF TransInv, CallInv
    <2> QED BY <2>1, <2>3, <2>4, <2>6, <2>7, RemovedInv
<1>2. CASE Verify
    <2>1. /\ UNCHANGED <<disk, baseline, events, torn, used>>
          /\ \/ Leave \/ (Goto("inspect") /\ proc.mode = "rollback")
             \/ (Goto("intend") /\ proc.mode # "rollback")
        BY <1>2 DEF Verify, At
    <2>2. TypeOK'
        BY <1>0, <2>1, ProcSteps DEF TypeOK, Modes, Ats
    <2>3. proc.mode \in {"finish", "rollback"}
        BY <1>0 DEF TransInv, CallInv
    <2>4. CallInv'
        BY <1>0, <2>1, <2>3, SameJournal, ProcSteps DEF TransInv, CallInv, Ats
    <2> QED BY <2>1, <2>2, <2>4, QuietInv DEF TransInv, MakersInv, Missing
<1> QED BY <1>1, <1>2

LEMMA RollbackInv ==
    ASSUME TransInv, Inspect \/ Remove \/ Unlink \/ Unlinked
    PROVE  TransInv'
<1>0. /\ TypeOK /\ proc.mode = "rollback" /\ UNCHANGED <<baseline, torn, used>>
      /\ proc.at \in {"inspect", "remove", "unlink", "unlinked"}
      /\ proc.at # "inspect" => RollingBack
    BY DEF Inspect, Remove, Unlink, Unlinked, At, JournalOnly, DiskOnly, TransInv, CallInv
<1>1. CASE /\ UNCHANGED <<disk, events>>
           /\ Leave \/ (Goto("remove") /\ RollingBack)
    <2>1. TypeOK'
        BY <1>0, <1>1, ProcSteps DEF TypeOK, Modes, Ats
    <2>2. CallInv'
        BY <1>0, <1>1, SameJournal, ProcSteps DEF CallInv, Ats
    <2> QED BY <1>1, <2>1, <2>2, QuietInv DEF TransInv, MakersInv, Missing
<1>2. ASSUME NEW type \in {"rollback_started", "rolled_back", "remove_intent"},
             NEW path \in Paths \cup {NoPath}, Log(type, path), disk' = disk, ~Uncertain,
             type # "rollback_started" => RollingBack,
             \/ type = "rolled_back" /\ Created = {} /\ Leave
             \/ type = "rollback_started" /\ Goto("remove")
             \/ type = "remove_intent" /\ Done # {} /\ Goto("unlink")
      PROVE  TransInv'
    <2>1. type \in Types
        BY DEF Types
    <2>2. /\ events' \in Seq(Events) /\ Of("intent")' = Of("intent")
          /\ Of("created")' = Of("created") /\ Of("removed")' = Of("removed")
          /\ RollingBack' /\ (Seen("rolled_back")' <=> Seen("rolled_back") \/ type = "rolled_back")
          /\ Created' = Created /\ Left' = Left /\ Done' = Done
        BY <1>0, <1>2, <2>1, LogStep
    <2>3. TypeOK'
        BY <1>0, <1>2, <2>2, ProcSteps DEF TypeOK, Modes, Ats, Events
    <2>4. CallInv'
        BY <1>0, <1>2, <2>2, ProcSteps DEF CallInv, Ats
    <2>5. MakersInv' /\ ~Uncertain'
        BY <1>2, <2>2 DEF TransInv, MakersInv, Missing, Uncertain
    <2>6. type = "rolled_back" => \A p \in Paths : disk[p].maker # "us"
        <3>1. ASSUME NEW p \in Paths, disk[p].maker = "us", Created = {} PROVE FALSE
            <4>1. p \in Targets /\ p \in Of("intent") \ Of("removed")
                BY <3>1 DEF TransInv, MakersInv
            <4>2. PICK n \in DOMAIN Plan : Plan[n] = p
                BY <4>1 DEF Targets
            <4> QED BY <1>2, <3>1, <4>1, <4>2 DEF Uncertain, Left
        <3> QED BY <1>2, <3>1
    <2>7. JournalInv'
        BY <1>2, <2>2, <2>5, <2>6 DEF TransInv, JournalInv
    <2> QED BY <2>3, <2>4, <2>5, <2>7 DEF TransInv
<1>3. CASE Inspect
    <2>1. UNCHANGED <<disk>> /\ (Uncertain => events' = events /\ Leave)
        BY <1>3 DEF Inspect, JournalOnly
    <2>2. \/ events' = events /\ (Leave \/ (Goto("remove") /\ RollingBack))
          \/ ~Uncertain /\ Log("rollback_started", NoPath) /\ Goto("remove")
        BY <1>3 DEF Inspect
    <2> QED BY <1>1, <1>2, <2>1, <2>2
<1>4. CASE Remove
    <2>1. /\ disk' = disk /\ ~Uncertain /\ RollingBack
          /\ Created # {} => Done # {}
        <3>1. RollingBack /\ disk' = disk
            BY <1>0, <1>4 DEF Remove, At, JournalOnly
        <3>2. Created \subseteq Targets /\ ~Uncertain
            BY <3>1 DEF TransInv, JournalInv, Created
        <3> QED BY <3>1, <3>2 DEF Targets, Done
    <2>2. \/ events' = events /\ Leave
          \/ Created = {} /\ Log("rolled_back", NoPath) /\ Leave
          \/ Created # {} /\ Log("remove_intent", NextDown) /\ Goto("unlink")
        BY <1>4 DEF Remove, AllGone
    <2>3. Done # {} => NextDown \in Paths
        BY DownIs
    <2> QED BY <1>1, <1>2, <2>1, <2>2, <2>3
<1>5. CASE Unlink
    <2>1. RollingBack /\ Done # {} /\ NextDown \in Paths /\ events' = events
        BY <1>0, <1>5, DownIs DEF Unlink, At, DiskOnly, TransInv, CallInv
    <2>2. CASE disk' = [disk EXCEPT ![NextDown] = Nothing] /\ Goto("unlinked")
        <3>1. /\ disk' \in [Paths -> Nodes] /\ disk'[NextDown] = Nothing
              /\ \A p \in Paths : p # NextDown => disk'[p] = disk[p]
            BY <1>0, <2>1, <2>2 DEF TypeOK, Nothing, Nodes
        <3>2. TypeOK'
            BY <1>0, <2>1, <2>2, <3>1, ProcSteps DEF TypeOK, Modes, Ats
        <3>3. CallInv'
            BY <1>0, <2>1, <2>2, <3>1, SameJournal, ProcSteps DEF CallInv, Ats, Nothing
        <3>4. \A p \in Paths : /\ disk'[p].maker = "us" => disk[p].maker = "us"
                               /\ Missing(p)' => disk'[p].maker \notin {"us", "owner"}
                               /\ disk'[p].maker = "owner" => ~disk'[p].same
            BY <3>1 DEF Nothing, Missing, TransInv, MakersInv
        <3> QED BY <2>1, <3>2, <3>3, <3>4, QuietInv
    <2> QED BY <1>1, <1>5, <2>1, <2>2 DEF Unlink
<1>6. CASE Unlinked
    <2>1. /\ RollingBack /\ Done # {} /\ disk[NextDown].maker # "us" /\ UNCHANGED disk
          /\ Log("removed", NextDown) /\ Goto("remove")
          /\ NextDown \in Created /\ NextDown \in Paths
        BY <1>0, <1>6, DownIs DEF Unlinked, At, JournalOnly, TransInv, CallInv
    <2>2. events' \in Seq(Events) /\ RollingBack'
        BY <1>0, <2>1, LogStep DEF Types
    <2>3. TypeOK'
        BY <1>0, <2>1, <2>2, ProcSteps DEF TypeOK, Modes, Ats, Events
    <2>4. CallInv'
        BY <1>0, <2>1, <2>2, ProcSteps DEF CallInv, Ats
    <2> QED BY <2>1, <2>3, <2>4, RemovedInv
<1> QED BY <1>3, <1>4, <1>5, <1>6

LEMMA NextInv == TransInv /\ [Next]_vars => TransInv'
<1>1. ASSUME TransInv, UNCHANGED vars PROVE TransInv'
    <2>1. UNCHANGED <<disk, baseline, events, torn, proc, used>>
        BY <1>1 DEF vars
    <2>2. TypeOK'
        BY <1>1, <2>1 DEF TransInv, TypeOK
    <2>3. CallInv'
        BY <1>1, <2>1, SameJournal DEF TransInv, CallInv
    <2> QED BY <1>1, <2>1, <2>2, <2>3, QuietInv DEF TransInv, MakersInv, Missing
<1> QED BY <1>1, BeginInv, EditInv, ApplyInv, IntendInv, CreateInv, RecordInv, RecoverInv, RollbackInv
        DEF Next, Call

LEMMA AlwaysTransInv == Spec => []TransInv
BY InitInv, NextInv, PTL DEF Spec

\* Every variable keeps its type: the journal only ever names operations of the
\* plan, whatever a crash or the owner of the root leaves behind.
THEOREM TypeCorrect == Spec => []TypeOK
<1>1. TransInv => TypeOK
    BY DEF TransInv
<1> QED BY <1>1, AlwaysTransInv, PTL

\* A transaction that says it is rolled back has left nothing of its own behind:
\* an entry that was made and never recorded stops the rollback before it starts.
THEOREM CleanRollback == Spec => []RolledBackClean
<1>1. TransInv => RolledBackClean
    BY DEF TransInv, JournalInv, RolledBackClean
<1> QED BY <1>1, AlwaysTransInv, PTL

-----------------------------------------------------------------------------
(* What a step may do to the root.                                         *)

\* An entry changes in one of three ways: the owner changes it, a call that is
\* not rolling back creates it, or a call removes one that is as it was planned.
LEMMA DiskSteps ==
    ASSUME TransInv, [Next]_vars, NEW p \in Paths
    PROVE  \/ /\ disk'[p].body = disk[p].body
              /\ disk'[p].maker = "us" <=> disk[p].maker = "us"
           \/ proc' = proc /\ (Missing(p) => disk'[p].maker # "us")
           \/ Missing(p) /\ ~RollingBack
           \/ ~Owners(p) /\ disk'[p] = Nothing
<1>1. disk \in [Paths -> Nodes] /\ disk[p] \in Nodes
    BY DEF TransInv, TypeOK
<1>2. CASE disk' = disk
    BY <1>2
<1>3. CASE Create
    <2>1. proc.at = "create" /\ ~RollingBack
        BY <1>3 DEF Create, At, TransInv, CallInv
    <2>2. CASE disk' = disk
        BY <2>2
    <2>3. CASE /\ Missing(NextUp)
               /\ disk' = [disk EXCEPT ![NextUp] =
                              [body |-> Planned(NextUp), maker |-> "us", same |-> FALSE]]
        BY <1>1, <2>1, <2>3
    <2> QED BY <1>3, <2>2, <2>3 DEF Create
<1>4. CASE Record
    <2>1. CASE Recorded
        <3>1. NextUp \in Paths
            BY <1>4, NextUpIs DEF Record, At, TransInv, CallInv
        <3> QED BY <1>1, <2>1, <3>1, RecordedIs
    <2> QED BY <1>2, <1>4, <2>1 DEF Record, Recorded
<1>5. CASE Unlink
    <2>1. CASE Owned(NextDown) /\ disk' = [disk EXCEPT ![NextDown] = Nothing]
        <3>1. NextDown \in Paths
            BY <1>5, DownIs DEF Unlink, At, TransInv, CallInv
        <3>2. ~Owners(NextDown)
            BY <2>1, <3>1 DEF Owned, Planned, Owners, TransInv, MakersInv
        <3> QED BY <1>1, <2>1, <3>1, <3>2
    <2> QED BY <1>5, <2>1 DEF Unlink
<1>6. ASSUME NEW q \in Paths, Edit(q)
      PROVE  proc' = proc /\ (Missing(p) => disk'[p].maker # "us")
    <2>1. proc' = proc
        BY <1>6 DEF Edit
    <2>2. Missing(p) => disk[p].maker # "us"
        BY DEF TransInv, MakersInv
    <2>3. PICK n \in Nodes : disk' = [disk EXCEPT ![q] = n] /\ n.maker # "us"
        BY <1>6, EditIs DEF IsHis
    <2>4. disk'[p] = IF p = q THEN n ELSE disk[p]
        BY <1>1, <2>3
    <2> QED BY <2>1, <2>2, <2>3, <2>4
<1>7. \/ disk' = disk \/ Create \/ Record \/ Unlink \/ \E q \in Paths : Edit(q)
    BY DEF Next, Call, vars, BeginApply, BeginRecover, Crash, WriteJournal, CheckApply, Intend,
           Resume, Verify, Inspect, Remove, Unlinked, JournalOnly, LeaveAsIs
<1> QED BY <1>2, <1>3, <1>4, <1>5, <1>6, <1>7

\* No call removes or replaces what the owner made, changed, touched or made
\* again, except what he made again between a creation and its record.  An entry
\* with the recorded identity is never the owner's (MakersInv), so the last check
\* before a removal tells them apart, whatever its kind and content.
THEOREM OwnersContent == Spec => OwnersContentStands
<1>1. TransInv /\ [Next]_vars =>
          [\A p \in Paths : Owners(p) /\ disk'[p].body # disk[p].body => proc' = proc]_vars
    <2> SUFFICES ASSUME TransInv, [Next]_vars, NEW p \in Paths,
                        Owners(p), disk'[p].body # disk[p].body
                 PROVE  proc' = proc
        OBVIOUS
    <2>1. ~Missing(p)
        BY DEF Owners, Missing, TransInv, MakersInv
    <2> QED BY <2>1, DiskSteps
<1> QED BY <1>1, AlwaysTransInv, PTL DEF Spec, OwnersContentStands

\* Once a rollback has started nothing is created any more, whatever calls come.
THEOREM NoneCreatedAgain == Spec => NoCreateAfterRemoval
<1>1. TransInv /\ [Next]_vars =>
          [\A p \in Paths : Missing(p) /\ disk'[p].maker = "us" => ~Seen("rollback_started")]_vars
    <2> SUFFICES ASSUME TransInv, [Next]_vars, NEW p \in Paths,
                        Missing(p), disk'[p].maker = "us"
                 PROVE  ~Seen("rollback_started")
        OBVIOUS
    <2>1. disk[p].maker # "us" /\ Nothing.maker # "us"
        BY DEF TransInv, MakersInv, Nothing
    <2>2. ~RollingBack
        BY <2>1, DiskSteps
    <2> QED BY <2>2 DEF RollingBack
<1> QED BY <1>1, AlwaysTransInv, PTL DEF Spec, NoCreateAfterRemoval

-----------------------------------------------------------------------------
(* The journal implements AllOrNothing.                                    *)

\* A transaction that says it is completed is never rolled back and no call is
\* at work on it; one that says it is rolled back has taken back every record.
VerdictInv ==
    /\ Seen("completed") => ~RollingBack /\ proc.at \in {"idle", "journal", "check", "resume"}
    /\ Seen("rolled_back") => Created = {}

LEMMA TargetsSize == IsFiniteSet(Targets) /\ Cardinality(Targets) = PlanLen
<1> DEFINE f == [n \in 1 .. PlanLen |-> Plan[n]]
<1>1. PlanLen \in Nat /\ DOMAIN Plan = 1 .. PlanLen  BY PlanIs
<1>2. IsFiniteSet(1 .. PlanLen) /\ Cardinality(1 .. PlanLen) = PlanLen  BY <1>1, FS_Interval
<1>3. f \in Bijection(1 .. PlanLen, Targets)
    <2>1. f \in [1 .. PlanLen -> Targets]  BY <1>1 DEF Targets
    <2>2. \A m, n \in 1 .. PlanLen : f[m] = f[n] => m = n
        BY <1>1, PlanAssumption DEF PlanAssumption
    <2>3. \A p \in Targets : \E n \in 1 .. PlanLen : f[n] = p  BY <1>1 DEF Targets
    <2> HIDE DEF f
    <2> QED BY <2>1, <2>2, <2>3 DEF Bijection, Injection, Surjection, IsInjective
<1>4. ExistsBijection(1 .. PlanLen, Targets)  BY <1>3 DEF ExistsBijection
<1> QED BY <1>2, <1>4, FS_Bijection

\* What is made is some of the plan, and all of it when nothing is left.
LEMMA CreatedSize ==
    ASSUME Of("created") \subseteq Targets
    PROVE  /\ Created \subseteq Targets /\ IsFiniteSet(Created)
           /\ Cardinality(Created) \in Nat
           /\ Created # Targets => Cardinality(Created) < PlanLen
           /\ Left = {} => Cardinality(Created) = PlanLen
           /\ Cardinality(Created) = 0 <=> Created = {}
<1>1. Created \in SUBSET Targets  BY DEF Created
<1>2. /\ IsFiniteSet(Created) /\ Cardinality(Created) <= PlanLen
      /\ PlanLen = Cardinality(Created) => Targets = Created
    BY <1>1, TargetsSize, FS_Subset
<1>3. Cardinality(Created) \in Nat /\ PlanLen \in Nat  BY <1>2, FS_CardinalityType, PlanIs
<1>4. Cardinality(Created) = 0 <=> Created = {}  BY <1>2, FS_EmptySet
<1>5. Left = {} => Created = Targets  BY <1>1 DEF Left, Targets
<1>6. Left = {} => Cardinality(Created) = PlanLen  BY <1>5, TargetsSize
<1> QED BY <1>1, <1>2, <1>3, <1>4, <1>6

Onwards == VerdictInv' /\ [Whole!Next]_(Whole!vars)

LEMMA QuietOnwards ==
    ASSUME VerdictInv, events' = events,
           Seen("completed") => proc'.at \in {"idle", "journal", "check", "resume"}
    PROVE  Onwards
<1>1. VerdictInv'  BY SameJournal DEF VerdictInv
<1>2. Verdict' = Verdict /\ Created' = Created  BY SameJournal DEF Verdict
<1>3. UNCHANGED Whole!vars  BY <1>2 DEF Whole!vars
<1> QED BY <1>1, <1>3 DEF Onwards

\* A line of the journal is a step of AllOrNothing, or says nothing to it.
LEMMA LogOnwards ==
    ASSUME TransInv, VerdictInv, NEW type \in Types, NEW path \in Paths \cup {NoPath},
           Log(type, path), ~Seen("completed"),
           type = "completed" => ~RollingBack /\ Left = {} /\ proc'.at = "idle",
           type = "created" => ~RollingBack /\ path \in Targets /\ path \notin Created,
           type = "rollback_started" => ~RollingBack,
           type = "remove_intent" => RollingBack,
           type = "removed" => RollingBack /\ path \in Created,
           type = "rolled_back" => RollingBack /\ Created = {}
    PROVE  Onwards
<1>0. /\ TypeOK /\ Of("created") \subseteq Targets
      /\ Seen("rolled_back") => RollingBack
      /\ Seen("rolled_back") => Created = {}
    BY DEF TransInv, JournalInv, VerdictInv
<1>1. /\ \A t \in Types : Seen(t)' <=> Seen(t) \/ t = type
      /\ \A t \in Types : Of(t)' = IF t = type THEN Of(t) \cup {path} ELSE Of(t)
    BY <1>0, LogEffect DEF TypeOK, Events
<1>2. /\ Seen("completed")' <=> type = "completed"
      /\ Seen("rolled_back")' <=> Seen("rolled_back") \/ type = "rolled_back"
      /\ RollingBack' <=> RollingBack \/ type \in {"rollback_started", "remove_intent", "removed"}
    BY <1>1 DEF Types, RollingBack
<1>3. type \notin {"created", "removed"} => Created' = Created
    BY <1>1 DEF Types, Created
<1>4. type = "created" => Created' = Created \cup {path} /\ Created # Targets
    <2>1. ~RollingBack => Of("removed") = {}  BY DEF RollingBack, Of, Seen
    <2> QED BY <1>1, <2>1 DEF Types, Created
<1>5. type = "removed" => Created' = Created \ {path} /\ Created # {}
    BY <1>1 DEF Types, Created
<1> DEFINE c == Cardinality(Created)
<1>6. /\ c \in Nat /\ IsFiniteSet(Created)
      /\ Created # Targets => c < PlanLen
      /\ Left = {} => c = PlanLen
      /\ c = 0 <=> Created = {}
    BY <1>0, CreatedSize
<1>7. VerdictInv'
    <2>1. type = "completed" => ~RollingBack' /\ proc'.at = "idle"  BY <1>2
    <2>2. Seen("rolled_back")' => Created' = {}  BY <1>0, <1>2, <1>3, <1>4, <1>5
    <2> QED BY <1>2, <2>1, <2>2 DEF VerdictInv
<1>8. PlanLen = Len(Plan)  BY DEF PlanLen
<1>9. CASE type = "completed"
    <2>1. Verdict = "open" /\ Verdict' = "applied" /\ Created' = Created
        BY <1>0, <1>2, <1>3, <1>9 DEF Verdict
    <2>2. Whole!Applied  BY <1>6, <1>8, <1>9, <2>1 DEF Whole!Applied
    <2> QED BY <1>7, <2>2 DEF Onwards, Whole!Next
<1>10. CASE type = "created"
    <2>1. Verdict = "open" /\ Verdict' = "open"  BY <1>0, <1>2, <1>10 DEF Verdict
    <2>2. Cardinality(Created') = c + 1  BY <1>4, <1>6, <1>10, FS_AddElement
    <2>3. Whole!Make  BY <1>4, <1>6, <1>8, <1>10, <2>1, <2>2 DEF Whole!Make
    <2> QED BY <1>7, <2>3 DEF Onwards, Whole!Next
<1>11. CASE type = "rollback_started"
    <2>1. Verdict = "open" /\ Verdict' = "undoing" /\ Created' = Created
        BY <1>0, <1>2, <1>3, <1>11 DEF Verdict
    <2>2. Whole!GiveUp  BY <2>1 DEF Whole!GiveUp
    <2> QED BY <1>7, <2>2 DEF Onwards, Whole!Next
<1>12. CASE type = "removed"
    <2>1. Verdict = "undoing" /\ Verdict' = "undoing"  BY <1>0, <1>2, <1>5, <1>12 DEF Verdict
    <2>2. Cardinality(Created') = c - 1  BY <1>5, <1>6, <1>12, FS_RemoveElement
    <2>3. Whole!Unmake  BY <1>5, <1>6, <1>12, <2>1, <2>2 DEF Whole!Unmake
    <2> QED BY <1>7, <2>3 DEF Onwards, Whole!Next
<1>13. CASE type = "rolled_back" /\ ~Seen("rolled_back")
    <2>0. RollingBack /\ Created' = Created /\ Seen("rolled_back")' /\ ~Seen("completed")'
        BY <1>2, <1>3, <1>13
    <2>1. Verdict = "undoing"  BY <1>13, <2>0 DEF Verdict
    <2>3. Verdict' = "undone"  BY <2>0 DEF Verdict
    <2>2. Whole!Undone  BY <1>6, <1>13, <2>0, <2>1, <2>3 DEF Whole!Undone
    <2> QED BY <1>7, <2>2 DEF Onwards, Whole!Next
<1>14. CASE type \in {"intent", "remove_intent"} \/ (type = "rolled_back" /\ Seen("rolled_back"))
    <2>1. Verdict' = Verdict /\ Created' = Created
        BY <1>0, <1>2, <1>3, <1>14 DEF Verdict
    <2>2. UNCHANGED Whole!vars  BY <2>1 DEF Whole!vars
    <2> QED BY <1>7, <2>2 DEF Onwards
<1> QED BY <1>9, <1>10, <1>11, <1>12, <1>13, <1>14 DEF Types

LEMMA WholeStep ==
    ASSUME TransInv, VerdictInv, [Next]_vars
    PROVE  Onwards
<1> DEFINE calm == {"idle", "journal", "check", "resume"}
<1>0. /\ TypeOK
      /\ Seen("completed") => ~RollingBack /\ proc.at \in calm
    BY DEF TransInv, VerdictInv
<1>1. CASE UNCHANGED vars
    BY <1>0, <1>1, QuietOnwards DEF vars
<1>2. CASE BeginApply \/ BeginRecover("finish") \/ BeginRecover("rollback") \/ Crash
    <2>1. CASE BeginApply  BY <2>1, QuietOnwards DEF BeginApply
    <2>2. CASE Crash  BY <2>2, QuietOnwards DEF Crash, Idle
    <2>3. ASSUME NEW mode, BeginRecover(mode) PROVE Onwards
        <3>1. proc'.at = "resume" /\ events' = events  BY <2>3 DEF BeginRecover
        <3> QED BY <3>1, QuietOnwards
    <2> QED BY <1>2, <2>1, <2>2, <2>3
<1>3. CASE \E p \in Paths : Edit(p)
    <2>1. events' = events /\ proc' = proc  BY <1>3 DEF Edit
    <2> QED BY <1>0, <2>1, QuietOnwards
<1>4. CASE WriteJournal \/ CheckApply
    <2>1. /\ events' = events
          /\ Leave \/ Goto("check") \/ (Goto("intend") /\ events = <<>>)
        BY <1>4 DEF WriteJournal, CheckApply, LeaveAsIs
    <2>2. events = <<>> => ~Seen("completed")  BY DEF Seen
    <2>3. Leave \/ Goto("check") => proc'.at \in calm  BY <1>0, ProcSteps DEF Ats
    <2> QED BY <2>1, <2>2, <2>3, QuietOnwards
<1>5. CASE Intend
    <2>1. proc.at = "intend" /\ ~Seen("completed") /\ ~RollingBack
        BY <1>0, <1>5 DEF Intend, At, TransInv, CallInv
    <2>2. CASE events' = events  BY <2>1, <2>2, QuietOnwards
    <2>3. CASE AllMade /\ Log("completed", NoPath) /\ Leave
        <3>1. Left = {} /\ proc'.at = "idle"  BY <2>3 DEF AllMade, Leave, Idle
        <3> QED BY <2>1, <2>3, <3>1, LogOnwards DEF Types
    <2>4. CASE Left # {} /\ Log("intent", NextUp)
        <3>1. NextUp \in Paths  BY <2>4, NextUpIs
        <3> QED BY <2>1, <2>4, <3>1, LogOnwards DEF Types
    <2> QED BY <1>5, <2>2, <2>3, <2>4 DEF Intend, AllMade
<1>6. CASE Create
    <2>1. events' = events /\ ~Seen("completed")  BY <1>0, <1>6 DEF Create, DiskOnly, At
    <2> QED BY <2>1, QuietOnwards
<1>7. CASE Record
    <2>1. ~Seen("completed") /\ ~RollingBack /\ Left # {}
        BY <1>0, <1>7 DEF Record, At, TransInv, CallInv
    <2>2. CASE events' = events  BY <2>1, <2>2, QuietOnwards
    <2>3. CASE Log("created", NextUp)
        <3>1. NextUp \in Targets /\ NextUp \in Paths /\ NextUp \notin Created
            BY <2>1, NextUpIs DEF Left
        <3> QED BY <2>1, <2>3, <3>1, LogOnwards DEF Types
    <2> QED BY <1>7, <2>2, <2>3 DEF Record
<1>8. CASE Resume
    <2> DEFINE p == First(Resumable)
    <2>1. Log("removed", p) /\ Resumable # {}  BY <1>8 DEF Resume
    <2>2. PICK n \in Resumable : p = Plan[n]  BY <2>1, FirstIs DEF Resumable, Done
    <2>3. p \in Created /\ p \in Paths /\ p \in Of("remove_intent")
        BY <2>2, PlanIs DEF Resumable, Done
    <2>4. RollingBack  BY <2>3 DEF RollingBack, Of, Seen
    <2> HIDE DEF p
    <2> QED BY <1>0, <2>1, <2>3, <2>4, LogOnwards DEF Types
<1>9. CASE Verify
    <2>1. /\ events' = events
          /\ Leave \/ ~Seen("completed")
        BY <1>9 DEF Verify
    <2>2. Leave => proc'.at = "idle"  BY DEF Leave, Idle
    <2> QED BY <2>1, <2>2, QuietOnwards
<1>10. CASE Inspect
    <2>1. ~Seen("completed")  BY <1>0, <1>10 DEF Inspect, At
    <2>2. events' = events \/ (~RollingBack /\ Log("rollback_started", NoPath))
        BY <1>10 DEF Inspect
    <2> QED BY <2>1, <2>2, QuietOnwards, LogOnwards DEF Types
<1>11. CASE Remove
    <2>1. ~Seen("completed") /\ RollingBack  BY <1>0, <1>11 DEF Remove, At, TransInv, CallInv
    <2>2. CASE events' = events  BY <2>1, <2>2, QuietOnwards
    <2>3. CASE Created = {} /\ Log("rolled_back", NoPath)
        BY <2>1, <2>3, LogOnwards DEF Types
    <2>4. CASE Created # {} /\ Log("remove_intent", NextDown)
        <3>1. Created \subseteq Targets  BY DEF TransInv, JournalInv, Created
        <3>2. Done # {}  BY <2>4, <3>1 DEF Targets, Done
        <3> QED BY <2>1, <2>4, <3>2, DownIs, LogOnwards DEF Types
    <2> QED BY <1>11, <2>2, <2>3, <2>4 DEF Remove, AllGone
<1>12. CASE Unlink
    <2>1. events' = events /\ ~Seen("completed")  BY <1>0, <1>12 DEF Unlink, DiskOnly, At
    <2> QED BY <2>1, QuietOnwards
<1>13. CASE Unlinked
    <2>1. /\ ~Seen("completed") /\ RollingBack /\ Log("removed", NextDown)
          /\ NextDown \in Created /\ NextDown \in Paths
        BY <1>0, <1>13, DownIs DEF Unlinked, At, TransInv, CallInv
    <2> QED BY <2>1, LogOnwards DEF Types
<1> QED BY <1>1, <1>2, <1>3, <1>4, <1>5, <1>6, <1>7, <1>8, <1>9, <1>10, <1>11, <1>12, <1>13
        DEF Next, Call

\* The journal of a transaction makes the whole plan or takes back all of it,
\* and never turns round, through every crash, every recovery and whatever the
\* owner of the root changes (applyOnboardingPlan and recoverOnboardingPlan).
THEOREM AllIsMadeOrTakenBack == Spec => JournalIsAllOrNothing
<1>1. Init => Whole!Init /\ VerdictInv
    <2> SUFFICES ASSUME Init PROVE Whole!Init /\ VerdictInv
        OBVIOUS
    <2>1. \A t : Of(t) = {} /\ ~Seen(t)  BY DEF Init, Of, Seen
    <2>2. Created = {} /\ ~RollingBack  BY <2>1 DEF Created, RollingBack
    <2>3. Cardinality(Created) = 0  BY <2>2, FS_EmptySet
    <2>4. Verdict = "open"  BY <2>1, <2>2 DEF Verdict
    <2> QED BY <2>1, <2>3, <2>4 DEF Whole!Init, VerdictInv
<1>2. TransInv /\ VerdictInv /\ [Next]_vars => VerdictInv' /\ [Whole!Next]_(Whole!vars)
    BY WholeStep DEF Onwards
<1> QED BY <1>1, <1>2, AlwaysTransInv, PTL DEF Spec, JournalIsAllOrNothing, Whole!Spec

=============================================================================
