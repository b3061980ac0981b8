------------------------- MODULE ReviewQueueProofs -------------------------
(***************************************************************************)
(* What the run of ReviewQueue shows on a small instance, proved for every *)
(* number of reviews, jobs, providers, places, attempts and aborts: the    *)
(* book-keeping of the queue, that no wake-up is lost, and how often a     *)
(* review that has a job ready may be passed over.                         *)
(***************************************************************************)
EXTENDS ReviewQueue, SequenceTheorems, FiniteSetTheorems, WellFoundedInduction, TLAPS

-----------------------------------------------------------------------------
(* Lists that hold an entry once.                                          *)

Holds(s, x) == \E n \in 1 .. Len(s) : s[n] = x
Once(s) == \A m, n \in 1 .. Len(s) : s[m] = s[n] => m = n
Place(s, x) == CHOOSE n \in 1 .. Len(s) : s[n] = x

\* An entry of the list is at its place and nowhere else.
LEMMA PlaceOf ==
    ASSUME NEW s, NEW x, Once(s), Holds(s, x)
    PROVE  /\ Place(s, x) \in 1 .. Len(s) /\ s[Place(s, x)] = x
           /\ \A n \in 1 .. Len(s) : s[n] = x => n = Place(s, x)
<1>1. \E n \in 1 .. Len(s) : s[n] = x
    BY DEF Holds
<1>2. Place(s, x) \in 1 .. Len(s) /\ s[Place(s, x)] = x
    BY <1>1 DEF Place
<1> QED BY <1>2 DEF Once

\* What a list is once an entry has been cut out.
LEMMA CutOut ==
    ASSUME NEW S, NEW s \in Seq(S), NEW x, Once(s), Holds(s, x),
           NEW w, w = Without(s, x), NEW p, p = Place(s, x)
    PROVE  /\ w \in Seq(S) /\ Len(w) = Len(s) - 1 /\ p \in 1 .. Len(s)
           /\ \A n \in 1 .. Len(w) : w[n] = IF n < p THEN s[n] ELSE s[n + 1]
<1>1. Len(s) \in Nat /\ DOMAIN s = 1 .. Len(s) /\ \A n \in 1 .. Len(s) : s[n] \in S
    BY LenProperties, ElementOfSeq
<1>2. p \in 1 .. Len(s)
    BY PlaceOf
<1> DEFINE a == SubSeq(s, 1, p - 1)
           b == SubSeq(s, p + 1, Len(s))
<1>3. w = a \o b
    <2>1. \E n \in DOMAIN s : s[n] = x
        BY <1>1 DEF Holds
    <2> QED BY <1>1, <2>1 DEF Without, RemoveAt, Place
<1>4. /\ a \in Seq(S) /\ Len(a) = p - 1
      /\ \A n \in 1 .. p - 1 : a[n] = s[n]
    <2>1. \A n \in 1 .. p - 1 : s[n] \in S
        BY <1>1, <1>2
    <2>2. /\ SubSeq(s, 1, p - 1) \in Seq(S)
          /\ Len(SubSeq(s, 1, p - 1)) = IF 1 <= p - 1 THEN p - 1 - 1 + 1 ELSE 0
          /\ \A n \in 1 .. p - 1 - 1 + 1 : SubSeq(s, 1, p - 1)[n] = s[1 + n - 1]
        BY <1>2, <2>1, SubSeqProperties
    <2> QED BY <1>1, <1>2, <2>2
<1>5. /\ b \in Seq(S) /\ Len(b) = Len(s) - p
      /\ \A n \in 1 .. Len(s) - p : b[n] = s[p + n]
    <2>1. \A n \in p + 1 .. Len(s) : s[n] \in S
        BY <1>1, <1>2
    <2>2. /\ SubSeq(s, p + 1, Len(s)) \in Seq(S)
          /\ Len(SubSeq(s, p + 1, Len(s))) = IF p + 1 <= Len(s) THEN Len(s) - (p + 1) + 1 ELSE 0
          /\ \A n \in 1 .. Len(s) - (p + 1) + 1 : SubSeq(s, p + 1, Len(s))[n] = s[p + 1 + n - 1]
        <3>1. p + 1 \in Int /\ Len(s) \in Int
            BY <1>1, <1>2
        <3> QED BY <2>1, <3>1, SubSeqProperties
    <2>3. Len(s) - (p + 1) + 1 = Len(s) - p /\ \A n \in 1 .. Len(s) - p : p + 1 + n - 1 = p + n
        BY <1>1, <1>2
    <2> QED BY <1>1, <1>2, <2>2, <2>3
<1> HIDE DEF a, b
<1>6. /\ a \o b \in Seq(S) /\ Len(a \o b) = Len(a) + Len(b)
      /\ \A n \in 1 .. Len(a) + Len(b) : (a \o b)[n] = IF n <= Len(a) THEN a[n] ELSE b[n - Len(a)]
    BY <1>4, <1>5, ConcatProperties
<1>7. w \in Seq(S) /\ Len(w) = Len(s) - 1
    BY <1>1, <1>2, <1>3, <1>4, <1>5, <1>6
<1>8. ASSUME NEW n \in 1 .. Len(w) PROVE w[n] = IF n < p THEN s[n] ELSE s[n + 1]
    <2>1. n \in 1 .. Len(a) + Len(b)
        BY <1>1, <1>2, <1>4, <1>5, <1>7
    <2>2. w[n] = IF n <= Len(a) THEN a[n] ELSE b[n - Len(a)]
        BY <1>3, <1>6, <2>1
    <2>3. CASE n < p
        BY <1>2, <1>4, <2>2, <2>3
    <2>4. CASE ~(n < p)
        <3>1. n - Len(a) \in 1 .. Len(s) - p /\ p + (n - Len(a)) = n + 1 /\ ~(n <= Len(a))
            BY <1>1, <1>2, <1>4, <1>7, <2>4
        <3> QED BY <1>5, <2>2, <2>4, <3>1
    <2> QED BY <2>3, <2>4
<1> QED BY <1>2, <1>7, <1>8

\* The entries that are left.
LEMMA WithoutEntries ==
    ASSUME NEW S, NEW s \in Seq(S), NEW x, Once(s), NEW w, w = Without(s, x)
    PROVE  /\ w \in Seq(S) /\ Once(w) /\ ~Holds(w, x)
           /\ \A y : y # x => (Holds(w, y) <=> Holds(s, y))
<1>0. Len(s) \in Nat /\ DOMAIN s = 1 .. Len(s)
    BY LenProperties
<1>1. CASE ~Holds(s, x)
    <2>1. w = s
        BY <1>0, <1>1 DEF Without, Holds
    <2> QED BY <1>1, <2>1
<1>2. CASE Holds(s, x)
    <2> DEFINE p == Place(s, x)
    <2>1. /\ w \in Seq(S) /\ Len(w) = Len(s) - 1 /\ p \in 1 .. Len(s) /\ s[p] = x
          /\ \A n \in 1 .. Len(w) : w[n] = IF n < p THEN s[n] ELSE s[n + 1]
          /\ \A n \in 1 .. Len(s) : s[n] = x => n = p
        <3>1. p = Place(s, x)
            OBVIOUS
        <3> HIDE DEF p
        <3>2. /\ w \in Seq(S) /\ Len(w) = Len(s) - 1 /\ p \in 1 .. Len(s)
              /\ \A n \in 1 .. Len(w) : w[n] = IF n < p THEN s[n] ELSE s[n + 1]
            BY <1>2, <3>1, CutOut
        <3>3. s[p] = x /\ \A n \in 1 .. Len(s) : s[n] = x => n = p
            BY <1>2, <3>1, PlaceOf
        <3> QED BY <3>2, <3>3
    <2> HIDE DEF p
    <2> DEFINE old(n) == IF n < p THEN n ELSE n + 1
               new(n) == IF p < n THEN n - 1 ELSE n
    <2>2. \A n \in 1 .. Len(w) : old(n) \in 1 .. Len(s) /\ old(n) # p /\ w[n] = s[old(n)]
        BY <1>0, <2>1
    <2>3. \A m, n \in 1 .. Len(w) : old(m) = old(n) => m = n
        BY <1>0, <2>1
    <2>4. \A n \in 1 .. Len(s) : n # p => new(n) \in 1 .. Len(w) /\ w[new(n)] = s[n]
        <3> SUFFICES ASSUME NEW n \in 1 .. Len(s), n # p
                     PROVE  new(n) \in 1 .. Len(w) /\ w[new(n)] = s[n]
            OBVIOUS
        <3>1. new(n) \in 1 .. Len(w) /\ old(new(n)) = n
            BY <1>0, <2>1
        <3> HIDE DEF old, new
        <3> QED BY <2>2, <3>1
    <2> HIDE DEF old, new
    <2>5. Once(w) /\ ~Holds(w, x)
        BY <2>1, <2>2, <2>3 DEF Once, Holds
    <2>6. ASSUME NEW y, y # x PROVE Holds(w, y) <=> Holds(s, y)
        <3>1. Holds(w, y) => Holds(s, y)
            BY <2>2 DEF Holds
        <3>2. Holds(s, y) => Holds(w, y)
            <4> SUFFICES ASSUME NEW n \in 1 .. Len(s), s[n] = y PROVE Holds(w, y)
                BY DEF Holds
            <4> QED BY <2>1, <2>4, <2>6 DEF Holds
        <3> QED BY <3>1, <3>2
    <2> QED BY <2>1, <2>5, <2>6
<1> QED BY <1>1, <1>2

\* What comes after the entry that is cut out moves up.
LEMMA WithoutPlace ==
    ASSUME NEW S, NEW s \in Seq(S), NEW x, Once(s), Holds(s, x), NEW w, w = Without(s, x),
           NEW y, y # x, Holds(s, y),
           NEW p, p = Place(s, x), NEW q, q = Place(s, y), NEW r, r = Place(w, y)
    PROVE  r = IF p < q THEN q - 1 ELSE q
<1> DEFINE n == IF p < q THEN q - 1 ELSE q
<1>1. /\ Len(s) \in Nat /\ p \in 1 .. Len(s) /\ q \in 1 .. Len(s) /\ p # q /\ s[q] = y
    BY LenProperties, PlaceOf
<1>2. /\ Len(w) = Len(s) - 1
      /\ \A m \in 1 .. Len(w) : w[m] = IF m < p THEN s[m] ELSE s[m + 1]
    BY CutOut
<1>3. n \in 1 .. Len(w) /\ w[n] = y
    BY <1>1, <1>2
<1>4. Once(w) /\ Holds(w, y)
    BY WithoutEntries
<1> HIDE DEF n
<1>5. n = r
    BY <1>3, <1>4, PlaceOf
<1> QED BY <1>5 DEF n

\* A new entry comes after all others.
Joined(s, x) == Append(s, x)

LEMMA AppendEntries ==
    ASSUME NEW S, NEW s \in Seq(S), NEW x \in S, Once(s), ~Holds(s, x), NEW w, w = Joined(s, x)
    PROVE  /\ w \in Seq(S) /\ Once(w) /\ Len(w) = Len(s) + 1 /\ w # << >>
           /\ \A n \in 1 .. Len(s) : w[n] = s[n]
           /\ w[Len(s) + 1] = x
           /\ \A y : Holds(w, y) <=> y = x \/ Holds(s, y)
<1>1. /\ Len(s) \in Nat /\ w \in Seq(S) /\ Len(w) = Len(s) + 1 /\ w # << >>
      /\ \A n \in 1 .. Len(s) : w[n] = s[n]
      /\ w[Len(s) + 1] = x
    BY AppendProperties, LenProperties DEF Joined
<1>2. \A n \in 1 .. Len(w) : n \in 1 .. Len(s) \/ n = Len(s) + 1
    BY <1>1
<1>3. \A n \in 1 .. Len(s) : n \in 1 .. Len(w) /\ w[n] # x
    BY <1>1 DEF Holds
<1>4. Once(w)
    BY <1>1, <1>2, <1>3 DEF Once
<1>5. Len(s) + 1 \in 1 .. Len(w)
    BY <1>1
<1>6. ASSUME NEW y PROVE Holds(w, y) <=> y = x \/ Holds(s, y)
    BY <1>1, <1>2, <1>3, <1>5 DEF Holds
<1> QED BY <1>1, <1>4, <1>6

LEMMA AppendPlace ==
    ASSUME NEW S, NEW s \in Seq(S), NEW x \in S, Once(s), ~Holds(s, x), NEW w, w = Joined(s, x),
           NEW y, y = x \/ Holds(s, y), NEW q, q = Place(s, y), NEW r, r = Place(w, y)
    PROVE  r = IF y = x THEN Len(s) + 1 ELSE q
<1>1. /\ Len(s) \in Nat /\ Once(w) /\ Len(w) = Len(s) + 1
      /\ \A n \in 1 .. Len(s) : w[n] = s[n]
      /\ w[Len(s) + 1] = x /\ Holds(w, y)
    BY AppendEntries, LenProperties
<1>2. CASE y = x
    <2>1. Len(s) + 1 \in 1 .. Len(w)
        BY <1>1
    <2> QED BY <1>1, <1>2, <2>1, PlaceOf
<1>3. CASE y # x
    <2>1. q \in 1 .. Len(s) /\ s[q] = y
        BY <1>3, PlaceOf
    <2>2. q \in 1 .. Len(w) /\ w[q] = y
        BY <1>1, <2>1
    <2> QED BY <1>1, <1>3, <2>2, PlaceOf
<1> QED BY <1>2, <1>3

-----------------------------------------------------------------------------
(* The book-keeping.                                                       *)

Stages == {"new", "waiting", "running", "answered", "left"}

TypeInv ==
    /\ groups \in Seq(Groups) /\ queue \in [Groups -> Seq(Jobs)]
    /\ active \in Nat /\ lastGroup \in Groups \cup {NoGroup} /\ timer \in Nat \cup {NoTimer}
    /\ cooldown \in [Providers -> Nat]
    /\ readyIn \in [Jobs -> Nat] /\ attempts \in [Jobs -> Nat]
    /\ stage \in [Jobs -> Stages]
    /\ answer \in [Jobs -> {"none", "done", "transient", "fatal"}]
    /\ promise \in [Jobs -> {"pending", "resolved", "rejected"}]
    /\ aborted \subseteq Jobs /\ hearing \subseteq Jobs /\ pumping \in BOOLEAN
    /\ overtaken \in [Groups -> [Groups -> Nat]]

\* The map holds the reviews that have jobs waiting, and each queue the waiting
\* jobs of its review, once.
ListsInv ==
    /\ Once(groups)
    /\ \A g \in Groups :
         /\ Holds(groups, g) <=> queue[g] # << >>
         /\ Once(queue[g])
         /\ \A j \in Jobs : Holds(queue[g], j) <=> stage[j] = "waiting" /\ GroupOf[j] = g

\* A request that may be repeated has not been answered to its caller.
JobsInv ==
    \A j \in Jobs :
      /\ stage[j] = "new" => attempts[j] = 0
      /\ stage[j] = "waiting" => j \notin aborted /\ attempts[j] < Attempts
      /\ stage[j] = "left" => promise[j] # "pending"
      /\ stage[j] \in {"new", "waiting", "running"} => promise[j] = "pending"
      /\ stage[j] = "answered" /\ answer[j] = "transient" => promise[j] = "pending"

Taking == { j \in Jobs : stage[j] \in {"running", "answered"} }
PlacesInv == active = Cardinality(Taking) /\ active <= Concurrency

Book == TypeInv /\ ListsInv /\ JobsInv /\ PlacesInv

\* A job that joins its review's queue waits there.
LEMMA EnqueueStep ==
    ASSUME TypeInv, ListsInv, NEW j \in Jobs, stage[j] # "waiting", Enqueue(j), Move(j, "waiting")
    PROVE  groups' \in Seq(Groups) /\ queue' \in [Groups -> Seq(Jobs)] /\ ListsInv'
<1> DEFINE g == GroupOf[j]
<1>0. g \in Groups /\ queue[g] \in Seq(Jobs)
    BY QueueAssumption DEF QueueAssumption, TypeInv
<1>1. /\ queue' = [queue EXCEPT ![g] = Append(queue[g], j)]
      /\ groups' = IF queue[g] = << >> THEN Append(groups, g) ELSE groups
      /\ stage' = [stage EXCEPT ![j] = "waiting"]
    BY DEF Enqueue, Move
<1>2. Once(queue[g]) /\ ~Holds(queue[g], j)
    BY <1>0 DEF ListsInv
<1> HIDE DEF g
<1>3. /\ Append(queue[g], j) \in Seq(Jobs) /\ Once(Append(queue[g], j)) /\ Append(queue[g], j) # << >>
      /\ \A y : Holds(Append(queue[g], j), y) <=> y = j \/ Holds(queue[g], y)
    <2> DEFINE s == queue[g]
               w == Append(s, j)
    <2>1. s \in Seq(Jobs) /\ Once(s) /\ ~Holds(s, j) /\ w = Joined(s, j)
        BY <1>0, <1>2 DEF Joined
    <2> HIDE DEF s, w
    <2>2. /\ w \in Seq(Jobs) /\ Once(w) /\ w # << >>
          /\ \A y : Holds(w, y) <=> y = j \/ Holds(s, y)
        BY <2>1, AppendEntries
    <2> QED BY <2>2 DEF s, w
<1>4. queue'[g] = Append(queue[g], j) /\ \A h \in Groups \ {g} : queue'[h] = queue[h]
    BY <1>0, <1>1 DEF TypeInv
<1>5. stage'[j] = "waiting" /\ \A k \in Jobs \ {j} : stage'[k] = stage[k]
    BY <1>1 DEF TypeInv
<1>6. queue' \in [Groups -> Seq(Jobs)]
    BY <1>0, <1>1, <1>3 DEF TypeInv
<1>7. /\ groups' \in Seq(Groups) /\ Once(groups')
      /\ \A h \in Groups : Holds(groups', h) <=> h = g \/ Holds(groups, h)
    <2>1. CASE queue[g] = << >>
        <3>1. ~Holds(groups, g) /\ Once(groups) /\ groups \in Seq(Groups) /\ groups' = Joined(groups, g)
            BY <1>0, <1>1, <2>1 DEF ListsInv, TypeInv, Joined
        <3> QED BY <1>0, <3>1, AppendEntries
    <2>2. CASE queue[g] # << >>
        BY <1>0, <1>1, <2>2 DEF ListsInv, TypeInv
    <2> QED BY <2>1, <2>2
<1>8. ASSUME NEW h \in Groups
      PROVE  /\ Holds(groups', h) <=> queue'[h] # << >>
             /\ Once(queue'[h])
             /\ \A k \in Jobs : Holds(queue'[h], k) <=> stage'[k] = "waiting" /\ GroupOf[k] = h
    <2>1. CASE h = g
        <3>1. \A k \in Jobs : Holds(queue[g], k) <=> stage[k] = "waiting" /\ GroupOf[k] = g
            BY <1>0 DEF ListsInv
        <3> QED BY <1>3, <1>4, <1>5, <1>7, <2>1, <3>1 DEF g
    <2>2. CASE h # g
        <3>1. /\ Holds(groups, h) <=> queue[h] # << >>
              /\ Once(queue[h])
              /\ \A k \in Jobs : Holds(queue[h], k) <=> stage[k] = "waiting" /\ GroupOf[k] = h
            BY DEF ListsInv
        <3> QED BY <1>4, <1>5, <1>7, <2>2, <3>1 DEF g
    <2> QED BY <2>1, <2>2
<1> QED BY <1>6, <1>7, <1>8 DEF ListsInv

\* A waiting job that is taken out waits no more.
LEMMA DequeueStep ==
    ASSUME TypeInv, ListsInv, NEW j \in Jobs, stage[j] = "waiting", Dequeue(j),
           NEW to \in Stages \ {"waiting"}, Move(j, to)
    PROVE  groups' \in Seq(Groups) /\ queue' \in [Groups -> Seq(Jobs)] /\ ListsInv'
<1> DEFINE g == GroupOf[j]
           left == Without(queue[g], j)
<1>0. g \in Groups /\ queue[g] \in Seq(Jobs)
    BY QueueAssumption DEF QueueAssumption, TypeInv
<1>1. /\ queue' = [queue EXCEPT ![g] = left]
      /\ groups' = IF left = << >> THEN Without(groups, g) ELSE groups
      /\ stage' = [stage EXCEPT ![j] = to]
    BY DEF Dequeue, Move
<1>2. Once(queue[g]) /\ queue[g] # << >> /\ Holds(queue[g], j)
    <2>1. Once(queue[g]) /\ Holds(queue[g], j)
        BY <1>0 DEF ListsInv
    <2> QED BY <2>1, EmptySeq DEF Holds
<1>3. /\ left \in Seq(Jobs) /\ Once(left) /\ ~Holds(left, j)
      /\ \A y : y # j => (Holds(left, y) <=> Holds(queue[g], y))
    <2> HIDE DEF g
    <2> QED BY <1>0, <1>2, WithoutEntries
<1> HIDE DEF g, left
<1>4. queue'[g] = left /\ \A h \in Groups \ {g} : queue'[h] = queue[h]
    BY <1>0, <1>1 DEF TypeInv
<1>5. stage'[j] # "waiting" /\ \A k \in Jobs \ {j} : stage'[k] = stage[k]
    BY <1>1 DEF TypeInv
<1>6. queue' \in [Groups -> Seq(Jobs)]
    BY <1>0, <1>1, <1>3 DEF TypeInv
<1>7. /\ groups' \in Seq(Groups) /\ Once(groups')
      /\ \A h \in Groups : Holds(groups', h) <=> Holds(groups, h) /\ (h = g => left # << >>)
    <2>1. Once(groups) /\ groups \in Seq(Groups) /\ Holds(groups, g)
        BY <1>0, <1>2 DEF ListsInv, TypeInv
    <2>2. CASE left = << >>
        <3>1. groups' = Without(groups, g)
            BY <1>1, <2>2
        <3> QED BY <2>1, <2>2, <3>1, WithoutEntries
    <2>3. CASE left # << >>
        BY <1>1, <2>1, <2>3
    <2> QED BY <2>2, <2>3
<1>8. ASSUME NEW h \in Groups
      PROVE  /\ Holds(groups', h) <=> queue'[h] # << >>
             /\ Once(queue'[h])
             /\ \A k \in Jobs : Holds(queue'[h], k) <=> stage'[k] = "waiting" /\ GroupOf[k] = h
    <2>0. /\ Holds(groups, h) <=> queue[h] # << >>
          /\ Once(queue[h])
          /\ \A k \in Jobs : Holds(queue[h], k) <=> stage[k] = "waiting" /\ GroupOf[k] = h
        BY DEF ListsInv
    <2>1. CASE h = g
        BY <1>2, <1>3, <1>4, <1>5, <1>7, <2>0, <2>1 DEF g
    <2>2. CASE h # g
        BY <1>4, <1>5, <1>7, <2>0, <2>2 DEF g
    <2> QED BY <2>1, <2>2
<1> QED BY <1>6, <1>7, <1>8 DEF ListsInv

\* A job that changes its stage takes a place, gives one up, or does neither.
LEMMA MoveStep ==
    ASSUME TypeInv, NEW j \in Jobs, NEW to \in Stages, Move(j, to)
    PROVE  /\ stage' \in [Jobs -> Stages] /\ stage'[j] = to
           /\ \A k \in Jobs \ {j} : stage'[k] = stage[k]
           /\ Taking' = IF to \in {"running", "answered"} THEN Taking \cup {j} ELSE Taking \ {j}
<1>1. /\ stage' \in [Jobs -> Stages] /\ stage'[j] = to
      /\ \A k \in Jobs \ {j} : stage'[k] = stage[k]
    BY DEF Move, TypeInv
<1>2. Taking' = { k \in Jobs : stage'[k] \in {"running", "answered"} }
    BY DEF Taking
<1>3. ASSUME NEW k
      PROVE  k \in Taking' <=>
               k \in IF to \in {"running", "answered"} THEN Taking \cup {j} ELSE Taking \ {j}
    <2>1. CASE k = j
        BY <1>1, <1>2, <2>1 DEF Taking
    <2>2. CASE k # j
        BY <1>1, <1>2, <2>2 DEF Taking
    <2> QED BY <2>1, <2>2
<1> QED BY <1>1, <1>3

LEMMA TakingFinite ==
    /\ IsFiniteSet(Taking) /\ Cardinality(Taking) \in Nat
    /\ \A j : Cardinality(Taking \cup {j}) =
                IF j \in Taking THEN Cardinality(Taking) ELSE Cardinality(Taking) + 1
    /\ \A j : Cardinality(Taking \ {j}) =
                IF j \in Taking THEN Cardinality(Taking) - 1 ELSE Cardinality(Taking)
<1>1. Taking \in SUBSET Jobs /\ IsFiniteSet(Jobs)
    BY QueueAssumption DEF Taking, QueueAssumption
<1>2. IsFiniteSet(Taking)
    BY <1>1, FS_Subset
<1> QED BY <1>2, FS_CardinalityType, FS_AddElement, FS_RemoveElement

\* A set of numbers that is not empty has a least one.
LEMMA LeastOf ==
    ASSUME NEW S \in SUBSET Nat, S # {}
    PROVE  \E n \in S : \A m \in S : n <= m
<1>1. \E n \in S : \A m \in S : ~(<<m, n>> \in OpToRel(<, Nat))
    BY WFMin, NatLessThanWellFounded
<1>2. PICK n \in S : \A m \in S : ~(<<m, n>> \in OpToRel(<, Nat))
    BY <1>1
<1>3. ASSUME NEW m \in S PROVE n <= m
    <2>1. m \in Nat /\ n \in Nat
        OBVIOUS
    <2>2. ~(<<m, n>> \in OpToRel(<, Nat))
        BY <1>2
    <2>3. ~(m < n)
        BY <2>1, <2>2 DEF OpToRel
    <2> QED BY <2>1, <2>3
<1> QED BY <1>3

LEMMA WakeInType ==
    ASSUME TypeInv, NEW j \in Jobs
    PROVE  WakeIn(j) \in Nat
<1>1. readyIn[j] \in Nat /\ cooldown[ProviderOf[j]] \in Nat
    BY QueueAssumption DEF QueueAssumption, TypeInv
<1> QED BY <1>1 DEF WakeIn, Larger

\* The job that a review starts waits, and is ready.
LEMMA FirstReadyOf ==
    ASSUME TypeInv, ListsInv, NEW g \in Groups, HasReady(g)
    PROVE  /\ FirstReady(g) \in Jobs /\ stage[FirstReady(g)] = "waiting"
           /\ GroupOf[FirstReady(g)] = g /\ WakeIn(FirstReady(g)) = 0
<1> DEFINE ready == { n \in 1 .. Len(queue[g]) : WakeIn(queue[g][n]) = 0 }
           first(n) == /\ WakeIn(queue[g][n]) = 0
                       /\ \A m \in 1 .. Len(queue[g]) : m < n => WakeIn(queue[g][m]) # 0
<1>1. queue[g] \in Seq(Jobs) /\ DOMAIN queue[g] = 1 .. Len(queue[g]) /\ Len(queue[g]) \in Nat
    BY LenProperties DEF TypeInv
<1>2. ready \in SUBSET Nat /\ ready # {}
    BY <1>1 DEF HasReady
<1>3. \E n \in ready : \A m \in ready : n <= m
    <2> HIDE DEF ready
    <2> QED BY <1>2, LeastOf
<1>4. \E n \in 1 .. Len(queue[g]) : first(n)
    <2>1. PICK n \in ready : \A m \in ready : n <= m
        BY <1>3
    <2>2. n \in 1 .. Len(queue[g]) /\ WakeIn(queue[g][n]) = 0
        OBVIOUS
    <2>3. ASSUME NEW m \in 1 .. Len(queue[g]), m < n PROVE WakeIn(queue[g][m]) # 0
        <3>1. m \notin ready
            BY <1>1, <2>1, <2>2, <2>3
        <3> QED BY <3>1
    <2> QED BY <2>2, <2>3
<1> DEFINE c == CHOOSE n \in 1 .. Len(queue[g]) : first(n)
<1>5. c \in 1 .. Len(queue[g]) /\ first(c)
    <2> HIDE DEF first
    <2> QED BY <1>4
<1>6. FirstReady(g) = queue[g][c]
    BY <1>1 DEF FirstReady
<1> HIDE DEF c
<1>7. FirstReady(g) \in Jobs /\ Holds(queue[g], FirstReady(g)) /\ WakeIn(FirstReady(g)) = 0
    BY <1>1, <1>5, <1>6, ElementOfSeq DEF Holds
<1> QED BY <1>7 DEF ListsInv

\* The review that is at the turn is one of the map.
LEMMA InTurnIn ==
    ASSUME TypeInv, NEW i \in 0 .. Len(groups) - 1
    PROVE  /\ Len(groups) \in Nat \ {0} /\ Turn \in 0 .. Len(groups) - 1
           /\ (Turn + i) % Len(groups) \in 0 .. Len(groups) - 1
           /\ InTurn(i) = groups[((Turn + i) % Len(groups)) + 1]
           /\ InTurn(i) \in Groups /\ Holds(groups, InTurn(i))
<1>1. groups \in Seq(Groups) /\ Len(groups) \in Nat \ {0} /\ DOMAIN groups = 1 .. Len(groups)
    BY LenProperties DEF TypeInv
<1>2. \A a \in Nat, n \in Nat \ {0} : a % n \in 0 .. n - 1
    OBVIOUS
<1>3. Turn \in 0 .. Len(groups) - 1
    <2>1. CASE \E m \in DOMAIN groups : groups[m] = lastGroup
        <3> DEFINE c == CHOOSE m \in DOMAIN groups : groups[m] = lastGroup
        <3>1. c \in DOMAIN groups
            BY <2>1
        <3>2. Turn = c % Len(groups)
            BY <2>1 DEF Turn
        <3> HIDE DEF c
        <3>3. c \in Nat
            BY <1>1, <3>1
        <3> QED BY <1>1, <1>2, <3>2, <3>3
    <2>2. CASE ~\E m \in DOMAIN groups : groups[m] = lastGroup
        BY <1>1, <2>2 DEF Turn
    <2> QED BY <2>1, <2>2
<1>4. Turn + i \in Nat
    BY <1>1, <1>3
<1> DEFINE n == (Turn + i) % Len(groups)
<1>5. n \in 0 .. Len(groups) - 1
    <2> DEFINE a == Turn + i
    <2>1. a \in Nat
        BY <1>4
    <2> HIDE DEF a
    <2>2. a % Len(groups) \in 0 .. Len(groups) - 1
        BY <1>1, <1>2, <2>1
    <2> QED BY <2>2 DEF a
<1>6. InTurn(i) = groups[n + 1]
    BY DEF InTurn
<1> HIDE DEF n
<1>7. n + 1 \in 1 .. Len(groups)
    BY <1>1, <1>5
<1>8. InTurn(i) \in Groups /\ Holds(groups, InTurn(i))
    BY <1>1, <1>6, <1>7, ElementOfSeq DEF Holds
<1> QED BY <1>1, <1>3, <1>5, <1>6, <1>8 DEF n

\* The counts that a step leaves are numbers.
LEMMA RecountType ==
    ASSUME TypeInv, NEW h, Recount(h)
    PROVE  overtaken' \in [Groups -> [Groups -> Nat]]
<1>1. \A g, x \in Groups : overtaken[g][x] \in Nat
    BY DEF TypeInv
<1> QED BY <1>1 DEF Recount

\* A caller is answered once.
LEMMA SettleStep ==
    ASSUME TypeInv, NEW j \in Jobs, NEW how \in {"resolved", "rejected"}, Settle(j, how)
    PROVE  /\ promise' \in [Jobs -> {"pending", "resolved", "rejected"}]
           /\ promise'[j] # "pending"
           /\ \A k \in Jobs \ {j} : promise'[k] = promise[k]
<1>1. CASE promise[j] = "pending"
    <2>1. promise' = [promise EXCEPT ![j] = how]
        BY <1>1 DEF Settle
    <2> QED BY <2>1 DEF TypeInv
<1>2. CASE promise[j] # "pending"
    <2>1. promise' = promise
        BY <1>2 DEF Settle
    <2> QED BY <1>2, <2>1 DEF TypeInv
<1> QED BY <1>1, <1>2

\* The lists do not change with what they are not about.
LEMMA SameLists ==
    ASSUME TypeInv, ListsInv, UNCHANGED <<groups, queue>>,
           \A k \in Jobs : stage'[k] = "waiting" <=> stage[k] = "waiting"
    PROVE  groups' \in Seq(Groups) /\ queue' \in [Groups -> Seq(Jobs)] /\ ListsInv'
<1>1. groups' = groups /\ queue' = queue
    OBVIOUS
<1>2. Once(groups) /\ Once(groups') /\ \A g \in Groups : Holds(groups, g) <=> Holds(groups', g)
    BY <1>1 DEF ListsInv
<1> QED BY <1>1, <1>2 DEF TypeInv, ListsInv

LEMMA InitBook == Init => Book
<1> SUFFICES ASSUME Init PROVE Book
    OBVIOUS
<1>1. TypeInv
    <2>1. << >> \in Seq(Groups) /\ << >> \in Seq(Jobs)
        BY EmptySeq
    <2> QED BY <2>1 DEF Init, TypeInv, Stages
<1>2. ListsInv
    <2>1. ~Holds(<< >>, 0) /\ Len(<< >>) = 0 /\ Once(<< >>) /\ \A x : ~Holds(<< >>, x)
        BY EmptySeq DEF Holds, Once
    <2> QED BY <2>1 DEF Init, ListsInv
<1>3. JobsInv
    BY QueueAssumption DEF QueueAssumption, Init, JobsInv
<1>4. PlacesInv
    <2>1. Taking = {}
        BY DEF Taking, Init
    <2>2. Concurrency >= 0
        BY QueueAssumption DEF QueueAssumption
    <2> QED BY <2>1, <2>2, FS_EmptySet DEF PlacesInv, Init
<1> QED BY <1>1, <1>2, <1>3, <1>4 DEF Book

LEMMA RunBook ==
    ASSUME Book, NEW j \in Jobs, Run(j)
    PROVE  Book'
<1> USE DEF Book
<1>0. /\ stage[j] = "new" /\ UNCHANGED <<places, waits, answer, aborted, hearing, overtaken>>
      /\ promise[j] = "pending"
    BY DEF Run, JobsInv
<1>1. CASE j \in aborted
    <2>1. Move(j, "left") /\ Settle(j, "rejected") /\ UNCHANGED <<groups, queue, pumping>>
        BY <1>1 DEF Run
    <2>2. /\ stage' \in [Jobs -> Stages] /\ stage'[j] = "left"
          /\ \A k \in Jobs \ {j} : stage'[k] = stage[k]
          /\ Taking' = Taking
        BY <1>0, <2>1, MoveStep DEF Stages, Taking
    <2>3. groups' \in Seq(Groups) /\ queue' \in [Groups -> Seq(Jobs)] /\ ListsInv'
        BY <1>0, <2>1, <2>2, SameLists
    <2>4. TypeInv'
        BY <1>0, <2>1, <2>2, <2>3, SettleStep DEF TypeInv, places, waits
    <2>5. JobsInv'
        BY <1>0, <2>1, <2>2, SettleStep DEF JobsInv, places, waits
    <2>6. PlacesInv'
        BY <1>0, <2>2 DEF PlacesInv, places
    <2> QED BY <2>3, <2>4, <2>5, <2>6
<1>2. CASE j \notin aborted
    <2>1. Move(j, "waiting") /\ Enqueue(j) /\ pumping' = TRUE /\ UNCHANGED promise
        BY <1>2 DEF Run
    <2>2. /\ stage' \in [Jobs -> Stages] /\ stage'[j] = "waiting"
          /\ \A k \in Jobs \ {j} : stage'[k] = stage[k]
          /\ Taking' = Taking
        BY <1>0, <2>1, MoveStep DEF Stages, Taking
    <2>3. groups' \in Seq(Groups) /\ queue' \in [Groups -> Seq(Jobs)] /\ ListsInv'
        BY <1>0, <2>1, EnqueueStep
    <2>4. TypeInv'
        BY <1>0, <2>1, <2>2, <2>3 DEF TypeInv, places, waits
    <2>5. JobsInv'
        <3>1. attempts[j] < Attempts
            BY <1>0, QueueAssumption DEF JobsInv, QueueAssumption
        <3> QED BY <1>0, <1>2, <2>1, <2>2, <3>1 DEF JobsInv, places, waits
    <2>6. PlacesInv'
        BY <1>0, <2>2 DEF PlacesInv, places
    <2> QED BY <2>3, <2>4, <2>5, <2>6
<1> QED BY <1>1, <1>2

LEMMA AbortBook ==
    ASSUME Book, NEW j \in Jobs, Abort(j)
    PROVE  Book'
<1> USE DEF Book
<1>0. /\ aborted' = aborted \cup {j} /\ hearing' = hearing \ {j} /\ UNCHANGED <<places, waits, answer>>
      /\ overtaken' \in [Groups -> [Groups -> Nat]]
    BY RecountType DEF Abort, Hears
<1>1. CASE stage[j] = "waiting"
    <2>1. Dequeue(j) /\ Move(j, "left") /\ Settle(j, "rejected") /\ pumping' = TRUE
        BY <1>1 DEF Abort, LeavesAtOnce
    <2>2. /\ stage' \in [Jobs -> Stages] /\ stage'[j] = "left"
          /\ \A k \in Jobs \ {j} : stage'[k] = stage[k]
          /\ Taking' = Taking
        BY <1>1, <2>1, MoveStep DEF Stages, Taking
    <2>3. groups' \in Seq(Groups) /\ queue' \in [Groups -> Seq(Jobs)] /\ ListsInv'
        <3>1. "left" \in Stages \ {"waiting"}
            BY DEF Stages
        <3> QED BY <1>1, <2>1, <3>1, DequeueStep
    <2>4. TypeInv'
        BY <1>0, <2>1, <2>2, <2>3, SettleStep DEF TypeInv, places, waits
    <2>5. JobsInv'
        BY <1>0, <2>1, <2>2, SettleStep DEF JobsInv, places, waits
    <2>6. PlacesInv'
        BY <1>0, <2>2 DEF PlacesInv, places
    <2> QED BY <2>3, <2>4, <2>5, <2>6
<1>2. CASE stage[j] # "waiting"
    <2>1. UNCHANGED <<groups, queue, stage, promise, pumping>>
        BY <1>2 DEF Abort, LeavesAtOnce
    <2>2. groups' \in Seq(Groups) /\ queue' \in [Groups -> Seq(Jobs)] /\ ListsInv'
        BY <2>1, SameLists
    <2>3. TypeInv'
        BY <1>0, <2>1 DEF TypeInv, places, waits
    <2>4. JobsInv'
        BY <1>0, <1>2, <2>1 DEF JobsInv, places, waits
    <2>5. PlacesInv'
        BY <1>0, <2>1 DEF PlacesInv, places, Taking
    <2> QED BY <2>2, <2>3, <2>4, <2>5
<1> QED BY <1>1, <1>2

LEMMA AnswerBook ==
    ASSUME Book, NEW j \in Jobs, NEW how \in {"done", "transient", "fatal"}, Answer(j, how)
    PROVE  Book'
<1> USE DEF Book
<1>0. /\ stage[j] = "running" /\ Move(j, "answered") /\ promise[j] = "pending"
      /\ answer' = [answer EXCEPT ![j] = IF how = "done" /\ j \in aborted THEN "fatal" ELSE how]
      /\ UNCHANGED <<groups, queue, places, waits, aborted, hearing, pumping, overtaken>>
    BY DEF Answer, JobsInv
<1>1. /\ stage' \in [Jobs -> Stages] /\ stage'[j] = "answered"
      /\ \A k \in Jobs \ {j} : stage'[k] = stage[k]
      /\ Taking' = Taking
    BY <1>0, MoveStep DEF Stages, Taking
<1>2. /\ answer' \in [Jobs -> {"none", "done", "transient", "fatal"}]
      /\ \A k \in Jobs \ {j} : answer'[k] = answer[k]
      /\ answer'[j] = "transient" => how = "transient"
    BY <1>0 DEF TypeInv
<1>3. /\ promise' \in [Jobs -> {"pending", "resolved", "rejected"}]
      /\ \A k \in Jobs \ {j} : promise'[k] = promise[k]
      /\ how = "transient" => promise'[j] = "pending"
    <2>1. CASE how = "done" /\ j \notin aborted
        BY <2>1, SettleStep DEF Answer
    <2>2. CASE ~(how = "done" /\ j \notin aborted)
        BY <1>0, <2>2 DEF Answer, TypeInv
    <2> QED BY <2>1, <2>2
<1>4. groups' \in Seq(Groups) /\ queue' \in [Groups -> Seq(Jobs)] /\ ListsInv'
    BY <1>0, <1>1, SameLists
<1>5. TypeInv'
    BY <1>0, <1>1, <1>2, <1>3, <1>4 DEF TypeInv, places, waits
<1>6. JobsInv'
    BY <1>0, <1>1, <1>2, <1>3 DEF JobsInv, places, waits
<1>7. PlacesInv'
    BY <1>0, <1>1 DEF PlacesInv, places
<1> QED BY <1>4, <1>5, <1>6, <1>7

LEMMA FinishBook ==
    ASSUME Book, NEW j \in Jobs, NEW wait \in Nat, Finish(j, wait)
    PROVE  Book'
<1> USE DEF Book
<1>0. /\ stage[j] = "answered" /\ CoolDown(j, wait) /\ active' = active - 1
      /\ answer' = [answer EXCEPT ![j] = "none"] /\ pumping' = TRUE
      /\ UNCHANGED <<lastGroup, timer, attempts, aborted, hearing>>
      /\ overtaken' \in [Groups -> [Groups -> Nat]]
    BY RecountType DEF Finish
<1>1. /\ answer' \in [Jobs -> {"none", "done", "transient", "fatal"}]
      /\ answer'[j] = "none" /\ \A k \in Jobs \ {j} : answer'[k] = answer[k]
    BY <1>0 DEF TypeInv
<1>2. readyIn' \in [Jobs -> Nat] /\ cooldown' \in [Providers -> Nat]
    <2>1. Larger(wait, cooldown[ProviderOf[j]]) \in Nat
        BY QueueAssumption DEF QueueAssumption, TypeInv, Larger
    <2>2. CASE PushedBack(j)
        <3>1. /\ readyIn' = [readyIn EXCEPT ![j] = wait]
              /\ cooldown' = [cooldown EXCEPT ![ProviderOf[j]] = Larger(wait, cooldown[ProviderOf[j]])]
            BY <1>0, <2>2 DEF CoolDown
        <3> QED BY <2>1, <3>1 DEF TypeInv
    <2>3. CASE ~PushedBack(j)
        BY <1>0, <2>3 DEF CoolDown, TypeInv
    <2> QED BY <2>2, <2>3
<1>3. ASSUME NEW to \in {"waiting", "left"}, Move(j, to)
      PROVE  /\ stage' \in [Jobs -> Stages] /\ stage'[j] = to
             /\ \A k \in Jobs \ {j} : stage'[k] = stage[k]
             /\ Taking' = Taking \ {j} /\ PlacesInv'
    <2>1. /\ stage' \in [Jobs -> Stages] /\ stage'[j] = to
          /\ \A k \in Jobs \ {j} : stage'[k] = stage[k]
          /\ Taking' = Taking \ {j}
        BY <1>3, MoveStep DEF Stages
    <2>2. j \in Taking
        BY <1>0 DEF Taking
    <2>3. Cardinality(Taking') = Cardinality(Taking) - 1
        BY <2>1, <2>2, TakingFinite
    <2>4. active \in Nat /\ Concurrency \in Nat
        BY QueueAssumption DEF QueueAssumption, TypeInv
    <2> QED BY <1>0, <2>1, <2>3, <2>4 DEF PlacesInv
<1>4. active' \in Nat
    <2>1. Taking \ {j} \in SUBSET Taking /\ j \in Taking
        BY <1>0 DEF Taking
    <2>2. Cardinality(Taking \ {j}) \in Nat
        BY <2>1, TakingFinite, FS_Subset, FS_CardinalityType
    <2> QED BY <1>0, <2>1, <2>2, TakingFinite DEF PlacesInv
<1>5. CASE Again(j)
    <2>1. Move(j, "waiting") /\ Enqueue(j) /\ UNCHANGED promise
        BY <1>5 DEF Finish
    <2>2. groups' \in Seq(Groups) /\ queue' \in [Groups -> Seq(Jobs)] /\ ListsInv'
        BY <1>0, <2>1, EnqueueStep
    <2>3. TypeInv'
        BY <1>0, <1>1, <1>2, <1>3, <1>4, <2>1, <2>2 DEF TypeInv
    <2>4. JobsInv'
        <3>1. j \notin aborted /\ attempts[j] < Attempts /\ promise[j] = "pending"
            BY <1>0, <1>5 DEF Again, PushedBack, JobsInv
        <3> QED BY <1>0, <1>1, <1>3, <2>1, <3>1 DEF JobsInv
    <2> QED BY <1>3, <2>1, <2>2, <2>3, <2>4
<1>6. CASE ~Again(j)
    <2>1. Move(j, "left") /\ Settle(j, "rejected") /\ UNCHANGED <<groups, queue>>
        BY <1>6 DEF Finish
    <2>2. groups' \in Seq(Groups) /\ queue' \in [Groups -> Seq(Jobs)] /\ ListsInv'
        BY <1>0, <1>3, <2>1, SameLists
    <2>3. TypeInv'
        BY <1>0, <1>1, <1>2, <1>3, <1>4, <2>1, <2>2, SettleStep DEF TypeInv
    <2>4. JobsInv'
        BY <1>0, <1>1, <1>3, <2>1, SettleStep DEF JobsInv
    <2> QED BY <1>3, <2>1, <2>2, <2>3, <2>4
<1> QED BY <1>5, <1>6

\* What a round of the loop does: the review whose turn it is starts a job.
StartsAt(i) ==
    /\ HasReady(InTurn(i)) /\ \A k \in 0 .. i - 1 : ~HasReady(InTurn(k))
    /\ Start(FirstReady(InTurn(i)))

LEMMA PumpStartsBook ==
    ASSUME Book, PumpStarts
    PROVE  Book'
<1> USE DEF Book
<1>1. PICK i \in 0 .. Len(groups) - 1 : StartsAt(i)
    BY DEF PumpStarts, StartsAt
<1> DEFINE j == FirstReady(InTurn(i))
<1>2. j \in Jobs /\ stage[j] = "waiting"
    BY <1>1, InTurnIn, FirstReadyOf DEF StartsAt
<1>3. Start(j) /\ active < Concurrency
    BY <1>1 DEF StartsAt, PumpStarts, Free
<1> HIDE DEF j
<1>4. /\ Dequeue(j) /\ lastGroup' \in Groups /\ timer' = NoTimer
      /\ UNCHANGED <<cooldown, readyIn, answer, pumping>>
      /\ overtaken' \in [Groups -> [Groups -> Nat]]
    BY <1>2, <1>3, RecountType, QueueAssumption DEF QueueAssumption, Start
<1>5. ASSUME NEW to \in {"running", "left"}, Move(j, to)
      PROVE  /\ stage' \in [Jobs -> Stages] /\ stage'[j] = to
             /\ \A k \in Jobs \ {j} : stage'[k] = stage[k]
             /\ Taking' = (IF to = "running" THEN Taking \cup {j} ELSE Taking) /\ j \notin Taking
             /\ groups' \in Seq(Groups) /\ queue' \in [Groups -> Seq(Jobs)] /\ ListsInv'
    <2>1. /\ stage' \in [Jobs -> Stages] /\ stage'[j] = to
          /\ \A k \in Jobs \ {j} : stage'[k] = stage[k]
          /\ Taking' = (IF to = "running" THEN Taking \cup {j} ELSE Taking) /\ j \notin Taking
        BY <1>2, <1>5, MoveStep DEF Stages, Taking
    <2>2. to \in Stages \ {"waiting"}
        BY DEF Stages
    <2> QED BY <1>2, <1>4, <1>5, <2>1, <2>2, DequeueStep
<1>6. active \in Nat /\ Concurrency \in Nat
    BY QueueAssumption DEF QueueAssumption, TypeInv
<1>7. CASE j \notin hearing
    <2>1. /\ Move(j, "running") /\ active' = active + 1 /\ attempts' = [attempts EXCEPT ![j] = attempts[j] + 1]
          /\ UNCHANGED <<promise, aborted, hearing>>
        BY <1>3, <1>7 DEF Start, Runs
    <2>2. /\ stage' \in [Jobs -> Stages] /\ stage'[j] = "running"
          /\ \A k \in Jobs \ {j} : stage'[k] = stage[k]
          /\ Taking' = Taking \cup {j} /\ j \notin Taking
          /\ groups' \in Seq(Groups) /\ queue' \in [Groups -> Seq(Jobs)] /\ ListsInv'
        BY <1>5, <2>1
    <2>3. attempts' \in [Jobs -> Nat] /\ \A k \in Jobs \ {j} : attempts'[k] = attempts[k]
        <3>1. attempts \in [Jobs -> Nat] /\ attempts[j] \in Nat
            BY <1>2 DEF TypeInv
        <3>2. attempts[j] + 1 \in Nat
            BY <3>1
        <3> QED BY <1>2, <2>1, <3>1, <3>2
    <2>4. TypeInv'
        <3>1. active' \in Nat
            BY <1>6, <2>1
        <3> QED BY <1>4, <2>1, <2>2, <2>3, <3>1 DEF TypeInv
    <2>5. JobsInv'
        BY <1>2, <1>4, <2>1, <2>2, <2>3 DEF JobsInv
    <2>6. PlacesInv'
        <3>1. Cardinality(Taking') = Cardinality(Taking) + 1
            BY <2>2, TakingFinite
        <3> QED BY <1>3, <1>6, <2>1, <3>1 DEF PlacesInv
    <2> QED BY <2>2, <2>4, <2>5, <2>6
<1>8. CASE j \in hearing
    <2>1. /\ Move(j, "left") /\ Settle(j, "rejected") /\ UNCHANGED <<active, attempts>>
          /\ aborted' = aborted \cup {j} /\ hearing' = hearing \ {j}
        BY <1>3, <1>8 DEF Start, TurnedAway, Hears
    <2>2. /\ stage' \in [Jobs -> Stages] /\ stage'[j] = "left"
          /\ \A k \in Jobs \ {j} : stage'[k] = stage[k]
          /\ Taking' = Taking
          /\ groups' \in Seq(Groups) /\ queue' \in [Groups -> Seq(Jobs)] /\ ListsInv'
        BY <1>5, <2>1
    <2>3. TypeInv'
        BY <1>2, <1>4, <2>1, <2>2, SettleStep DEF TypeInv
    <2>4. JobsInv'
        BY <1>2, <1>4, <2>1, <2>2, SettleStep DEF JobsInv
    <2>5. PlacesInv'
        BY <2>1, <2>2 DEF PlacesInv
    <2> QED BY <2>2, <2>3, <2>4, <2>5
<1> QED BY <1>7, <1>8

\* The wait of the job that is ready first.
LEMMA EarliestOf ==
    ASSUME TypeInv, ListsInv, groups # << >>
    PROVE  Earliest \in Nat /\ \A j \in Waiting : Earliest <= WakeIn(j)
<1> DEFINE waits_ == { WakeIn(j) : j \in Waiting }
<1>1. waits_ \in SUBSET Nat
    BY WakeInType DEF Waiting
<1>2. waits_ # {}
    <2>1. groups \in Seq(Groups) /\ Len(groups) \in Nat \ {0}
        BY EmptySeq, LenProperties DEF TypeInv
    <2>2. groups[1] \in Groups /\ Holds(groups, groups[1])
        BY <2>1, ElementOfSeq DEF Holds
    <2> DEFINE g == groups[1]
    <2>3. queue[g] \in Seq(Jobs) /\ queue[g] # << >>
        BY <2>2 DEF ListsInv, TypeInv
    <2>4. Len(queue[g]) \in Nat \ {0}
        BY <2>3, EmptySeq, LenProperties
    <2>5. queue[g][1] \in Jobs /\ Holds(queue[g], queue[g][1])
        BY <2>3, <2>4, ElementOfSeq DEF Holds
    <2>6. queue[g][1] \in Waiting
        BY <2>2, <2>5 DEF ListsInv, Waiting
    <2> QED BY <2>6
<1>3. \E n \in waits_ : \A m \in waits_ : n <= m
    <2> HIDE DEF waits_
    <2> QED BY <1>1, <1>2, LeastOf
<1>4. \E n \in waits_ : \A j \in Waiting : n <= WakeIn(j)
    BY <1>3
<1>5. Earliest \in waits_ /\ \A j \in Waiting : Earliest <= WakeIn(j)
    <2> DEFINE c == CHOOSE n \in waits_ : \A j \in Waiting : n <= WakeIn(j)
    <2>1. c \in waits_ /\ \A j \in Waiting : c <= WakeIn(j)
        <3> HIDE DEF waits_
        <3> QED BY <1>4
    <2>2. Earliest = c
        BY DEF Earliest
    <2> QED BY <2>1, <2>2
<1> QED BY <1>1, <1>5

LEMMA PumpEndsBook ==
    ASSUME Book, PumpEnds
    PROVE  Book'
<1> USE DEF Book
<1>1. timer' \in Nat \cup {NoTimer}
    BY EarliestOf DEF PumpEnds
<1>2. groups' \in Seq(Groups) /\ queue' \in [Groups -> Seq(Jobs)] /\ ListsInv'
    BY SameLists DEF PumpEnds
<1>3. TypeInv'
    BY <1>1 DEF PumpEnds, TypeInv, waits
<1>4. JobsInv' /\ PlacesInv'
    BY DEF PumpEnds, JobsInv, PlacesInv, Taking, waits
<1> QED BY <1>2, <1>3, <1>4

LEMMA SoonerType == \A n \in Nat : Sooner(n) \in Nat
BY DEF Sooner

LEMMA ClockBook ==
    ASSUME Book, TimerFires \/ Passes
    PROVE  Book'
<1> USE DEF Book
<1>1. groups' \in Seq(Groups) /\ queue' \in [Groups -> Seq(Jobs)] /\ ListsInv'
    BY SameLists DEF TimerFires, Passes
<1>2. TypeInv'
    <2>1. CASE TimerFires
        BY <2>1 DEF TimerFires, TypeInv, waits
    <2>2. CASE Passes
        BY <2>2, SoonerType DEF Passes, TypeInv
    <2> QED BY <2>1, <2>2
<1>3. JobsInv' /\ PlacesInv'
    BY DEF TimerFires, Passes, JobsInv, PlacesInv, Taking, waits
<1> QED BY <1>1, <1>2, <1>3

LEMMA SignalBook ==
    ASSUME Book, NEW sig \in Signals, SignalAborts(sig)
    PROVE  Book'
<1> USE DEF Book
<1>1. groups' \in Seq(Groups) /\ queue' \in [Groups -> Seq(Jobs)] /\ ListsInv'
    BY SameLists DEF SignalAborts
<1>2. TypeInv'
    BY DEF SignalAborts, TypeInv, places, waits
<1>3. JobsInv' /\ PlacesInv'
    BY DEF SignalAborts, JobsInv, PlacesInv, Taking, places, waits
<1> QED BY <1>1, <1>2, <1>3

LEMMA SameBook ==
    ASSUME Book, UNCHANGED vars
    PROVE  Book'
BY SameLists DEF Book, TypeInv, JobsInv, PlacesInv, Taking, vars, places, waits

\* The steps one by one; a wait of Finish is a number.
Steps ==
    \/ \E j \in Jobs :
         \/ Run(j) \/ Abort(j)
         \/ \E how \in {"done", "transient", "fatal"} : Answer(j, how)
         \/ \E wait \in Nat : Finish(j, wait)
    \/ \E sig \in Signals : SignalAborts(sig)
    \/ PumpStarts \/ PumpEnds \/ TimerFires \/ Passes

LEMMA NextSteps == Next => Steps
<1>1. \A b : \A n \in 1 .. b : n \in Int /\ n >= 1 => n \in Nat
    OBVIOUS
<1>2. \A b : \A n \in 1 .. b : n \in Int /\ n >= 1
    BY SMT
<1>3. \A n \in 1 .. 2 ^ Attempts + MaxWait : n \in Nat
    BY <1>1, <1>2
<1> QED BY <1>3 DEF Next, System, Pump, Steps

LEMMA NextBook ==
    ASSUME Book, [Next]_vars
    PROVE  Book'
<1>1. ASSUME Next PROVE Book'
    <2>1. Steps
        BY <1>1, NextSteps
    <2> QED BY <2>1, RunBook, AbortBook, AnswerBook, FinishBook, PumpStartsBook, PumpEndsBook,
               ClockBook, SignalBook DEF Steps
<1> QED BY <1>1, SameBook

\* The queue keeps its books: types, places, lists and promises.
THEOREM BookInvariant == Spec => []Book
<1> QED BY InitBook, NextBook, PTL DEF Spec

\* How often a list holds an entry.
LEMMA HoldsCount ==
    ASSUME NEW S, NEW s \in Seq(S), Once(s), NEW x
    PROVE  Cardinality({ n \in DOMAIN s : s[n] = x }) = IF Holds(s, x) THEN 1 ELSE 0
<1>1. DOMAIN s = 1 .. Len(s)
    BY LenProperties
<1>2. CASE Holds(s, x)
    <2>1. { n \in DOMAIN s : s[n] = x } = {Place(s, x)}
        BY <1>1, <1>2, PlaceOf
    <2> QED BY <1>2, <2>1, FS_Singleton
<1>3. CASE ~Holds(s, x)
    <2>1. { n \in DOMAIN s : s[n] = x } = {}
        BY <1>1, <1>3 DEF Holds
    <2> QED BY <1>3, <2>1, FS_EmptySet
<1> QED BY <1>2, <1>3

LEMMA BookIsOK == Book => QueueOK
<1> SUFFICES ASSUME Book PROVE QueueOK
    OBVIOUS
<1> USE DEF Book
<1>1. active = Cardinality({ j \in Jobs : stage[j] \in {"running", "answered"} }) /\ active <= Concurrency
    BY DEF PlacesInv, Taking
<1>2. ASSUME NEW g \in Groups
      PROVE  /\ \A n \in DOMAIN queue[g] : GroupOf[queue[g][n]] = g
             /\ Cardinality({ i \in DOMAIN groups : groups[i] = g }) = IF queue[g] = << >> THEN 0 ELSE 1
    <2>1. queue[g] \in Seq(Jobs) /\ groups \in Seq(Groups)
        BY DEF TypeInv
    <2>2. ASSUME NEW n \in DOMAIN queue[g] PROVE GroupOf[queue[g][n]] = g
        <3>1. n \in 1 .. Len(queue[g]) /\ queue[g][n] \in Jobs
            BY <2>1, LenProperties, ElementOfSeq
        <3> QED BY <3>1 DEF ListsInv, Holds
    <2>3. Once(groups) /\ (Holds(groups, g) <=> queue[g] # << >>)
        BY DEF ListsInv
    <2> QED BY <2>1, <2>2, <2>3, HoldsCount
<1>3. ASSUME NEW j \in Jobs
      PROVE  Cardinality(InQueue(j)) = IF stage[j] = "waiting" THEN 1 ELSE 0
    <2>1. GroupOf[j] \in Groups /\ queue[GroupOf[j]] \in Seq(Jobs)
        BY QueueAssumption DEF QueueAssumption, TypeInv
    <2>2. Once(queue[GroupOf[j]]) /\ (Holds(queue[GroupOf[j]], j) <=> stage[j] = "waiting")
        BY <2>1 DEF ListsInv
    <2> QED BY <2>1, <2>2, HoldsCount DEF InQueue
<1> QED BY <1>1, <1>2, <1>3 DEF QueueOK, JobsInv

\* ReviewQueue of scheduler.ts: never more jobs run than there are places, and
\* a waiting job is in its review's queue, once.
THEOREM BooksAreKept == Spec => []QueueOK
<1> QED BY BookInvariant, BookIsOK, PTL

-----------------------------------------------------------------------------
(* No wake-up is lost.                                                     *)

LEMMA NextWakes ==
    ASSUME Book, NoLostWakeUp, [Next]_vars
    PROVE  NoLostWakeUp'
<1> USE DEF Book
<1> SUFFICES ASSUME ~pumping', active' < Concurrency, NEW j \in Waiting'
             PROVE  timer' # NoTimer /\ timer' <= WakeIn(j)'
    BY DEF NoLostWakeUp
<1>0. j \in Jobs /\ stage'[j] = "waiting"
    BY DEF Waiting
<1>1. ASSUME ~pumping, active' = active, timer' = timer, UNCHANGED <<cooldown, readyIn>>,
             stage[j] = "waiting"
      PROVE  timer' # NoTimer /\ timer' <= WakeIn(j)'
    BY <1>0, <1>1 DEF NoLostWakeUp, Waiting, WakeIn
<1>2. CASE \E k \in Jobs : Run(k) \/ Abort(k) \/ \E how \in {"done", "transient", "fatal"} : Answer(k, how)
    <2>1. PICK k \in Jobs : Run(k) \/ Abort(k) \/ \E how \in {"done", "transient", "fatal"} : Answer(k, how)
        BY <1>2
    <2>2. ~pumping /\ active' = active /\ timer' = timer /\ UNCHANGED <<cooldown, readyIn>>
        BY <2>1 DEF Run, Abort, Answer, Calm, places, waits
    <2>3. stage[j] = "waiting"
        BY <1>0, <2>1 DEF Run, Abort, Answer, Move, TypeInv
    <2> QED BY <1>1, <2>2, <2>3
<1>3. CASE PumpStarts \/ TimerFires \/ \E k \in Jobs : \E wait \in Nat : Finish(k, wait)
    <2>1. CASE PumpStarts
        BY <2>1 DEF PumpStarts, Start
    <2> QED BY <1>3, <2>1 DEF TimerFires, Finish
<1>4. CASE PumpEnds
    <2>1. /\ active' = active /\ stage' = stage /\ WakeIn(j)' = WakeIn(j)
          /\ timer' = IF active < Concurrency /\ groups # << >> THEN Earliest ELSE NoTimer
        BY <1>4 DEF PumpEnds, Free, waits, WakeIn
    <2>2. groups # << >>
        <3>1. GroupOf[j] \in Groups /\ Holds(queue[GroupOf[j]], j)
            BY <1>0, <2>1, QueueAssumption DEF QueueAssumption, ListsInv
        <3>2. queue[GroupOf[j]] # << >>
            BY <3>1, EmptySeq DEF Holds
        <3>3. Holds(groups, GroupOf[j])
            BY <3>1, <3>2 DEF ListsInv
        <3> QED BY <3>3, EmptySeq DEF Holds
    <2>3. j \in Waiting
        BY <1>0, <2>1 DEF Waiting
    <2> QED BY <2>1, <2>2, <2>3, EarliestOf, QueueAssumption DEF QueueAssumption
<1>5. CASE Passes
    <2>1. ~pumping /\ active' = active /\ stage' = stage
        BY <1>5 DEF Passes, Calm
    <2>2. timer # NoTimer /\ timer <= WakeIn(j)
        BY <1>0, <2>1 DEF NoLostWakeUp, Waiting
    <2> DEFINE c == cooldown[ProviderOf[j]]
    <2>3. readyIn[j] \in Nat /\ c \in Nat /\ timer \in Nat
        BY <1>0, <2>2, QueueAssumption DEF QueueAssumption, TypeInv
    <2>4. WakeIn(j)' = Larger(Sooner(readyIn[j]), Sooner(c)) /\ timer' = Sooner(timer)
        BY <1>0, <1>5, <2>2, QueueAssumption DEF QueueAssumption, Passes, WakeIn
    <2>5. timer <= Larger(readyIn[j], c)
        BY <2>2 DEF WakeIn
    <2> HIDE DEF c
    <2>6. Sooner(timer) \in Nat /\ Sooner(timer) <= Larger(Sooner(readyIn[j]), Sooner(c))
        BY <2>3, <2>5 DEF Sooner, Larger
    <2> QED BY <2>4, <2>6, QueueAssumption DEF QueueAssumption
<1>6. CASE UNCHANGED vars
    BY <1>0, <1>1, <1>6 DEF vars, places, waits
<1>7. CASE \E sig \in Signals : SignalAborts(sig)
    BY <1>0, <1>1, <1>7 DEF SignalAborts, Calm, places, waits
<1> QED BY <1>2, <1>3, <1>4, <1>5, <1>6, <1>7, NextSteps DEF Steps

\* schedulePump and the timer of scheduler.ts: while a place is free and a job
\* waits, the timer is set, no later than the first of them is ready.
THEOREM WakeUpsAreKept == Spec => []NoLostWakeUp
<1>1. Init => NoLostWakeUp
    BY DEF Init, NoLostWakeUp, Waiting
<1> QED BY <1>1, BookInvariant, NextWakes, PTL DEF Spec

-----------------------------------------------------------------------------
(* How often a review is passed over.                                      *)

LEMMA PlacesDiffer ==
    ASSUME NEW s, NEW x, NEW y, Once(s), Holds(s, x), Holds(s, y), Place(s, x) = Place(s, y)
    PROVE  x = y
BY PlaceOf

\* Whether x is ahead of g in the map, and whether the turn, which follows the
\* review l, comes to x only after the end of the map.
AheadIn(s, x, g) == Holds(s, x) /\ Place(s, x) < Place(s, g)
BehindIn(s, l, x) == x # l /\ (~Holds(s, x) \/ (Holds(s, l) /\ Place(s, l) < Place(s, x)))

\* How often x may still start a job before g does: as often as reviews are
\* ahead of g, once more if x comes before the turn is back at the front, and
\* once less if the turn is on its way to g and has passed x.
RoomIn(s, l, g, x) ==
    Place(s, g) - 1
    + (IF ~AheadIn(s, l, g) /\ ~AheadIn(s, x, g) /\ BehindIn(s, l, x) THEN 1 ELSE 0)
    - (IF AheadIn(s, l, g) /\ AheadIn(s, x, g) /\ Place(s, x) <= Place(s, l) THEN 1 ELSE 0)

LEMMA RoomType ==
    ASSUME NEW S, NEW s \in Seq(S), Once(s), NEW g, NEW x, NEW l, Holds(s, g)
    PROVE  RoomIn(s, l, g, x) \in Nat
<1>1. Len(s) \in Nat /\ Place(s, g) \in 1 .. Len(s)
    BY LenProperties, PlaceOf
<1>2. AheadIn(s, l, g) => Place(s, g) >= 2
    <2>1. Holds(s, l) => Place(s, l) \in 1 .. Len(s)
        BY PlaceOf
    <2> QED BY <1>1, <2>1 DEF AheadIn
<1> QED BY <1>1, <1>2 DEF RoomIn

\* No more than all other reviews are ahead of one.
LEMMA RoomBound ==
    ASSUME NEW S, IsFiniteSet(S), NEW s \in Seq(S), Once(s),
           NEW g \in S, NEW x \in S \ {g}, NEW l, Holds(s, g)
    PROVE  RoomIn(s, l, g, x) < Cardinality(S)
<1> DEFINE p == Place(s, g)
           f == [n \in 1 .. p - 1 |-> s[n]]
<1>1. Len(s) \in Nat /\ p \in 1 .. Len(s) /\ s[p] = g
    BY LenProperties, PlaceOf
<1> HIDE DEF p
<1>2. /\ IsFiniteSet(S \ {g}) /\ Cardinality(S \ {g}) = Cardinality(S) - 1
      /\ IsFiniteSet((S \ {g}) \ {x}) /\ Cardinality((S \ {g}) \ {x}) = Cardinality(S) - 1 - 1
      /\ Cardinality(S) \in Nat
    <2>1. Cardinality(S) \in Nat
        BY FS_CardinalityType
    <2>2. IsFiniteSet(S \ {g}) /\ Cardinality(S \ {g}) = Cardinality(S) - 1
        BY FS_RemoveElement
    <2> DEFINE T == S \ {g}
    <2>3. IsFiniteSet(T) /\ x \in T
        BY <2>2
    <2> HIDE DEF T
    <2>4. IsFiniteSet(T \ {x}) /\ Cardinality(T \ {x}) = Cardinality(T) - 1
        BY <2>3, FS_RemoveElement
    <2> QED BY <2>1, <2>2, <2>4 DEF T
<1>3. ASSUME NEW n \in 1 .. p - 1 PROVE n \in 1 .. Len(s) /\ s[n] \in S \ {g}
    <2>1. n \in 1 .. Len(s) /\ n # p
        BY <1>1
    <2>2. s[n] \in S
        BY <2>1, ElementOfSeq
    <2> QED BY <1>1, <2>1, <2>2 DEF Once
<1>4. ASSUME NEW T, IsFiniteSet(T), \A n \in 1 .. p - 1 : s[n] \in T
      PROVE  p - 1 <= Cardinality(T)
    <2>1. f \in [1 .. p - 1 -> T]
        BY <1>4
    <2>2. \A m, n \in 1 .. p - 1 : f[m] = f[n] => m = n
        BY <1>3 DEF Once
    <2> HIDE DEF f
    <2>3. f \in Injection(1 .. p - 1, T)
        BY <2>1, <2>2 DEF Injection, IsInjective
    <2>4. Cardinality(1 .. p - 1) <= Cardinality(T)
        BY <1>4, <2>3, FS_Injection
    <2>5. Cardinality(1 .. p - 1) = p - 1
        <3>1. 1 \in Int /\ p - 1 \in Int /\ p - 1 >= 0
            BY <1>1
        <3> QED BY <3>1, FS_Interval
    <2> QED BY <2>4, <2>5
<1>5. p - 1 <= Cardinality(S) - 1
    BY <1>2, <1>3, <1>4
<1>6. ~AheadIn(s, x, g) => p - 1 <= Cardinality(S) - 1 - 1
    <2> SUFFICES ASSUME ~AheadIn(s, x, g) PROVE p - 1 <= Cardinality(S) - 1 - 1
        OBVIOUS
    <2>1. ASSUME NEW n \in 1 .. p - 1 PROVE s[n] \in (S \ {g}) \ {x}
        <3>1. s[n] # x
            <4> SUFFICES ASSUME s[n] = x PROVE FALSE
                OBVIOUS
            <4>1. Holds(s, x) /\ Place(s, x) = n
                BY <1>3, PlaceOf DEF Holds
            <4> QED BY <1>1, <4>1 DEF AheadIn, p
        <3> QED BY <1>3, <3>1
    <2> QED BY <1>2, <1>4, <2>1
<1> DEFINE one == IF ~AheadIn(s, l, g) /\ ~AheadIn(s, x, g) /\ BehindIn(s, l, x) THEN 1 ELSE 0
           less == IF AheadIn(s, l, g) /\ AheadIn(s, x, g) /\ Place(s, x) <= Place(s, l) THEN 1 ELSE 0
<1>7. RoomIn(s, l, g, x) = p - 1 + one - less
    BY DEF RoomIn, p
<1>8. one \in {0, 1} /\ less \in {0, 1} /\ (one = 1 => ~AheadIn(s, x, g))
    OBVIOUS
<1> HIDE DEF one, less
<1> QED BY <1>1, <1>2, <1>5, <1>6, <1>7, <1>8

\* A review that joins the map joins at its end: no other one loses by it.
LEMMA RoomAppend ==
    ASSUME NEW S, NEW s \in Seq(S), Once(s), NEW h \in S, ~Holds(s, h),
           NEW w, w = Joined(s, h), NEW g, NEW x, NEW l, Holds(s, g)
    PROVE  RoomIn(w, l, g, x) <= RoomIn(s, l, g, x)
<1>1. /\ \A y : Holds(w, y) <=> y = h \/ Holds(s, y)
      /\ \A y : Holds(s, y) => Place(w, y) = Place(s, y)
      /\ Place(w, h) = Len(s) + 1
    <2>1. \A y : Holds(w, y) <=> y = h \/ Holds(s, y)
        BY AppendEntries
    <2>2. ASSUME NEW y, Holds(s, y) PROVE Place(w, y) = Place(s, y)
        BY <2>2, AppendPlace
    <2>3. Place(w, h) = Len(s) + 1
        BY AppendPlace
    <2> QED BY <2>1, <2>2, <2>3
<1>2. Len(s) \in Nat /\ \A y : Holds(s, y) => Place(s, y) \in 1 .. Len(s)
    BY LenProperties, PlaceOf
<1>3. \A y : AheadIn(w, y, g) <=> AheadIn(s, y, g)
    <2> SUFFICES ASSUME NEW y PROVE AheadIn(w, y, g) <=> AheadIn(s, y, g)
        OBVIOUS
    <2>1. CASE y = h
        BY <1>1, <1>2, <2>1 DEF AheadIn
    <2>2. CASE y # h
        BY <1>1, <2>2 DEF AheadIn
    <2> QED BY <2>1, <2>2
<1>4. BehindIn(w, l, x) => BehindIn(s, l, x)
    <2> SUFFICES ASSUME BehindIn(w, l, x), Holds(s, x) PROVE Holds(s, l) /\ Place(s, l) < Place(s, x)
        BY DEF BehindIn
    <2>1. Holds(w, x) /\ Place(w, x) = Place(s, x) /\ Holds(w, l) /\ Place(w, l) < Place(w, x)
        BY <1>1 DEF BehindIn
    <2>2. l # h
        BY <1>1, <1>2, <2>1
    <2> QED BY <1>1, <2>1, <2>2
<1>5. AheadIn(s, l, g) /\ AheadIn(s, x, g) => Place(w, l) = Place(s, l) /\ Place(w, x) = Place(s, x)
    BY <1>1 DEF AheadIn
<1>6. Place(w, g) = Place(s, g) /\ Place(s, g) \in Nat
    BY <1>1, <1>2
<1> QED BY <1>3, <1>4, <1>5, <1>6 DEF RoomIn

\* A review that leaves the map may let another one in once more.
LEMMA RoomWithout ==
    ASSUME NEW S, NEW s \in Seq(S), Once(s), NEW h, Holds(s, h),
           NEW w, w = Without(s, h), NEW g, NEW x, NEW l, Holds(s, g), g # h
    PROVE  RoomIn(w, l, g, x) <= RoomIn(s, l, g, x) + 1
<1>1. /\ ~Holds(w, h)
      /\ \A y : y # h => (Holds(w, y) <=> Holds(s, y))
      /\ \A y : y # h /\ Holds(s, y) =>
           Place(w, y) = IF Place(s, h) < Place(s, y) THEN Place(s, y) - 1 ELSE Place(s, y)
    <2>1. ~Holds(w, h) /\ \A y : y # h => (Holds(w, y) <=> Holds(s, y))
        BY WithoutEntries
    <2>2. ASSUME NEW y, y # h, Holds(s, y)
          PROVE  Place(w, y) = IF Place(s, h) < Place(s, y) THEN Place(s, y) - 1 ELSE Place(s, y)
        BY <2>2, WithoutPlace
    <2> QED BY <2>1, <2>2
<1>2. Len(s) \in Nat /\ \A y : Holds(s, y) => Place(s, y) \in 1 .. Len(s)
    BY LenProperties, PlaceOf
<1> DEFINE one(z) == IF ~AheadIn(z, l, g) /\ ~AheadIn(z, x, g) /\ BehindIn(z, l, x) THEN 1 ELSE 0
           less(z) == IF AheadIn(z, l, g) /\ AheadIn(z, x, g) /\ Place(z, x) <= Place(z, l) THEN 1 ELSE 0
<1>3. /\ RoomIn(w, l, g, x) = Place(w, g) - 1 + one(w) - less(w)
      /\ RoomIn(s, l, g, x) = Place(s, g) - 1 + one(s) - less(s)
      /\ one(w) \in {0, 1} /\ one(s) \in {0, 1} /\ less(w) \in {0, 1} /\ less(s) \in {0, 1}
    BY DEF RoomIn
<1>4. Place(s, g) \in Nat
    BY <1>2
<1>5. CASE Place(s, h) < Place(s, g)
    <2>1. Place(w, g) = Place(s, g) - 1
        BY <1>1, <1>5
    <2> HIDE DEF one, less
    <2> QED BY <1>3, <1>4, <2>1
<1>6. CASE ~(Place(s, h) < Place(s, g))
    <2>1. Place(w, g) = Place(s, g)
        BY <1>1, <1>6
    <2>2. ASSUME NEW y, AheadIn(s, y, g) PROVE AheadIn(w, y, g) /\ Place(w, y) = Place(s, y)
        <3>1. y # h /\ Holds(s, y) /\ Place(s, y) < Place(s, g)
            BY <1>6, <2>2 DEF AheadIn
        <3>2. Place(s, y) \in Nat /\ Place(s, g) \in Nat /\ Place(s, h) \in Nat
            BY <1>2, <3>1
        <3>3. ~(Place(s, h) < Place(s, y))
            BY <1>6, <3>1, <3>2
        <3> QED BY <1>1, <2>1, <3>1, <3>3 DEF AheadIn
    <2>3. less(s) = 1 => less(w) = 1
        BY <2>2
    <2> HIDE DEF one, less
    <2> QED BY <1>3, <1>4, <2>1, <2>3
<1> QED BY <1>5, <1>6

\* With the turn after l, h comes before g.
ComesFirst(s, l, h, g) ==
    \/ /\ Place(s, h) < Place(s, g)
       /\ ~(Holds(s, l) /\ Place(s, h) <= Place(s, l) /\ Place(s, l) < Place(s, g))
    \/ /\ Holds(s, l) /\ Place(s, g) <= Place(s, l) /\ Place(s, l) < Place(s, h)

\* A review that starts a job and stays in the map has used its turn up.
LEMMA RoomStays ==
    ASSUME NEW S, NEW s \in Seq(S), Once(s), NEW h, Holds(s, h), NEW g, Holds(s, g), g # h,
           NEW l, NEW x, ComesFirst(s, l, h, g)
    PROVE  RoomIn(s, h, g, x) + (IF x = h THEN 1 ELSE 0) <= RoomIn(s, l, g, x)
<1>1. Len(s) \in Nat /\ \A y : Holds(s, y) => Place(s, y) \in 1 .. Len(s)
    BY LenProperties, PlaceOf
<1>2. \A y, z : Holds(s, y) /\ Holds(s, z) /\ Place(s, y) = Place(s, z) => y = z
    BY PlacesDiffer
<1>3. Place(s, g) \in Nat /\ Place(s, h) \in Nat /\ Place(s, g) # Place(s, h)
    BY <1>1, <1>2
<1>4. CASE x = h
    <2>1. RoomIn(s, h, g, h) = IF Place(s, h) < Place(s, g) THEN Place(s, g) - 1 - 1 ELSE Place(s, g) - 1
        BY <1>3 DEF RoomIn, AheadIn, BehindIn
    <2>2. Holds(s, l) => Place(s, l) \in Nat
        BY <1>1
    <2>3. RoomIn(s, l, g, h) >= IF Place(s, h) < Place(s, g) THEN Place(s, g) - 1 ELSE Place(s, g)
        BY <1>3, <2>2 DEF RoomIn, AheadIn, BehindIn, ComesFirst
    <2>4. RoomIn(s, l, g, h) \in Nat
        BY RoomType
    <2> QED BY <1>3, <1>4, <2>1, <2>3, <2>4
<1>5. CASE x # h
    <2>1. Holds(s, l) => Place(s, l) \in Nat
        BY <1>1
    <2>2. Holds(s, x) => Place(s, x) \in Nat /\ Place(s, x) # Place(s, h)
        BY <1>1, <1>2, <1>5
    <2>3. CASE Place(s, h) < Place(s, g)
        BY <1>3, <1>5, <2>1, <2>2, <2>3 DEF RoomIn, AheadIn, BehindIn, ComesFirst
    <2>4. CASE ~(Place(s, h) < Place(s, g))
        <3>1. /\ ~AheadIn(s, h, g) /\ ~AheadIn(s, l, g)
            BY <1>3, <2>1, <2>4 DEF AheadIn, ComesFirst
        <3>2. BehindIn(s, h, x) => BehindIn(s, l, x)
            BY <1>3, <1>5, <2>1, <2>2, <2>4 DEF BehindIn, ComesFirst
        <3> QED BY <1>3, <1>5, <3>1, <3>2 DEF RoomIn
    <2> QED BY <2>3, <2>4
<1> QED BY <1>4, <1>5

\* One that starts its last job leaves the map, and the turn goes to the front.
LEMMA RoomLeaves ==
    ASSUME NEW S, NEW s \in Seq(S), Once(s), NEW h, Holds(s, h), NEW g, Holds(s, g), g # h,
           NEW l, NEW x, ComesFirst(s, l, h, g), NEW w, w = Without(s, h)
    PROVE  RoomIn(w, h, g, x) + (IF x = h THEN 1 ELSE 0) <= RoomIn(s, l, g, x)
<1>1. Len(s) \in Nat /\ \A y : Holds(s, y) => Place(s, y) \in 1 .. Len(s)
    BY LenProperties, PlaceOf
<1>2. \A y, z : Holds(s, y) /\ Holds(s, z) /\ Place(s, y) = Place(s, z) => y = z
    BY PlacesDiffer
<1>3. Place(s, g) \in Nat /\ Place(s, h) \in Nat /\ Place(s, g) # Place(s, h)
    BY <1>1, <1>2
<1>4. ~Holds(w, h) /\ \A y : y # h => (Holds(w, y) <=> Holds(s, y))
    BY WithoutEntries
<1>5. \A y : y # h /\ Holds(s, y) =>
        Place(w, y) = IF Place(s, h) < Place(s, y) THEN Place(s, y) - 1 ELSE Place(s, y)
    <2> SUFFICES ASSUME NEW y, y # h, Holds(s, y)
                 PROVE  Place(w, y) = IF Place(s, h) < Place(s, y) THEN Place(s, y) - 1 ELSE Place(s, y)
        OBVIOUS
    <2> QED BY WithoutPlace
<1>6. Place(w, g) = IF Place(s, h) < Place(s, g) THEN Place(s, g) - 1 ELSE Place(s, g)
    BY <1>5
<1>7. ~AheadIn(w, h, g) /\ (BehindIn(w, h, x) <=> x # h /\ ~Holds(s, x))
    BY <1>4 DEF AheadIn, BehindIn
<1>8. RoomIn(w, h, g, x) = Place(w, g) - 1 + IF x # h /\ ~Holds(s, x) THEN 1 ELSE 0
    <2>1. x # h /\ ~Holds(s, x) => ~AheadIn(w, x, g)
        BY <1>4 DEF AheadIn
    <2>2. Place(w, g) \in Nat
        <3>1. Place(s, h) < Place(s, g) => Place(s, g) - 1 \in Nat
            BY <1>3
        <3> QED BY <1>3, <1>6, <3>1
    <2> QED BY <1>7, <2>1, <2>2 DEF RoomIn
<1>9. Holds(s, l) => Place(s, l) \in Nat
    BY <1>1
<1>10. CASE x = h
    <2>1. RoomIn(s, l, g, h) >= IF Place(s, h) < Place(s, g) THEN Place(s, g) - 1 ELSE Place(s, g)
        BY <1>3, <1>9 DEF RoomIn, AheadIn, BehindIn, ComesFirst
    <2>2. RoomIn(s, l, g, h) \in Nat
        BY RoomType
    <2> QED BY <1>3, <1>6, <1>8, <1>10, <2>1, <2>2
<1>11. CASE x # h /\ ~Holds(s, x)
    <2>1. RoomIn(s, l, g, x) >= IF Place(s, h) < Place(s, g) THEN Place(s, g) - 1 ELSE Place(s, g)
        BY <1>3, <1>9, <1>11 DEF RoomIn, AheadIn, BehindIn, ComesFirst
    <2>2. RoomIn(s, l, g, x) \in Nat
        BY RoomType
    <2> QED BY <1>3, <1>6, <1>8, <1>11, <2>1, <2>2
<1>12. CASE x # h /\ Holds(s, x)
    <2>1. RoomIn(s, l, g, x) >= IF Place(s, h) < Place(s, g) THEN Place(s, g) - 1 - 1 ELSE Place(s, g) - 1
        BY <1>1, <1>3, <1>9, <1>12 DEF RoomIn, AheadIn, BehindIn, ComesFirst
    <2>2. RoomIn(s, l, g, x) \in Nat
        BY RoomType
    <2> QED BY <1>3, <1>6, <1>8, <1>12, <2>1, <2>2
<1> QED BY <1>10, <1>11, <1>12

LEMMA ModOf ==
    ASSUME NEW n \in Nat \ {0}, NEW a \in Nat, a < n + n
    PROVE  a % n = IF a < n THEN a ELSE a - n
<1>1. CASE a < n
    BY <1>1
<1>2. CASE ~(a < n)
    <2>1. a - n \in Nat /\ a - n < n
        BY <1>2
    <2>2. (a - n) % n = a - n
        BY <2>1
    <2>3. ((a - n) + n) % n = (a - n) % n
        BY <2>1
    <2>4. (a - n) + n = a
        OBVIOUS
    <2> QED BY <1>2, <2>2, <2>3, <2>4
<1> QED BY <1>1, <1>2

\* The turn comes to each review of the map, at the step that its place says.
LEMMA StepsTo ==
    ASSUME TypeInv, Once(groups), NEW g, Holds(groups, g), NEW p, p = Place(groups, g)
    PROVE  /\ Len(groups) \in Nat \ {0} /\ Turn \in 0 .. Len(groups) - 1 /\ p \in 1 .. Len(groups)
           /\ \E k \in 0 .. Len(groups) - 1 :
                InTurn(k) = g /\ p - 1 = IF Turn + k < Len(groups) THEN Turn + k ELSE (Turn + k) - Len(groups)
<1> DEFINE n == Len(groups)
           T == Turn
           k == IF T < p THEN p - 1 - T ELSE p - 1 - T + n
<1>1. n \in Nat /\ p \in 1 .. n /\ groups[p] = g
    BY PlaceOf, LenProperties DEF TypeInv
<1>2. n \in Nat \ {0} /\ T \in 0 .. n - 1
    <2>1. 0 \in 0 .. Len(groups) - 1
        BY <1>1
    <2> QED BY <2>1, InTurnIn
<1>3. InTurn(k) = groups[((T + k) % n) + 1]
    BY DEF InTurn
<1> HIDE DEF n, T
<1>4. k \in 0 .. n - 1 /\ T + k \in Nat /\ T + k < n + n
    BY <1>1, <1>2
<1>5. p - 1 = IF T + k < n THEN T + k ELSE (T + k) - n
    BY <1>1, <1>2
<1> HIDE DEF k
<1>6. (T + k) % n = p - 1
    <2> DEFINE a == T + k
    <2>1. a \in Nat /\ a < n + n
        BY <1>4
    <2>2. p - 1 = IF a < n THEN a ELSE a - n
        BY <1>5
    <2> HIDE DEF a
    <2>3. a % n = p - 1
        BY <1>2, <2>1, <2>2, ModOf
    <2> QED BY <2>3 DEF a
<1>7. InTurn(k) = g
    <2>1. p - 1 + 1 = p
        BY <1>1
    <2> QED BY <1>1, <1>3, <1>6, <2>1
<1> QED BY <1>1, <1>2, <1>4, <1>5, <1>7 DEF n, T

\* A review that starts a job comes before every other one that has one ready.
LEMMA TurnOrder ==
    ASSUME TypeInv, Once(groups), NEW i \in 0 .. Len(groups) - 1,
           \A k \in 0 .. i - 1 : ~HasReady(InTurn(k)),
           NEW g, Holds(groups, g), HasReady(g), NEW h, h = InTurn(i), g # h
    PROVE  Holds(groups, h) /\ ComesFirst(groups, lastGroup, h, g)
<1> DEFINE n == Len(groups)
           T == Turn
           ph == Place(groups, h)
           pg == Place(groups, g)
           pl == Place(groups, lastGroup)
<1>1. Holds(groups, h)
    BY InTurnIn
<1>2. /\ n \in Nat \ {0} /\ T \in 0 .. n - 1 /\ pg \in 1 .. n
      /\ \E k \in 0 .. n - 1 : InTurn(k) = g /\ pg - 1 = IF T + k < n THEN T + k ELSE (T + k) - n
    BY StepsTo
<1>3. PICK k \in 0 .. n - 1 : InTurn(k) = g /\ pg - 1 = IF T + k < n THEN T + k ELSE (T + k) - n
    BY <1>2
<1>4. i < k
    <2>1. k \notin 0 .. i - 1 /\ k # i
        BY <1>3
    <2>2. k \in Nat /\ i \in Nat
        BY <1>2
    <2> QED BY <2>1, <2>2
<1>5. /\ ph \in 1 .. n
      /\ ph - 1 = IF T + i < n THEN T + i ELSE (T + i) - n
    <2>1. h = groups[((T + i) % n) + 1] /\ (T + i) % n \in 0 .. n - 1
        BY InTurnIn
    <2>2. (T + i) % n = IF T + i < n THEN T + i ELSE (T + i) - n
        <3> DEFINE a == T + i
        <3>1. a \in Nat /\ a < n + n
            BY <1>2
        <3> HIDE DEF a, n, T
        <3>2. a % n = IF a < n THEN a ELSE a - n
            BY <1>2, <3>1, ModOf
        <3> QED BY <3>2 DEF a
    <2> DEFINE m == (T + i) % n
    <2>3. m + 1 \in 1 .. Len(groups) /\ groups[m + 1] = h
        <3> HIDE DEF T
        <3>1. m \in 0 .. n - 1
            BY <2>1
        <3> HIDE DEF m
        <3>2. m + 1 \in 1 .. n
            BY <1>2, <3>1
        <3> QED BY <2>1, <3>2 DEF m
    <2>4. m \in Nat
        BY <1>2, <2>1
    <2> HIDE DEF m
    <2>5. m + 1 = Place(groups, h)
        BY <1>1, <2>3, PlaceOf
    <2>6. ph - 1 = m
        BY <2>4, <2>5
    <2>7. ph \in 1 .. n
        BY <2>3, <2>5
    <2> QED BY <2>2, <2>6, <2>7 DEF m
<1>6. CASE ~Holds(groups, lastGroup)
    <2>1. T = 0
        <3>1. DOMAIN groups = 1 .. Len(groups)
            BY LenProperties DEF TypeInv
        <3> QED BY <1>6, <3>1 DEF Turn, Holds
    <2>2. ph < pg
        <3> HIDE DEF n, T, ph, pg
        <3> QED BY <1>2, <1>3, <1>4, <1>5, <2>1
    <2> QED BY <1>1, <1>6, <2>2 DEF ComesFirst
<1>7. CASE Holds(groups, lastGroup)
    <2>1. pl \in 1 .. n /\ groups[pl] = lastGroup /\ \A m \in 1 .. n : groups[m] = lastGroup => m = pl
        BY <1>7, PlaceOf
    <2>2. T = pl % n
        <3>1. DOMAIN groups = 1 .. n
            BY LenProperties DEF TypeInv
        <3> DEFINE c == CHOOSE m \in DOMAIN groups : groups[m] = lastGroup
        <3>2. c \in DOMAIN groups /\ groups[c] = lastGroup
            BY <2>1, <3>1
        <3>3. Turn = c % Len(groups)
            BY <3>2 DEF Turn
        <3> HIDE DEF c, pl
        <3>4. c = pl
            BY <2>1, <3>1, <3>2
        <3> QED BY <3>3, <3>4
    <2>3. T = IF pl < n THEN pl ELSE 0
        <3> HIDE DEF n, pl, T
        <3>1. pl \in Nat /\ pl < n + n
            BY <1>2, <2>1
        <3>2. pl % n = IF pl < n THEN pl ELSE pl - n
            BY <1>2, <3>1, ModOf
        <3>3. pl < n \/ pl - n = 0
            BY <1>2, <2>1
        <3> QED BY <2>2, <3>2, <3>3
    <2>4. \/ ph < pg /\ ~(ph <= pl /\ pl < pg)
          \/ pg <= pl /\ pl < ph
        <3> HIDE DEF n, T, ph, pg, pl
        <3> QED BY <1>2, <1>3, <1>4, <1>5, <2>1, <2>3
    <2> QED BY <1>1, <1>7, <2>4 DEF ComesFirst
<1> QED BY <1>6, <1>7

\* What has been started and what may still be stays below the bound.
Below(g, x) ==
    overtaken[g][x] + RoomIn(groups, lastGroup, g, x) < Cardinality(Groups) + Cardinality(aborted)

TurnInv ==
    \A g \in Groups :
      /\ ~HasReady(g) => \A x \in Groups : overtaken[g][x] = 0
      /\ overtaken[g][g] = 0
      /\ Holds(groups, g) => \A x \in Groups \ {g} : Below(g, x)

\* A review has a job ready exactly if one of its waiting jobs is.
ReadyJob(g) == \E j \in Jobs : stage[j] = "waiting" /\ GroupOf[j] = g /\ WakeIn(j) = 0

LEMMA ReadyOf ==
    TypeInv /\ ListsInv =>
      \A g \in Groups : (HasReady(g) <=> ReadyJob(g)) /\ (HasReady(g) => Holds(groups, g))
<1> SUFFICES ASSUME TypeInv, ListsInv, NEW g \in Groups
             PROVE  (HasReady(g) <=> ReadyJob(g)) /\ (HasReady(g) => Holds(groups, g))
    OBVIOUS
<1>1. queue[g] \in Seq(Jobs) /\ DOMAIN queue[g] = 1 .. Len(queue[g])
    BY LenProperties DEF TypeInv
<1>2. \A n \in 1 .. Len(queue[g]) : queue[g][n] \in Jobs
    BY <1>1, ElementOfSeq
<1>3. \A j \in Jobs : Holds(queue[g], j) <=> stage[j] = "waiting" /\ GroupOf[j] = g
    BY DEF ListsInv
<1>4. HasReady(g) => ReadyJob(g)
    <2> SUFFICES ASSUME NEW n \in 1 .. Len(queue[g]), WakeIn(queue[g][n]) = 0 PROVE ReadyJob(g)
        BY <1>1 DEF HasReady
    <2>1. queue[g][n] \in Jobs /\ Holds(queue[g], queue[g][n])
        BY <1>2 DEF Holds
    <2> QED BY <1>3, <2>1 DEF ReadyJob
<1>5. ReadyJob(g) => HasReady(g)
    <2> SUFFICES ASSUME NEW j \in Jobs, stage[j] = "waiting", GroupOf[j] = g, WakeIn(j) = 0
                 PROVE  HasReady(g)
        BY DEF ReadyJob
    <2>1. PICK n \in 1 .. Len(queue[g]) : queue[g][n] = j
        BY <1>3 DEF Holds
    <2> QED BY <1>1, <2>1 DEF HasReady
<1>6. HasReady(g) => Holds(groups, g)
    BY EmptySeq DEF HasReady, ListsInv
<1> QED BY <1>4, <1>5, <1>6

LEMMA Counts ==
    /\ IsFiniteSet(Groups) /\ Cardinality(Groups) \in Nat
    /\ TypeInv => IsFiniteSet(aborted) /\ Cardinality(aborted) \in Nat
<1>1. IsFiniteSet(Groups) /\ IsFiniteSet(Jobs)
    BY QueueAssumption DEF QueueAssumption
<1>2. TypeInv => aborted \in SUBSET Jobs
    BY DEF TypeInv
<1> QED BY <1>1, <1>2, FS_Subset, FS_CardinalityType

\* A review whose count starts anew has room for itself and all others.
LEMMA AnewBelow ==
    Book => \A g \in Groups : \A x \in Groups \ {g} :
              Holds(groups, g) /\ overtaken[g][x] = 0 => Below(g, x)
<1> SUFFICES ASSUME Book, NEW g \in Groups, NEW x \in Groups \ {g}, Holds(groups, g), overtaken[g][x] = 0
             PROVE  Below(g, x)
    OBVIOUS
<1>1. groups \in Seq(Groups) /\ Once(groups)
    BY DEF Book, TypeInv, ListsInv
<1>2. RoomIn(groups, lastGroup, g, x) \in Nat /\ RoomIn(groups, lastGroup, g, x) < Cardinality(Groups)
    BY <1>1, Counts, RoomType, RoomBound
<1>3. Cardinality(Groups) \in Nat /\ Cardinality(aborted) \in Nat
    BY Counts DEF Book
<1> QED BY <1>2, <1>3 DEF Below

LEMMA AnewBelowNext ==
    Book' => \A g \in Groups : \A x \in Groups \ {g} :
               Holds(groups', g) /\ overtaken'[g][x] = 0 => Below(g, x)'
<1> DEFINE Fact == Book => \A g \in Groups : \A x \in Groups \ {g} :
                              Holds(groups, g) /\ overtaken[g][x] = 0 => Below(g, x)
<1>1. Fact
    BY AnewBelow
<1> HIDE DEF Fact
<1>2. Fact'
    BY <1>1, PTL
<1> QED BY <1>2 DEF Fact

LEMMA ReadyOfNext ==
    TypeInv' /\ ListsInv' =>
      \A g \in Groups : (HasReady(g)' <=> ReadyJob(g)') /\ (HasReady(g)' => Holds(groups', g))
<1> DEFINE Fact == TypeInv /\ ListsInv =>
                     \A g \in Groups : (HasReady(g) <=> ReadyJob(g)) /\ (HasReady(g) => Holds(groups, g))
<1>1. Fact
    BY ReadyOf
<1> HIDE DEF Fact
<1>2. Fact'
    BY <1>1, PTL
<1> QED BY <1>2 DEF Fact

\* No job forgets that its signal is aborted.
LEMMA MoreAborted ==
    ASSUME Book, Book', aborted \subseteq aborted'
    PROVE  Cardinality(aborted) \in Nat /\ Cardinality(aborted') \in Nat /\ Cardinality(aborted) <= Cardinality(aborted')
<1>1. IsFiniteSet(Jobs) /\ aborted' \in SUBSET Jobs
    BY QueueAssumption DEF QueueAssumption, Book, TypeInv
<1>2. IsFiniteSet(aborted') /\ aborted \in SUBSET aborted'
    BY <1>1, FS_Subset
<1> QED BY <1>2, Counts, FS_Subset, FS_CardinalityType DEF Book

\* Steps that start no job and let no review leave the map.
LEMMA QuietTurn ==
    ASSUME Book, Book', TurnInv, lastGroup' = lastGroup, aborted \subseteq aborted',
           \/ overtaken' = overtaken /\ \A g \in Groups : ReadyJob(g) => ReadyJob(g)'
           \/ Recount(NoGroup),
           \/ groups' = groups
           \/ \E h \in Groups : ~Holds(groups, h) /\ groups' = Joined(groups, h)
    PROVE  TurnInv'
<1>0. /\ groups \in Seq(Groups) /\ Once(groups)
      /\ \A g \in Groups : (HasReady(g) <=> ReadyJob(g)) /\ (HasReady(g) => Holds(groups, g))
      /\ \A g \in Groups : HasReady(g)' <=> ReadyJob(g)'
    BY ReadyOf, ReadyOfNext DEF Book, TypeInv, ListsInv
<1>1. Cardinality(aborted) \in Nat /\ Cardinality(aborted') \in Nat /\ Cardinality(aborted) <= Cardinality(aborted')
    BY MoreAborted
<1>2. \A g, x \in Groups : overtaken[g][x] \in Nat /\ overtaken'[g][x] \in Nat
    BY DEF Book, TypeInv
<1>3. \A g, x \in Groups :
        /\ overtaken'[g][x] = overtaken[g][x] \/ overtaken'[g][x] = 0
        /\ ~HasReady(g)' => overtaken'[g][x] = 0
    <2>1. CASE overtaken' = overtaken /\ \A g \in Groups : ReadyJob(g) => ReadyJob(g)'
        BY <1>0, <2>1 DEF TurnInv
    <2>2. CASE Recount(NoGroup)
        <3> SUFFICES ASSUME NEW g \in Groups, NEW x \in Groups
                     PROVE  /\ overtaken'[g][x] = overtaken[g][x] \/ overtaken'[g][x] = 0
                            /\ ~HasReady(g)' => overtaken'[g][x] = 0
            OBVIOUS
        <3>1. g # NoGroup /\ x # NoGroup
            BY QueueAssumption DEF QueueAssumption
        <3>2. overtaken'[g][x] = IF ~HasReady(g)' THEN 0 ELSE overtaken[g][x] + 0
            BY <2>2, <3>1 DEF Recount
        <3>3. overtaken[g][x] + 0 = overtaken[g][x]
            BY <1>2
        <3> QED BY <3>2, <3>3
    <2> QED BY <2>1, <2>2
<1>4. \A g \in Groups : overtaken'[g][g] = 0
    BY <1>3 DEF TurnInv
<1>5. ASSUME NEW g \in Groups, NEW x \in Groups \ {g}, Holds(groups', g)
      PROVE  Below(g, x)'
    <2>1. CASE ~Holds(groups, g)
        <3>1. overtaken'[g][x] = 0
            BY <1>0, <1>3, <2>1 DEF TurnInv
        <3> QED BY <1>5, <3>1, AnewBelowNext
    <2>2. CASE Holds(groups, g)
        <3>1. overtaken[g][x] + RoomIn(groups, lastGroup, g, x) < Cardinality(Groups) + Cardinality(aborted)
            BY <2>2 DEF TurnInv, Below
        <3>2. RoomIn(groups, lastGroup, g, x) \in Nat
            BY <1>0, <2>2, RoomType
        <3>3. /\ RoomIn(groups', lastGroup, g, x) <= RoomIn(groups, lastGroup, g, x)
              /\ RoomIn(groups', lastGroup, g, x) \in Nat
            <4>1. groups' \in Seq(Groups) /\ Once(groups')
                BY DEF Book, TypeInv, ListsInv
            <4>2. RoomIn(groups', lastGroup, g, x) \in Nat
                BY <1>5, <4>1, RoomType
            <4>3. CASE groups' = groups
                BY <3>2, <4>3
            <4>4. CASE \E h \in Groups : ~Holds(groups, h) /\ groups' = Joined(groups, h)
                <5>1. PICK h \in Groups : ~Holds(groups, h) /\ groups' = Joined(groups, h)
                    BY <4>4
                <5> QED BY <1>0, <2>2, <4>2, <5>1, RoomAppend
            <4> QED BY <4>2, <4>3, <4>4
        <3>4. overtaken'[g][x] <= overtaken[g][x] /\ overtaken'[g][x] \in Nat /\ overtaken[g][x] \in Nat
            BY <1>2, <1>3
        <3>5. Cardinality(Groups) \in Nat
            BY Counts
        <3>6. overtaken'[g][x] + RoomIn(groups', lastGroup, g, x) < Cardinality(Groups) + Cardinality(aborted')
            BY <1>1, <3>1, <3>2, <3>3, <3>4, <3>5
        <3> QED BY <3>6 DEF Below
    <2> QED BY <2>1, <2>2
<1> QED BY <1>3, <1>4, <1>5 DEF TurnInv

\* A review whose last waiting job is aborted leaves the map.
LEMMA AbortTurn ==
    ASSUME Book, Book', TurnInv, NEW j \in Jobs, Abort(j), stage[j] = "waiting",
           NEW h \in Groups, Holds(groups, h), groups' = Without(groups, h)
    PROVE  TurnInv'
<1>0. /\ groups \in Seq(Groups) /\ Once(groups)
      /\ groups' \in Seq(Groups) /\ Once(groups')
      /\ ~Holds(groups', h) /\ \A y : y # h => (Holds(groups', y) <=> Holds(groups, y))
    <2>1. groups \in Seq(Groups) /\ Once(groups) /\ groups' \in Seq(Groups) /\ Once(groups')
        BY DEF Book, TypeInv, ListsInv
    <2> QED BY <2>1, WithoutEntries
<1>1. /\ lastGroup' = lastGroup /\ j \notin aborted /\ aborted' = aborted \cup {j} /\ Recount(NoGroup)
    BY DEF Abort, Hears, places, Book, JobsInv
<1>2. Cardinality(aborted) \in Nat /\ Cardinality(aborted') = Cardinality(aborted) + 1
    BY <1>1, Counts, FS_AddElement DEF Book
<1>3. \A g, x \in Groups : overtaken[g][x] \in Nat
    BY DEF Book, TypeInv
<1>4. ASSUME NEW g \in Groups, NEW x \in Groups
      PROVE  overtaken'[g][x] = IF ~HasReady(g)' THEN 0 ELSE overtaken[g][x]
    <2>1. g # NoGroup /\ x # NoGroup
        BY QueueAssumption DEF QueueAssumption
    <2>2. overtaken'[g][x] = IF ~HasReady(g)' THEN 0 ELSE overtaken[g][x] + 0
        BY <1>1, <2>1 DEF Recount
    <2>3. overtaken[g][x] + 0 = overtaken[g][x]
        BY <1>3
    <2> QED BY <2>2, <2>3
<1>5. ASSUME NEW g \in Groups, NEW x \in Groups \ {g}, Holds(groups', g)
      PROVE  Below(g, x)'
    <2>1. g # h /\ Holds(groups, g)
        BY <1>0, <1>5
    <2>2. overtaken[g][x] + RoomIn(groups, lastGroup, g, x) < Cardinality(Groups) + Cardinality(aborted)
        BY <2>1 DEF TurnInv, Below
    <2>3. RoomIn(groups, lastGroup, g, x) \in Nat /\ RoomIn(groups', lastGroup, g, x) \in Nat
        BY <1>0, <1>5, <2>1, RoomType
    <2>4. RoomIn(groups', lastGroup, g, x) <= RoomIn(groups, lastGroup, g, x) + 1
        BY <1>0, <2>1, RoomWithout
    <2>5. overtaken'[g][x] <= overtaken[g][x] /\ overtaken'[g][x] \in Nat /\ overtaken[g][x] \in Nat
        BY <1>3, <1>4
    <2>6. Cardinality(Groups) \in Nat
        BY Counts
    <2>7. overtaken'[g][x] + RoomIn(groups', lastGroup, g, x) < Cardinality(Groups) + Cardinality(aborted')
        BY <1>2, <2>2, <2>3, <2>4, <2>5, <2>6
    <2> QED BY <1>1, <2>7 DEF Below
<1> QED BY <1>4, <1>5 DEF TurnInv

\* The turn.
LEMMA StartTurn ==
    ASSUME Book, Book', TurnInv, PumpStarts
    PROVE  TurnInv'
<1>1. PICK i \in 0 .. Len(groups) - 1 : StartsAt(i)
    BY DEF PumpStarts, StartsAt
<1> DEFINE h == InTurn(i)
           j == FirstReady(h)
<1>2. h \in Groups /\ Holds(groups, h) /\ j \in Jobs /\ stage[j] = "waiting" /\ GroupOf[j] = h
    BY <1>1, InTurnIn, FirstReadyOf DEF StartsAt, Book
<1>3. Start(j) /\ \A k \in 0 .. i - 1 : ~HasReady(InTurn(k))
    BY <1>1 DEF StartsAt
<1>4. h = InTurn(i)
    OBVIOUS
<1> HIDE DEF h, j
<1>5. /\ lastGroup' = h /\ Recount(h) /\ aborted \subseteq aborted' /\ (Move(j, "running") \/ Move(j, "left"))
      /\ UNCHANGED <<cooldown, readyIn>>
      /\ groups' = groups \/ groups' = Without(groups, h)
    BY <1>2, <1>3 DEF Start, Runs, TurnedAway, Hears, Dequeue
<1>6. /\ groups \in Seq(Groups) /\ Once(groups) /\ groups' \in Seq(Groups) /\ Once(groups')
      /\ \A g \in Groups : (HasReady(g) <=> ReadyJob(g)) /\ (HasReady(g) => Holds(groups, g))
      /\ \A g \in Groups : HasReady(g)' <=> ReadyJob(g)'
    BY ReadyOf, ReadyOfNext DEF Book, TypeInv, ListsInv
<1>7. ASSUME NEW g \in Groups, HasReady(g)' PROVE HasReady(g)
    <2>1. PICK k \in Jobs : stage'[k] = "waiting" /\ GroupOf[k] = g /\ WakeIn(k)' = 0
        BY <1>6, <1>7 DEF ReadyJob
    <2>2. stage[k] = "waiting" /\ WakeIn(k) = 0
        BY <1>2, <1>5, <2>1 DEF Move, Book, TypeInv, WakeIn
    <2> QED BY <1>6, <2>1, <2>2 DEF ReadyJob
<1>8. \A g, x \in Groups :
        overtaken'[g][x] = IF g = h \/ ~HasReady(g)' THEN 0 ELSE overtaken[g][x] + (IF x = h THEN 1 ELSE 0)
    BY <1>5 DEF Recount
<1>9. ASSUME NEW g \in Groups PROVE overtaken'[g][g] = 0
    <2>1. overtaken[g][g] = 0
        BY DEF TurnInv
    <2> QED BY <1>8, <2>1
<1>10. ASSUME NEW g \in Groups, NEW x \in Groups \ {g}, Holds(groups', g)
       PROVE  Below(g, x)'
    <2>1. CASE g = h \/ ~HasReady(g)'
        BY <1>8, <1>10, <2>1, AnewBelowNext
    <2>2. CASE g # h /\ HasReady(g)'
        <3>1. HasReady(g) /\ Holds(groups, g)
            BY <1>6, <1>7, <2>2
        <3>2. ComesFirst(groups, lastGroup, h, g)
            BY <1>3, <1>4, <1>6, <2>2, <3>1, TurnOrder DEF Book
        <3>3. RoomIn(groups', h, g, x) + (IF x = h THEN 1 ELSE 0) <= RoomIn(groups, lastGroup, g, x)
            BY <1>2, <1>5, <1>6, <2>2, <3>1, <3>2, RoomStays, RoomLeaves
        <3>4. RoomIn(groups, lastGroup, g, x) \in Nat /\ RoomIn(groups', h, g, x) \in Nat
            BY <1>6, <1>10, <3>1, RoomType
        <3>5. overtaken[g][x] + RoomIn(groups, lastGroup, g, x) < Cardinality(Groups) + Cardinality(aborted)
            BY <3>1 DEF TurnInv, Below
        <3>6. overtaken'[g][x] = overtaken[g][x] + (IF x = h THEN 1 ELSE 0) /\ overtaken[g][x] \in Nat
            BY <1>8, <2>2 DEF Book, TypeInv
        <3>7. Cardinality(Groups) \in Nat /\ Cardinality(aborted) \in Nat
            BY Counts DEF Book
        <3>8. overtaken'[g][x] + RoomIn(groups', h, g, x) < Cardinality(Groups) + Cardinality(aborted)
            BY <3>3, <3>4, <3>5, <3>6, <3>7
        <3>9. overtaken'[g][x] \in Nat /\ Cardinality(aborted') \in Nat /\ Cardinality(aborted) <= Cardinality(aborted')
            BY <1>5, MoreAborted DEF Book, TypeInv
        <3>10. overtaken'[g][x] + RoomIn(groups', h, g, x) < Cardinality(Groups) + Cardinality(aborted')
            BY <3>4, <3>7, <3>8, <3>9
        <3> QED BY <1>5, <3>10 DEF Below
    <2> QED BY <2>1, <2>2
<1>11. ASSUME NEW g \in Groups, ~HasReady(g)', NEW x \in Groups PROVE overtaken'[g][x] = 0
    BY <1>8, <1>11
<1> QED BY <1>9, <1>10, <1>11 DEF TurnInv

\* A review joins the map with its first waiting job.
LEMMA EnqueueGroups ==
    ASSUME Book, NEW j \in Jobs, Enqueue(j)
    PROVE  \/ groups' = groups
           \/ \E h \in Groups : ~Holds(groups, h) /\ groups' = Joined(groups, h)
<1>1. GroupOf[j] \in Groups
    BY QueueAssumption DEF QueueAssumption
<1>2. CASE queue[GroupOf[j]] = << >>
    <2>1. ~Holds(groups, GroupOf[j]) /\ groups' = Joined(groups, GroupOf[j])
        BY <1>1, <1>2 DEF Enqueue, Joined, Book, ListsInv
    <2> QED BY <1>1, <2>1
<1>3. CASE queue[GroupOf[j]] # << >>
    BY <1>3 DEF Enqueue
<1> QED BY <1>2, <1>3

LEMMA SameReady ==
    ASSUME UNCHANGED <<cooldown, readyIn>>, \A j \in Jobs : stage[j] = "waiting" => stage'[j] = "waiting"
    PROVE  \A g \in Groups : ReadyJob(g) => ReadyJob(g)'
<1> SUFFICES ASSUME NEW g \in Groups, NEW j \in Jobs, stage[j] = "waiting", GroupOf[j] = g, WakeIn(j) = 0
             PROVE  ReadyJob(g)'
    BY DEF ReadyJob
<1>1. stage'[j] = "waiting" /\ WakeIn(j)' = 0
    BY DEF WakeIn
<1> QED BY <1>1 DEF ReadyJob

LEMMA NextTurn ==
    ASSUME Book, Book', TurnInv, [Next]_vars
    PROVE  TurnInv'
<1>1. CASE \E j \in Jobs : Run(j)
    <2>1. PICK j \in Jobs : Run(j)
        BY <1>1
    <2>2. /\ lastGroup' = lastGroup /\ aborted' = aborted /\ overtaken' = overtaken
          /\ UNCHANGED <<cooldown, readyIn>> /\ stage[j] = "new"
        BY <2>1 DEF Run, places, waits
    <2>3. \A k \in Jobs : stage[k] = "waiting" => stage'[k] = "waiting"
        BY <2>1, <2>2 DEF Run, Move, Book, TypeInv
    <2>4. groups' = groups \/ \E h \in Groups : ~Holds(groups, h) /\ groups' = Joined(groups, h)
        BY <2>1, EnqueueGroups DEF Run
    <2> QED BY <2>2, <2>3, <2>4, SameReady, QuietTurn
<1>2. CASE \E j \in Jobs : Abort(j)
    <2>1. PICK j \in Jobs : Abort(j)
        BY <1>2
    <2>2. lastGroup' = lastGroup /\ aborted \subseteq aborted' /\ Recount(NoGroup)
        BY <2>1 DEF Abort, Hears, places
    <2>3. CASE groups' = groups
        BY <2>2, <2>3, QuietTurn
    <2>4. CASE groups' # groups
        <3>1. stage[j] = "waiting" /\ Dequeue(j)
            BY <2>1, <2>4 DEF Abort, LeavesAtOnce
        <3>2. GroupOf[j] \in Groups /\ groups' = Without(groups, GroupOf[j])
            BY <2>4, <3>1, QueueAssumption DEF QueueAssumption, Dequeue
        <3>3. Holds(queue[GroupOf[j]], j)
            BY <3>1, <3>2 DEF Book, ListsInv
        <3>4. queue[GroupOf[j]] # << >>
            BY <3>3, EmptySeq DEF Holds
        <3>5. Holds(groups, GroupOf[j])
            BY <3>2, <3>4 DEF Book, ListsInv
        <3> QED BY <2>1, <3>1, <3>2, <3>5, AbortTurn
    <2> QED BY <2>3, <2>4
<1>3. CASE \E j \in Jobs : \E how \in {"done", "transient", "fatal"} : Answer(j, how)
    <2>1. PICK j \in Jobs : \E how \in {"done", "transient", "fatal"} : Answer(j, how)
        BY <1>3
    <2>2. /\ lastGroup' = lastGroup /\ aborted' = aborted /\ overtaken' = overtaken /\ groups' = groups
          /\ UNCHANGED <<cooldown, readyIn>> /\ stage[j] = "running" /\ Move(j, "answered")
        BY <2>1 DEF Answer, places, waits
    <2>3. \A k \in Jobs : stage[k] = "waiting" => stage'[k] = "waiting"
        BY <2>2 DEF Move, Book, TypeInv
    <2> QED BY <2>2, <2>3, SameReady, QuietTurn
<1>4. CASE \E j \in Jobs : \E wait \in Nat : Finish(j, wait)
    <2>1. PICK j \in Jobs : \E wait \in Nat : Finish(j, wait)
        BY <1>4
    <2>2. lastGroup' = lastGroup /\ aborted' = aborted /\ Recount(NoGroup)
        BY <2>1 DEF Finish
    <2>3. groups' = groups \/ \E h \in Groups : ~Holds(groups, h) /\ groups' = Joined(groups, h)
        BY <2>1, EnqueueGroups DEF Finish
    <2> QED BY <2>2, <2>3, QuietTurn
<1>5. CASE PumpEnds \/ TimerFires \/ UNCHANGED vars \/ \E sig \in Signals : SignalAborts(sig)
    <2>1. /\ lastGroup' = lastGroup /\ aborted' = aborted /\ overtaken' = overtaken /\ groups' = groups
          /\ UNCHANGED <<cooldown, readyIn>> /\ stage' = stage
        BY <1>5 DEF PumpEnds, TimerFires, SignalAborts, vars, places, waits
    <2> QED BY <2>1, SameReady, QuietTurn
<1>6. CASE Passes
    <2>1. /\ lastGroup' = lastGroup /\ aborted' = aborted /\ overtaken' = overtaken /\ groups' = groups
          /\ stage' = stage
        BY <1>6 DEF Passes
    <2>2. ASSUME NEW g \in Groups, ReadyJob(g) PROVE ReadyJob(g)'
        <3>1. PICK j \in Jobs : stage[j] = "waiting" /\ GroupOf[j] = g /\ WakeIn(j) = 0
            BY <2>2 DEF ReadyJob
        <3> DEFINE c == cooldown[ProviderOf[j]]
        <3>2. readyIn[j] \in Nat /\ c \in Nat /\ Larger(readyIn[j], c) = 0
            BY <3>1, QueueAssumption DEF QueueAssumption, Book, TypeInv, WakeIn
        <3>3. WakeIn(j)' = Larger(Sooner(readyIn[j]), Sooner(c))
            BY <1>6, <3>1, QueueAssumption DEF QueueAssumption, Passes, WakeIn
        <3> HIDE DEF c
        <3>4. Larger(Sooner(readyIn[j]), Sooner(c)) = 0
            BY <3>2 DEF Larger, Sooner
        <3> QED BY <2>1, <3>1, <3>3, <3>4 DEF ReadyJob
    <2> QED BY <2>1, <2>2, QuietTurn
<1> QED BY <1>1, <1>2, <1>3, <1>4, <1>5, <1>6, StartTurn, NextSteps DEF Steps

LEMMA InitTurn == Init => TurnInv
<1> SUFFICES ASSUME Init PROVE TurnInv
    OBVIOUS
<1>1. \A x : ~Holds(<< >>, x)
    BY EmptySeq DEF Holds
<1> QED BY <1>1 DEF Init, TurnInv

LEMMA TurnIsBounded == Book /\ TurnInv => BoundedOvertaking
<1> SUFFICES ASSUME Book, TurnInv, NEW g \in Groups, NEW x \in Groups
             PROVE  overtaken[g][x] < Cardinality(Groups) + Cardinality(aborted)
    BY DEF BoundedOvertaking
<1>1. Cardinality(Groups) \in Nat /\ Cardinality(aborted) \in Nat /\ Cardinality(Groups) # 0
    BY Counts, FS_EmptySet DEF Book
<1>2. CASE overtaken[g][x] = 0
    BY <1>1, <1>2
<1>3. CASE overtaken[g][x] # 0
    <2>1. HasReady(g) /\ x # g
        BY <1>3 DEF TurnInv
    <2>2. Holds(groups, g)
        BY <2>1, ReadyOf DEF Book
    <2>3. overtaken[g][x] + RoomIn(groups, lastGroup, g, x) < Cardinality(Groups) + Cardinality(aborted)
        BY <2>1, <2>2 DEF TurnInv, Below
    <2>4. RoomIn(groups, lastGroup, g, x) \in Nat
        BY <2>2, RoomType DEF Book, TypeInv, ListsInv
    <2>5. overtaken[g][x] \in Nat
        BY DEF Book, TypeInv
    <2> QED BY <1>1, <2>3, <2>4, <2>5
<1> QED BY <1>2, <1>3

\* round-robin of scheduler.ts: while a review has a job ready, another one starts
\* fewer jobs than there are reviews, and one more for each job that is aborted.
THEOREM OvertakingIsBounded == Spec => []BoundedOvertaking
<1>1. Book /\ Book' /\ TurnInv /\ [Next]_vars => TurnInv'
    BY NextTurn
<1>2. Spec => []TurnInv
    BY <1>1, InitTurn, BookInvariant, PTL DEF Spec
<1> QED BY <1>2, BookInvariant, TurnIsBounded, PTL

=============================================================================
