-------------------------- MODULE MessageDelivery --------------------------
(***************************************************************************)
(* What a chat's message queue promises of each message, without queue,    *)
(* writes, timers, leases or pauses: one message is attempted at a time,   *)
(* it is handed to the engine at most once, a definite refusal lets it     *)
(* wait again, and a doubtful attempt is never followed by another one.    *)
(***************************************************************************)
CONSTANT Ids

VARIABLES
    phase,  \* each message's place in its life
    handed, \* the messages handed to the engine
    open    \* the chat exists

vars == <<phase, handed, open>>

Lives == {"none", "waiting", "attempting", "doubtful", "done"}
Move(i, from, to) == phase[i] = from /\ phase' = [phase EXCEPT ![i] = to]
Busy == \E i \in Ids : phase[i] \in {"attempting", "doubtful"}

Init == phase = [i \in Ids |-> "none"] /\ handed = {} /\ open = TRUE

Submit(i) == open /\ Move(i, "none", "waiting") /\ UNCHANGED <<handed, open>>
Attempt(i) ==
    ~Busy /\ i \notin handed /\ Move(i, "waiting", "attempting") /\ UNCHANGED <<handed, open>>
HandOver(i) ==
    /\ open /\ phase[i] = "attempting" /\ i \notin handed
    /\ handed' = handed \cup {i}
    /\ UNCHANGED <<phase, open>>
Refuse(i) == i \notin handed /\ Move(i, "attempting", "waiting") /\ UNCHANGED <<handed, open>>
Doubt(i) == Move(i, "attempting", "doubtful") /\ UNCHANGED <<handed, open>>
Complete(i) ==
    /\ i \in handed
    /\ Move(i, "attempting", "done") \/ Move(i, "doubtful", "done")
    /\ UNCHANGED <<handed, open>>
Withdraw(i) ==
    /\ Move(i, "waiting", "done") \/ Move(i, "doubtful", "done")
    /\ UNCHANGED <<handed, open>>

\* The chat is deleted; what it still held is discarded some time later.
Close == open' = FALSE /\ UNCHANGED <<phase, handed>>
Discard == ~open /\ phase' = [i \in Ids |-> "none"] /\ UNCHANGED <<handed, open>>

Next ==
    \/ \E i \in Ids : \/ Submit(i) \/ Attempt(i) \/ HandOver(i) \/ Refuse(i)
                      \/ Doubt(i) \/ Complete(i) \/ Withdraw(i)
    \/ Close \/ Discard

Spec == Init /\ [][Next]_vars

=============================================================================
