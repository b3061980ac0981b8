----------------------- MODULE MCSessionMessageQueue -----------------------
(* Model checking instances of the message queue of one chat.              *)
EXTENDS SessionMessageQueue

Symmetry == Permutations(Ids) \cup Permutations(Ticks) \cup Permutations(Tokens)

(* A chat's queue implements MessageDelivery as long as no id slides out   *)
(* of the completed ids: a failed message waits like a queued one, and an  *)
(* id the queue remembers as completed is done.                            *)
LifeOf(i) ==
    CASE queue.entry[i].status \in {"queued", "failed"} -> "waiting"
      [] queue.entry[i].status = "sending" -> "attempting"
      [] queue.entry[i].status = "uncertain" -> "doubtful"
      [] OTHER -> IF i \in Range(queue.completed) THEN "done" ELSE "none"

Delivery == INSTANCE MessageDelivery WITH
    phase <- [i \in Ids |-> LifeOf(i)],
    handed <- { i \in Ids : requests[i] > 0 },
    open <- ~gone

\* The queue implements MessageDelivery: every step of a window, the
\* dispatcher, a tick, a crash or a deletion moves at most one message, and
\* only along the life MessageDelivery allows.
DeliversOnce == Delivery!Spec

=============================================================================
