--------------------------- MODULE OutgoingQueue ---------------------------
(***************************************************************************)
(* What the outgoing packet queue of the command server promises to the    *)
(* threads that share it: a bounded first-in first-out queue.  A packet is *)
(* refused only when Capacity packets wait, the oldest packet is handed    *)
(* out first, and a new connection starts with an empty queue.  The ring   *)
(* of module OutgoingRing implements it.                                   *)
(***************************************************************************)
EXTENDS Naturals, Sequences

CONSTANTS Packet,    \* the packets the threads exchange
          Capacity   \* how many packets may wait

VARIABLES queue,     \* the packets waiting, oldest first
          refused    \* the packets Put turned away

vars == <<queue, refused>>

Init == queue = <<>> /\ refused = {}

Accept(p) == /\ Len(queue) < Capacity
             /\ queue' = Append(queue, p)
             /\ UNCHANGED refused

Refuse(p) == /\ Len(queue) = Capacity
             /\ refused' = refused \cup {p}
             /\ UNCHANGED queue

Take == /\ queue # <<>>
        /\ queue' = Tail(queue)
        /\ UNCHANGED refused

Clear == queue' = <<>> /\ UNCHANGED refused

Next == \/ \E p \in Packet : Accept(p) \/ Refuse(p)
        \/ Take
        \/ Clear

Spec == Init /\ [][Next]_vars
=============================================================================
