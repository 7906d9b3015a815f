---------------------------- MODULE OutgoingRing ----------------------------
(***************************************************************************)
(* The queue of packets waiting to be sent (netmemoryaccess.cpp): an array *)
(* of MAX_OUTGOING slots with a head, where the next packet is written,    *)
(* and a tail, where the next one is read.  Every operation runs with      *)
(* gQueueMutex held from its first access to its last, so each is a step.  *)
(* One slot always stays free, so head = tail means "empty" only.          *)
(***************************************************************************)
EXTENDS Naturals, Sequences

CONSTANTS MAX_OUTGOING,   \* slots of the ring
          Packet,         \* the packets that are queued
          NoPacket        \* what a slot holds before it is first written

ASSUME RingAssumption == /\ MAX_OUTGOING \in Nat \ {0, 1}
                         /\ NoPacket \notin Packet

VARIABLES outgoingPackets, goutgoingHead, goutgoingTail,
          refused         \* history: packets enqueuePacket returned false for

ringVars == <<outgoingPackets, goutgoingHead, goutgoingTail, refused>>

Slots == 0 .. MAX_OUTGOING - 1

RingInit == /\ outgoingPackets = [s \in Slots |-> NoPacket]
            /\ goutgoingHead = 0
            /\ goutgoingTail = 0
            /\ refused = {}

\* Mutant: the modulo is forgotten.
SuccessorUnbounded(s) == s + 1

Successor(s) == (s + 1) % MAX_OUTGOING

\* Mutant: full is tested against the slot after the tail, one packet early.
enqueuePacketFullEarly(p) ==
    IF Successor(Successor(goutgoingHead)) = goutgoingTail
    THEN /\ refused' = refused \cup {p}
         /\ UNCHANGED <<outgoingPackets, goutgoingHead, goutgoingTail>>
    ELSE /\ outgoingPackets' = [outgoingPackets EXCEPT ![goutgoingHead] = p]
         /\ goutgoingHead' = Successor(goutgoingHead)
         /\ UNCHANGED <<goutgoingTail, refused>>

\* Full: refused, the caller is told false (no caller looks at the result).
enqueuePacket(p) ==
    IF Successor(goutgoingHead) = goutgoingTail
    THEN /\ refused' = refused \cup {p}
         /\ UNCHANGED <<outgoingPackets, goutgoingHead, goutgoingTail>>
    ELSE /\ outgoingPackets' = [outgoingPackets EXCEPT ![goutgoingHead] = p]
         /\ goutgoingHead' = Successor(goutgoingHead)
         /\ UNCHANGED <<goutgoingTail, refused>>

QueueEmpty == goutgoingTail = goutgoingHead

\* Mutant: the newest packet is taken.
Newest == outgoingPackets[(goutgoingHead + MAX_OUTGOING - 1) % MAX_OUTGOING]

\* The packet DequeueOutgoing copies out when the queue is not empty.
Oldest == outgoingPackets[goutgoingTail]

\* Mutant: the test for an empty queue is dropped.
DequeueOutgoingUnchecked ==
    /\ goutgoingTail' = Successor(goutgoingTail)
    /\ UNCHANGED <<outgoingPackets, goutgoingHead, refused>>

DequeueOutgoing == /\ ~QueueEmpty
                   /\ goutgoingTail' = Successor(goutgoingTail)
                   /\ UNCHANGED <<outgoingPackets, goutgoingHead, refused>>

\* A new connection forgets what waits; the slots keep their old contents.
ResetQueue == /\ goutgoingHead' = 0
              /\ goutgoingTail' = 0
              /\ UNCHANGED <<outgoingPackets, refused>>

RingNext == \/ \E p \in Packet : enqueuePacket(p)
            \/ DequeueOutgoing
            \/ ResetQueue

RingSpec == RingInit /\ [][RingNext]_ringVars
-----------------------------------------------------------------------------
(* The packets that wait, read from the slots between tail and head.       *)

Waiting == IF goutgoingHead >= goutgoingTail
           THEN goutgoingHead - goutgoingTail
           ELSE goutgoingHead + MAX_OUTGOING - goutgoingTail

SlotOf(i) == IF goutgoingTail + i <= MAX_OUTGOING
             THEN goutgoingTail + i - 1
             ELSE goutgoingTail + i - 1 - MAX_OUTGOING

Contents == [i \in 1 .. Waiting |-> outgoingPackets[SlotOf(i)]]

Queue == INSTANCE OutgoingQueue WITH
            queue <- Contents, Capacity <- MAX_OUTGOING - 1

\* The slots hold packets or were never written, and both positions stay in
\* the array: no access of the ring leaves outgoingPackets.
RingTypeOK ==
    /\ outgoingPackets \in [Slots -> Packet \cup {NoPacket}]
    /\ goutgoingHead \in Slots
    /\ goutgoingTail \in Slots
    /\ refused \subseteq Packet

\* No packet is handed to the sender that no thread wrote: every slot between
\* the tail and the head was filled by enqueuePacket, also after a reset and
\* after the positions wrapped around.
WaitingWereWritten ==
    \A i \in 1 .. Waiting : outgoingPackets[SlotOf(i)] \in Packet

\* The ring with its two positions behaves as the bounded queue: packets leave
\* in the order they came, and one is refused only when MAX_OUTGOING - 1 wait.
ImplementsQueue == Queue!Spec
=============================================================================
