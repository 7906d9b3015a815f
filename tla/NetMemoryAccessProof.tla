------------------------ MODULE NetMemoryAccessProof ------------------------
(***************************************************************************)
(* Theorems about the command server and the outgoing ring in it, for      *)
(* every set of clients and descriptors, every queue length and both       *)
(* scheduling policies.                                                    *)
(***************************************************************************)
EXTENDS NetMemoryAccess, SequenceTheorems, TLAPS

-----------------------------------------------------------------------------
(* The outgoing ring, for every number of slots.                           *)

\* The position after a slot: the next slot, or slot 0 after the last one.
LEMMA SuccessorValue ==
    ASSUME NEW s \in Slots
    PROVE  Successor(s) = IF s = MAX_OUTGOING - 1 THEN 0 ELSE s + 1
<1>1. MAX_OUTGOING \in Nat /\ MAX_OUTGOING > 1
  BY RingAssumption
<1>2. CASE s = MAX_OUTGOING - 1
  BY <1>1, <1>2 DEF Successor, Slots
<1>3. CASE s # MAX_OUTGOING - 1
  <2>1. s + 1 \in 0 .. MAX_OUTGOING - 1
    BY <1>1, <1>3 DEF Slots
  <2>2. (s + 1) % MAX_OUTGOING = s + 1
    BY <1>1, <2>1
  <2> QED BY <2>2, <1>3 DEF Successor
<1> QED BY <1>2, <1>3
-----------------------------------------------------------------------------
(* Types and the window of written slots.                                  *)

RingInv == RingTypeOK /\ WaitingWereWritten

\* The slot of every waiting packet exists, is a written one, and is not the
\* slot the next packet goes to.
LEMMA SlotOfWaiting ==
    ASSUME RingTypeOK, NEW i \in 1 .. Waiting
    PROVE  SlotOf(i) \in Slots /\ SlotOf(i) # goutgoingHead
BY RingAssumption DEF RingTypeOK, Waiting, SlotOf, Slots

\* Fewer packets than slots wait.
LEMMA WaitingBound ==
    ASSUME RingTypeOK
    PROVE  Waiting \in 0 .. MAX_OUTGOING - 1
BY RingAssumption DEF RingTypeOK, Waiting, Slots

\* enqueuePacket finds the ring full exactly when all slots but one wait.
LEMMA FullIsCapacity ==
    ASSUME RingTypeOK
    PROVE  (Successor(goutgoingHead) = goutgoingTail) <=> (Waiting = MAX_OUTGOING - 1)
BY RingAssumption, SuccessorValue DEF RingTypeOK, Waiting, Slots

\* A packet that is taken in becomes the newest of those that wait; the others
\* keep their slots.
LEMMA EnqueueWindow ==
    ASSUME RingTypeOK, NEW p \in Packet, enqueuePacket(p),
           Successor(goutgoingHead) # goutgoingTail
    PROVE  /\ RingTypeOK'
           /\ Waiting' = Waiting + 1
           /\ \A i \in 1 .. Waiting + 1 :
                 outgoingPackets'[SlotOf(i)'] =
                    IF i = Waiting + 1 THEN p ELSE outgoingPackets[SlotOf(i)]
<1>1. /\ outgoingPackets' = [outgoingPackets EXCEPT ![goutgoingHead] = p]
      /\ goutgoingHead' = Successor(goutgoingHead)
      /\ goutgoingTail' = goutgoingTail
      /\ refused' = refused
  BY DEF enqueuePacket
<1>2. goutgoingHead \in Slots /\ goutgoingTail \in Slots
  BY DEF RingTypeOK
<1>3. goutgoingHead' = IF goutgoingHead = MAX_OUTGOING - 1 THEN 0 ELSE goutgoingHead + 1
  BY <1>1, <1>2, SuccessorValue
<1>4. RingTypeOK'
  BY <1>1, <1>2, <1>3, RingAssumption DEF RingTypeOK, Slots
<1>5. Waiting' = Waiting + 1
  BY <1>1, <1>2, <1>3, RingAssumption DEF Waiting, Slots
<1>6. SlotOf(Waiting + 1) = goutgoingHead
  BY <1>2, RingAssumption DEF Waiting, Slots, SlotOf
<1>7. ASSUME NEW i \in 1 .. Waiting + 1
      PROVE  outgoingPackets'[SlotOf(i)'] =
                IF i = Waiting + 1 THEN p ELSE outgoingPackets[SlotOf(i)]
  <2>1. SlotOf(i)' = SlotOf(i)
    BY <1>1 DEF SlotOf
  <2>2. CASE i = Waiting + 1
    BY <2>1, <2>2, <1>6, <1>1, <1>2 DEF RingTypeOK
  <2>3. CASE i # Waiting + 1
    <3>1. i \in 1 .. Waiting
      BY <2>3, WaitingBound, RingAssumption
    <3>2. SlotOf(i) \in Slots /\ SlotOf(i) # goutgoingHead
      BY <3>1, SlotOfWaiting
    <3> QED BY <2>1, <2>3, <3>2, <1>1 DEF RingTypeOK
  <2> QED BY <2>2, <2>3
<1> QED BY <1>4, <1>5, <1>7

\* The packet that is taken out is the oldest; the others move up by one place.
LEMMA DequeueWindow ==
    ASSUME RingTypeOK, DequeueOutgoing
    PROVE  /\ RingTypeOK'
           /\ Waiting > 0
           /\ Waiting' = Waiting - 1
           /\ SlotOf(1) = goutgoingTail
           /\ \A i \in 1 .. Waiting - 1 :
                 outgoingPackets'[SlotOf(i)'] = outgoingPackets[SlotOf(i + 1)]
<1>1. /\ goutgoingTail # goutgoingHead
      /\ goutgoingTail' = Successor(goutgoingTail)
      /\ outgoingPackets' = outgoingPackets
      /\ goutgoingHead' = goutgoingHead
      /\ refused' = refused
  BY DEF DequeueOutgoing, QueueEmpty
<1>2. goutgoingHead \in Slots /\ goutgoingTail \in Slots
  BY DEF RingTypeOK
<1>3. goutgoingTail' = IF goutgoingTail = MAX_OUTGOING - 1 THEN 0 ELSE goutgoingTail + 1
  BY <1>1, <1>2, SuccessorValue
<1>4. RingTypeOK'
  BY <1>1, <1>2, <1>3, RingAssumption DEF RingTypeOK, Slots
<1>5. Waiting > 0 /\ Waiting' = Waiting - 1
  BY <1>1, <1>2, <1>3, RingAssumption DEF Waiting, Slots
<1>6. SlotOf(1) = goutgoingTail
  BY <1>2, RingAssumption DEF SlotOf, Slots
<1>7. ASSUME NEW i \in 1 .. Waiting - 1
      PROVE  SlotOf(i)' = SlotOf(i + 1)
  BY <1>1, <1>2, <1>3, RingAssumption, WaitingBound DEF SlotOf, Slots
<1> QED BY <1>1, <1>4, <1>5, <1>6, <1>7
-----------------------------------------------------------------------------
(* The invariant of the ring.                                              *)

LEMMA EnqueueKeepsRing ==
    ASSUME RingInv, NEW p \in Packet, enqueuePacket(p)
    PROVE  RingInv'
<1>1. CASE Successor(goutgoingHead) = goutgoingTail
  BY <1>1 DEF enqueuePacket, RingInv, RingTypeOK, WaitingWereWritten, Waiting, SlotOf
<1>2. CASE Successor(goutgoingHead) # goutgoingTail
  <2>1. /\ RingTypeOK'
        /\ Waiting' = Waiting + 1
        /\ \A i \in 1 .. Waiting + 1 :
              outgoingPackets'[SlotOf(i)'] =
                 IF i = Waiting + 1 THEN p ELSE outgoingPackets[SlotOf(i)]
    BY <1>2, EnqueueWindow DEF RingInv
  <2>2. ASSUME NEW i \in 1 .. Waiting + 1
        PROVE  outgoingPackets'[SlotOf(i)'] \in Packet
    <3>1. CASE i = Waiting + 1
      BY <2>1, <3>1
    <3>2. CASE i # Waiting + 1
      <4>1. i \in 1 .. Waiting
        BY <3>2, WaitingBound DEF RingInv
      <4> QED BY <4>1, <2>1, <3>2 DEF RingInv, WaitingWereWritten
    <3> QED BY <3>1, <3>2
  <2> QED BY <2>1, <2>2 DEF RingInv, WaitingWereWritten
<1> QED BY <1>1, <1>2

LEMMA DequeueKeepsRing ==
    ASSUME RingInv, DequeueOutgoing
    PROVE  RingInv' /\ Oldest \in Packet
<1>1. /\ RingTypeOK'
      /\ Waiting > 0
      /\ Waiting' = Waiting - 1
      /\ SlotOf(1) = goutgoingTail
      /\ \A i \in 1 .. Waiting - 1 :
            outgoingPackets'[SlotOf(i)'] = outgoingPackets[SlotOf(i + 1)]
  BY DequeueWindow DEF RingInv
<1>2. ASSUME NEW i \in 1 .. Waiting - 1
      PROVE  outgoingPackets'[SlotOf(i)'] \in Packet
  <2>1. i + 1 \in 1 .. Waiting
    BY WaitingBound DEF RingInv
  <2> QED BY <2>1, <1>1 DEF RingInv, WaitingWereWritten
<1>3. 1 \in 1 .. Waiting
  BY <1>1, WaitingBound DEF RingInv
<1>4. Oldest \in Packet
  BY <1>1, <1>3 DEF RingInv, WaitingWereWritten, Oldest
<1> QED BY <1>1, <1>2, <1>4 DEF RingInv, WaitingWereWritten

LEMMA ResetKeepsRing ==
    ASSUME RingInv, ResetQueue
    PROVE  RingInv' /\ Waiting' = 0
BY RingAssumption
   DEF RingInv, RingTypeOK, WaitingWereWritten, ResetQueue, Waiting, SlotOf, Slots

LEMMA RingInitInv == RingInit => RingInv /\ Waiting = 0
BY RingAssumption
   DEF RingInit, RingInv, RingTypeOK, WaitingWereWritten, Waiting, SlotOf, Slots

LEMMA RingStepKeepsRing == RingInv /\ [RingNext]_ringVars => RingInv'
<1> SUFFICES ASSUME RingInv, [RingNext]_ringVars
             PROVE  RingInv'
  OBVIOUS
<1>1. ASSUME NEW p \in Packet, enqueuePacket(p)
      PROVE  RingInv'
  BY <1>1, EnqueueKeepsRing
<1>2. CASE DequeueOutgoing
  BY <1>2, DequeueKeepsRing
<1>3. CASE ResetQueue
  BY <1>3, ResetKeepsRing
<1>4. CASE UNCHANGED ringVars
  BY <1>4 DEF ringVars, RingInv, RingTypeOK, WaitingWereWritten, Waiting, SlotOf
<1> QED BY <1>1, <1>2, <1>3, <1>4 DEF RingNext

\* Both positions always index the array outgoingPackets.
THEOREM RingTypeCorrect == RingSpec => []RingTypeOK
<1>1. RingInit => RingInv
  BY RingInitInv
<1>2. RingInv => RingTypeOK
  BY DEF RingInv
<1> QED BY <1>1, <1>2, RingStepKeepsRing, PTL DEF RingSpec

\* The sender is only ever handed packets that enqueuePacket wrote.
THEOREM RingHandsOutPackets == RingSpec => []WaitingWereWritten
<1>1. RingInit => RingInv
  BY RingInitInv
<1>2. RingInv => WaitingWereWritten
  BY DEF RingInv
<1> QED BY <1>1, <1>2, RingStepKeepsRing, PTL DEF RingSpec
-----------------------------------------------------------------------------
(* The ring implements the bounded queue, one operation at a time.         *)

LEMMA ContentsIsSeq ==
    ASSUME RingInv
    PROVE  Contents \in Seq(Packet) /\ Len(Contents) = Waiting
<1>1. Waiting \in Nat
  BY WaitingBound, RingAssumption DEF RingInv
<1>2. Contents \in [1 .. Waiting -> Packet]
  BY DEF Contents, RingInv, WaitingWereWritten
<1> QED BY <1>1, <1>2

LEMMA ContentsIsSeqPrime ==
    ASSUME RingInv'
    PROVE  Contents' \in Seq(Packet) /\ Len(Contents') = Waiting'
<1>1. Waiting' \in Nat
  <2>1. goutgoingHead' \in 0 .. MAX_OUTGOING - 1 /\ goutgoingTail' \in 0 .. MAX_OUTGOING - 1
    BY DEF RingInv, RingTypeOK, Slots
  <2>2. ASSUME NEW h \in 0 .. MAX_OUTGOING - 1, NEW t \in 0 .. MAX_OUTGOING - 1
        PROVE  (IF h >= t THEN h - t ELSE h + MAX_OUTGOING - t) \in Nat
    BY RingAssumption
  <2> QED BY <2>1, <2>2 DEF Waiting
<1>2. Contents' \in [1 .. Waiting' -> Packet]
  BY DEF Contents, RingInv, WaitingWereWritten
<1> QED BY <1>1, <1>2

LEMMA EnqueueIsPut ==
    ASSUME RingInv, NEW p \in Packet, enqueuePacket(p)
    PROVE  Queue!Accept(p) \/ Queue!Refuse(p)
<1>1. Contents \in Seq(Packet) /\ Len(Contents) = Waiting
  BY ContentsIsSeq
<1>2. CASE Successor(goutgoingHead) = goutgoingTail
  <2>1. /\ refused' = refused \cup {p}
        /\ UNCHANGED <<outgoingPackets, goutgoingHead, goutgoingTail>>
    BY <1>2 DEF enqueuePacket
  <2>2. Contents' = Contents
    BY <2>1 DEF Contents, Waiting, SlotOf
  <2>3. Waiting = MAX_OUTGOING - 1
    BY <1>2, FullIsCapacity DEF RingInv
  <2> QED BY <1>1, <2>1, <2>2, <2>3 DEF Queue!Refuse
<1>3. CASE Successor(goutgoingHead) # goutgoingTail
  <2>1. /\ RingTypeOK'
        /\ Waiting' = Waiting + 1
        /\ \A i \in 1 .. Waiting + 1 :
              outgoingPackets'[SlotOf(i)'] =
                 IF i = Waiting + 1 THEN p ELSE outgoingPackets[SlotOf(i)]
    BY <1>3, EnqueueWindow DEF RingInv
  <2>2. Waiting \in 0 .. MAX_OUTGOING - 1 /\ Waiting # MAX_OUTGOING - 1
    BY <1>3, FullIsCapacity, WaitingBound DEF RingInv
  <2>3. Waiting < MAX_OUTGOING - 1 /\ Waiting \in Nat
    BY <2>2, RingAssumption
  <2>4. Contents' = Append(Contents, p)
    <3>1. RingInv'
      BY EnqueueKeepsRing
    <3>2. Contents' \in Seq(Packet) /\ Len(Contents') = Waiting + 1
      BY <3>1, <2>1, ContentsIsSeqPrime
    <3>3. /\ Append(Contents, p) \in Seq(Packet)
          /\ Len(Append(Contents, p)) = Waiting + 1
          /\ \A i \in 1 .. Waiting : Append(Contents, p)[i] = Contents[i]
          /\ Append(Contents, p)[Waiting + 1] = p
      BY <1>1, AppendProperties
    <3>4. ASSUME NEW i \in 1 .. Waiting + 1
          PROVE  Contents'[i] = Append(Contents, p)[i]
      <4>1. Contents'[i] = IF i = Waiting + 1 THEN p ELSE outgoingPackets[SlotOf(i)]
        BY <2>1 DEF Contents
      <4>2. i # Waiting + 1 => i \in 1 .. Waiting
        BY <2>3
      <4>3. i # Waiting + 1 => Contents[i] = outgoingPackets[SlotOf(i)]
        BY <4>2 DEF Contents
      <4> QED BY <4>1, <4>2, <4>3, <3>3
    <3> QED BY <3>2, <3>3, <3>4, SeqEqual
  <2>5. refused' = refused
    BY <1>3 DEF enqueuePacket
  <2> QED BY <1>1, <2>3, <2>4, <2>5 DEF Queue!Accept
<1> QED BY <1>2, <1>3

LEMMA DequeueIsTake ==
    ASSUME RingInv, DequeueOutgoing
    PROVE  Queue!Take /\ Oldest = Head(Contents)
<1>1. Contents \in Seq(Packet) /\ Len(Contents) = Waiting
  BY ContentsIsSeq
<1>2. /\ RingTypeOK'
      /\ Waiting > 0
      /\ Waiting' = Waiting - 1
      /\ SlotOf(1) = goutgoingTail
      /\ \A i \in 1 .. Waiting - 1 :
            outgoingPackets'[SlotOf(i)'] = outgoingPackets[SlotOf(i + 1)]
  BY DequeueWindow DEF RingInv
<1>3. Waiting \in Nat
  BY WaitingBound, RingAssumption DEF RingInv
<1>4. Contents # <<>>
  BY <1>1, <1>2
<1>5. Contents' = Tail(Contents)
  <2>1. RingInv'
    BY DequeueKeepsRing
  <2>2. Contents' \in Seq(Packet) /\ Len(Contents') = Waiting - 1
    BY <2>1, <1>2, ContentsIsSeqPrime
  <2>3. /\ Tail(Contents) \in Seq(Packet)
        /\ Len(Tail(Contents)) = Waiting - 1
        /\ \A i \in 1 .. Waiting - 1 : Tail(Contents)[i] = Contents[i + 1]
    BY <1>1, <1>4, HeadTailProperties
  <2>4. ASSUME NEW i \in 1 .. Waiting - 1
        PROVE  Contents'[i] = Tail(Contents)[i]
    <3>1. Contents'[i] = outgoingPackets[SlotOf(i + 1)]
      BY <1>2 DEF Contents
    <3>2. i + 1 \in 1 .. Waiting
      BY <1>3
    <3>3. Contents[i + 1] = outgoingPackets[SlotOf(i + 1)]
      BY <3>2 DEF Contents
    <3> QED BY <3>1, <3>3, <2>3
  <2> QED BY <2>2, <2>3, <2>4, SeqEqual
<1>6. Oldest = Head(Contents)
  <2>1. Head(Contents) = Contents[1]
    BY <1>1, <1>4
  <2>2. 1 \in 1 .. Waiting
    BY <1>2, <1>3
  <2>3. Contents[1] = outgoingPackets[goutgoingTail]
    BY <2>2, <1>2 DEF Contents
  <2> QED BY <2>1, <2>3 DEF Oldest
<1>7. refused' = refused
  BY DEF DequeueOutgoing
<1> QED BY <1>4, <1>5, <1>6, <1>7 DEF Queue!Take

LEMMA ResetIsClear ==
    ASSUME RingInv, ResetQueue
    PROVE  Queue!Clear
<1>1. RingInv' /\ Waiting' = 0
  BY ResetKeepsRing
<1>2. Contents' \in Seq(Packet) /\ Len(Contents') = 0
  BY <1>1, ContentsIsSeqPrime
<1>3. Contents' = <<>>
  BY <1>2
<1> QED BY <1>3 DEF Queue!Clear, ResetQueue

LEMMA RingInitIsEmpty == RingInit => Queue!Init
<1> SUFFICES ASSUME RingInit PROVE Queue!Init
  OBVIOUS
<1>1. RingInv /\ Waiting = 0
  BY RingInitInv
<1>2. Contents \in Seq(Packet) /\ Len(Contents) = 0
  BY <1>1, ContentsIsSeq
<1> QED BY <1>2 DEF RingInit, Queue!Init

\* The ring with its head and tail is the bounded queue: every operation of the
\* code is one of the queue's, with packets refused only at the capacity.
THEOREM RingImplementsQueue == RingSpec => ImplementsQueue
<1>1. RingInit => RingInv /\ Queue!Init
  BY RingInitInv, RingInitIsEmpty
<1>2. RingInv /\ [RingNext]_ringVars => [Queue!Next]_(Queue!vars)
  <2> SUFFICES ASSUME RingInv, [RingNext]_ringVars
               PROVE  [Queue!Next]_(Queue!vars)
    OBVIOUS
  <2>1. ASSUME NEW p \in Packet, enqueuePacket(p)
        PROVE  Queue!Next
    BY <2>1, EnqueueIsPut DEF Queue!Next
  <2>2. CASE DequeueOutgoing
    BY <2>2, DequeueIsTake DEF Queue!Next
  <2>3. CASE ResetQueue
    BY <2>3, ResetIsClear DEF Queue!Next
  <2>4. CASE UNCHANGED ringVars
    BY <2>4 DEF ringVars, Queue!vars, Contents, Waiting, SlotOf
  <2> QED BY <2>1, <2>2, <2>3, <2>4 DEF RingNext
<1> QED BY <1>1, <1>2, RingStepKeepsRing, PTL
        DEF RingSpec, ImplementsQueue, Queue!Spec
-----------------------------------------------------------------------------
(* The receiver's descriptor and the phases of a connection.               *)

\* A client is accepted and not yet closed.
Serving == rPc \in {"reset", "publish", "hello", "header", "body", "execute", "clear",
                    "close"}

\* The receiver's descriptor is open exactly while it serves a client, and no
\* other descriptor is.
DescriptorInv ==
    /\ Serving <=> connfd # NoFd
    /\ \A f \in Fds : fdConn[f] # NoConn <=> f = connfd

\* What is published is the receiver's descriptor, from hello up to the clear
\* that precedes the close.
PublishedInv ==
    gConnAlive => /\ gConnFd = connfd
                  /\ rPc \in {"hello", "header", "body", "execute", "clear"}

\* The sender's locals are set before they are used.
SenderInv ==
    /\ sPc \in {"dequeue", "send"} => sFd \in Fds
    /\ sPc = "send" => sPkt \in Packet /\ sOff \in {0, 1}

IInv == TypeOK /\ WaitingWereWritten /\ DescriptorInv /\ PublishedInv /\ SenderInv

\* The entries of a client's stream all belong to packet p.
OnlyPacket(c, p) == \A i \in DOMAIN stream[c] : stream[c][i].pkt = p

\* A connection is served once: until it is accepted nothing was written to it.
FreshInv ==
    /\ \A c \in Conns : client[c] = "idle" =>
          stream[c] = <<>> /\ \A f \in Fds : fdConn[f] # c
    /\ \A i \in DOMAIN backlog :
          /\ client[backlog[i]] # "idle"
          /\ stream[backlog[i]] = <<>>
          /\ \A f \in Fds : fdConn[f] # backlog[i]
    /\ \A i, j \in DOMAIN backlog : backlog[i] = backlog[j] => i = j

\* The packets a client may find in its queue: its own and the notification.
OwnPackets(c) == {p \in Packet : ~Foreign(c, p)}

QueueWithin(P) == \A i \in 1 .. Waiting : outgoingPackets[SlotOf(i)] \in P

\* From the reset of the queue to the close, what waits is for the served client.
Tended == rPc \in {"publish", "hello", "header", "body", "execute", "clear", "close"}

QueueForServed == Tended => QueueWithin(OwnPackets(ServedConn))

\* Before its connection is published a client can only receive the one packet
\* the sender still held; a foreign packet being sent is all it received.
StaleInv ==
    Serving =>
      /\ rPc \in {"reset", "publish"} /\ sPc = "dequeue" => stream[ServedConn] = <<>>
      /\ rPc \in {"reset", "publish"} /\ sPc = "send" => OnlyPacket(ServedConn, sPkt)
      /\ sPc = "send" /\ Foreign(ServedConn, sPkt) => OnlyPacket(ServedConn, sPkt)

StreamInv == FreshInv /\ QueueForServed /\ StaleInv /\ StaleFrameFirst

LastHalf(c) == stream[c][Len(stream[c])]

\* While the client is there, its stream ends where the sender stands.
FrontierInv ==
    Serving /\ client[ServedConn] \in {"up", "mid"} /\ stream[ServedConn] # <<>> =>
        IF sPc = "send" /\ sOff = 1 THEN LastHalf(ServedConn) = Half(sPkt, 1)
                                    ELSE LastHalf(ServedConn).half = 2

\* A sender that holds the descriptor of an earlier client has written nothing
\* to the one being served.
HolderInv ==
    Serving /\ sPc \in {"dequeue", "send"} /\ sFd # connfd => stream[ServedConn] = <<>>

FrameInv == HolderInv /\ FrontierInv /\ FramesContiguous
-----------------------------------------------------------------------------
(* The server uses the ring only through its three operations.             *)

LEMMA QueuedArePackets ==
    /\ Event \in Packet
    /\ \A c \in Conns \cup {NoConn} : Hello(c) \in Packet
    /\ \A c \in Conns \cup {NoConn}, n \in 0 .. MaxRequests : Response(c, n) \in Packet
BY NetAssumption DEF Packets, Kinds, Event, Hello, Response

LEMMA ServedConnType ==
    ASSUME TypeOK, DescriptorInv, Serving
    PROVE  connfd \in Fds /\ ServedConn \in Conns
BY NetAssumption DEF TypeOK, DescriptorInv, ServedConn

LEMMA ServerStepIsRingStep ==
    ASSUME TypeOK, DescriptorInv, [Next]_vars
    PROVE  [RingNext]_ringVars
<1>1. CASE QueueHello
  <2>1. ServedConn \in Conns
    BY <1>1, ServedConnType DEF QueueHello, Serving
  <2>2. Hello(ServedConn) \in Packet
    BY <2>1, QueuedArePackets
  <2> QED BY <1>1, <2>2 DEF QueueHello, RingNext
<1>2. CASE ExecuteAndRespond
  <2>1. ServedConn \in Conns /\ request \in 0 .. MaxRequests
    BY <1>2, ServedConnType DEF ExecuteAndRespond, Serving, TypeOK
  <2>2. Response(ServedConn, request) \in Packet
    BY <2>1, QueuedArePackets
  <2> QED BY <1>2, <2>2 DEF ExecuteAndRespond, RingNext
<1>3. CASE GameCollectsItem
  BY <1>3, QueuedArePackets DEF GameCollectsItem, RingNext
<1>4. CASE ResetOnConnect
  BY <1>4 DEF ResetOnConnect, RingNext
<1>5. CASE TakePacket
  BY <1>5 DEF TakePacket, RingNext
<1>6. CASE InitNetwork \/ SetupListener \/ AcceptClient \/ SetConnection \/ RecvHeader
           \/ RecvBody \/ RecvFail \/ ClearBeforeClose \/ CloseConnection
  BY <1>6 DEF InitNetwork, SetupListener, AcceptClient, SetConnection, RecvHeader,
              RecvBody, RecvFail, ClearBeforeClose, CloseConnection
<1>7. CASE GetConnection \/ NothingToSend \/ WriteSome \/ WriteFail \/ ClearAfterFailure
  BY <1>7 DEF GetConnection, NothingToSend, WriteSome, WriteFail, ClearAfterFailure
<1>8. ASSUME NEW c \in Conns, Client(c)
      PROVE  UNCHANGED ringVars
  BY <1>8 DEF Client, Connect, SendRequest, SendBody, Disconnect, Break
<1>9. CASE UNCHANGED vars
  BY <1>9 DEF vars
<1> QED
  BY <1>1, <1>2, <1>3, <1>4, <1>5, <1>6, <1>7, <1>8, <1>9 DEF Next, Receiver, Sender
-----------------------------------------------------------------------------
(* The invariant, one action at a time.                                    *)

LEMMA InitIInv == Init => IInv
<1> SUFFICES ASSUME Init PROVE IInv
  OBVIOUS
<1>1. RingInv
  BY RingInitInv DEF Init
<1>2. /\ backlog \in Seq(Conns)
      /\ inbox \in [Conns -> Seq(RequestParts)]
      /\ stream \in [Conns -> Seq(FrameHalves)]
  BY DEF Init
<1>3. initRetries \in 0 .. MAX_INIT_RETRIES - 1 /\ request \in 0 .. MaxRequests
      /\ sent \in 0 .. MaxRequests
  BY NetAssumption DEF Init
<1>4. TypeOK
  <2>1. RingTypeOK
    BY <1>1 DEF RingInv
  <2>2. /\ rPc = "init" /\ sPc = "poll"
        /\ connfd \in Fds \cup {NoFd} /\ sFd \in Fds \cup {NoFd}
        /\ gConnFd \in Fds \cup {NoFd}
        /\ sPkt \in Packet \cup {NoPacket} /\ sOff \in 0 .. 2
    BY DEF Init
  <2>4. gConnAlive \in BOOLEAN /\ ranOnce \in BOOLEAN
    BY DEF Init
  <2>3. /\ fdConn \in [Fds -> Conns \cup {NoConn}]
        /\ client \in [Conns -> {"idle", "up", "mid", "closed", "broken"}]
    BY DEF Init
  <2> QED BY <1>2, <1>3, <2>1, <2>2, <2>3, <2>4 DEF TypeOK
<1>5. DescriptorInv /\ PublishedInv /\ SenderInv
  BY NetAssumption DEF Init, DescriptorInv, PublishedInv, SenderInv, Serving
<1> QED BY <1>1, <1>4, <1>5 DEF IInv, RingInv

LEMMA ReceiverKeepsIInv ==
    ASSUME IInv, RingInv', Receiver
    PROVE  IInv'
<1> USE NetAssumption DEF IInv, RingInv, TypeOK, DescriptorInv, PublishedInv, SenderInv,
        Serving, senderVars, connVars, netVars
<1>1. CASE InitNetwork
  <2>1. initRetries' \in 0 .. MAX_INIT_RETRIES - 1
    BY <1>1 DEF InitNetwork
  <2> QED BY <1>1, <2>1 DEF InitNetwork
<1>2. CASE SetupListener
  BY <1>2 DEF SetupListener
<1>3. CASE AcceptClient
  <2>1. Head(backlog) \in Conns /\ Tail(backlog) \in Seq(Conns)
    BY <1>3, HeadTailProperties DEF AcceptClient
  <2>2. PICK fd \in Fds : /\ fdConn[fd] = NoConn
                         /\ connfd' = fd
                         /\ fdConn' = [fdConn EXCEPT ![fd] = Head(backlog)]
    BY <1>3 DEF AcceptClient
  <2>3. TypeOK'
    BY <1>3, <2>1, <2>2 DEF AcceptClient
  <2>4. (DescriptorInv /\ PublishedInv /\ SenderInv)'
    BY <1>3, <2>1, <2>2 DEF AcceptClient
  <2> QED BY <2>3, <2>4
<1>4. CASE ResetOnConnect
  BY <1>4 DEF ResetOnConnect
<1>5. CASE SetConnection
  BY <1>5 DEF SetConnection
<1>6. CASE QueueHello
  BY <1>6 DEF QueueHello
<1>7. CASE RecvHeader
  <2>1. ServedConn \in Conns
    BY <1>7, ServedConnType DEF RecvHeader
  <2>2. inbox[ServedConn] \in Seq(RequestParts)
    BY <2>1
  <2>3. /\ Head(inbox[ServedConn]) \in RequestParts
        /\ Tail(inbox[ServedConn]) \in Seq(RequestParts)
    BY <1>7, <2>2, HeadTailProperties DEF RecvHeader
  <2>5. Head(inbox[ServedConn]).n \in 0 .. MaxRequests
    BY <2>3 DEF RequestParts
  <2>4. rPc' \in {"execute", "body", "clear"}
    BY <1>7 DEF RecvHeader
  <2> QED BY <1>7, <2>1, <2>3, <2>4, <2>5 DEF RecvHeader
<1>8. CASE RecvBody
  <2>1. ServedConn \in Conns
    BY <1>8, ServedConnType DEF RecvBody
  <2>2. inbox[ServedConn] \in Seq(RequestParts)
    BY <2>1
  <2>3. Tail(inbox[ServedConn]) \in Seq(RequestParts)
    BY <1>8, <2>2, HeadTailProperties DEF RecvBody
  <2> QED BY <1>8, <2>1, <2>3 DEF RecvBody
<1>9. CASE RecvFail
  BY <1>9 DEF RecvFail
<1>10. CASE ExecuteAndRespond
  BY <1>10 DEF ExecuteAndRespond
<1>11. CASE ClearBeforeClose
  BY <1>11 DEF ClearBeforeClose
<1>12. CASE CloseConnection
  <2>1. ServedConn \in Conns /\ connfd \in Fds
    BY <1>12, ServedConnType DEF CloseConnection
  <2>2. <<>> \in Seq(RequestParts)
    OBVIOUS
  <2>3. TypeOK'
    BY <1>12, <2>1, <2>2 DEF CloseConnection
  <2>4. (DescriptorInv /\ PublishedInv /\ SenderInv)'
    BY <1>12, <2>1 DEF CloseConnection
  <2> QED BY <2>3, <2>4
<1> QED BY <1>1, <1>2, <1>3, <1>4, <1>5, <1>6, <1>7, <1>8, <1>9, <1>10, <1>11, <1>12
        DEF Receiver

LEMMA SenderKeepsIInv ==
    ASSUME IInv, RingInv', Sender
    PROVE  IInv'
<1> USE NetAssumption DEF IInv, RingInv, TypeOK, DescriptorInv, PublishedInv, SenderInv,
        Serving, receiverVars, connVars, netVars
<1>1. CASE GetConnection
  BY <1>1 DEF GetConnection
<1>2. CASE TakePacket
  <2>1. Oldest \in Packet
    BY <1>2, DequeueKeepsRing DEF TakePacket
  <2> QED BY <1>2, <2>1 DEF TakePacket
<1>3. CASE NothingToSend
  BY <1>3 DEF NothingToSend
<1>4. CASE WriteSome
  <2>1. /\ sFd \in Fds /\ fdConn[sFd] \in Conns
        /\ sPkt \in Packet /\ sOff \in {0, 1}
    BY <1>4 DEF WriteSome
  <2>2. PICK k \in 1 .. 2 - sOff :
          /\ sOff' = sOff + k
          /\ stream' = IF client[fdConn[sFd]] = "closed" THEN stream
                       ELSE [stream EXCEPT ![fdConn[sFd]] =
                               @ \o [i \in 1 .. k |-> Half(sPkt, sOff + i)]]
    BY <1>4 DEF WriteSome
  <2>3. [i \in 1 .. k |-> Half(sPkt, sOff + i)] \in Seq(FrameHalves)
    <3>1. k \in Nat
      BY <2>1, <2>2
    <3>2. \A i \in 1 .. k : Half(sPkt, sOff + i) \in FrameHalves
      BY <2>1, <2>2 DEF Half, FrameHalves
    <3> QED BY <3>1, <3>2
  <2>4. stream[fdConn[sFd]] \o [i \in 1 .. k |-> Half(sPkt, sOff + i)] \in Seq(FrameHalves)
    BY <2>1, <2>3, ConcatProperties
  <2>5. stream' \in [Conns -> Seq(FrameHalves)]
    BY <2>1, <2>2, <2>4
  <2>6. sOff' \in {1, 2}
    BY <2>1, <2>2
  <2>7. sPc' = IF sOff' = 2 THEN "poll" ELSE "send"
    BY <1>4 DEF WriteSome
  <2>8. TypeOK'
    <3>1. /\ sPc' \in {"poll", "send"}
          /\ sOff' \in 0 .. 2
      BY <2>6, <2>7
    <3>2. UNCHANGED <<sFd, sPkt, receiverVars, connVars, ranOnce, fdConn, backlog, client,
                      sent, inbox, ringVars>>
      BY <1>4 DEF WriteSome
    <3> QED BY <2>5, <3>1, <3>2
  <2>9. SenderInv'
    BY <1>4, <2>1, <2>6, <2>7 DEF WriteSome
  <2>10. (DescriptorInv /\ PublishedInv)'
    BY <1>4 DEF WriteSome
  <2> QED BY <2>8, <2>9, <2>10
<1>5. CASE WriteFail
  BY <1>5 DEF WriteFail
<1>6. CASE ClearAfterFailure
  BY <1>6 DEF ClearAfterFailure
<1> QED BY <1>1, <1>2, <1>3, <1>4, <1>5, <1>6 DEF Sender

LEMMA ClientKeepsIInv ==
    ASSUME IInv, RingInv', NEW c \in Conns, Client(c)
    PROVE  IInv'
<1> USE NetAssumption DEF IInv, RingInv, TypeOK, DescriptorInv, PublishedInv, SenderInv,
        Serving, receiverVars, senderVars, connVars
<1>1. CASE Connect(c)
  <2>1. Append(backlog, c) \in Seq(Conns)
    OBVIOUS
  <2> QED BY <1>1, <2>1 DEF Connect
<1>2. CASE SendRequest(c)
  <2>1. PICK shape \in {"short", "long", "bad"} :
          /\ inbox' = [inbox EXCEPT ![c] = Append(@, Part(shape, sent + 1))]
          /\ client' = [client EXCEPT ![c] = IF shape = "long" THEN "mid" ELSE "up"]
    BY <1>2 DEF SendRequest
  <2>2. sent + 1 \in 0 .. MaxRequests
    BY <1>2 DEF SendRequest
  <2>3. Part(shape, sent + 1) \in RequestParts
    BY <2>2 DEF Part, RequestParts
  <2>4. Append(inbox[c], Part(shape, sent + 1)) \in Seq(RequestParts)
    BY <2>3
  <2> QED BY <1>2, <2>1, <2>2, <2>4 DEF SendRequest
<1>3. CASE SendBody(c)
  <2>1. Part("rest", 0) \in RequestParts
    BY DEF Part, RequestParts
  <2>2. Append(inbox[c], Part("rest", 0)) \in Seq(RequestParts)
    BY <2>1
  <2> QED BY <1>3, <2>2 DEF SendBody
<1>4. CASE Disconnect(c)
  BY <1>4 DEF Disconnect
<1>5. CASE Break(c)
  <2>1. <<>> \in Seq(RequestParts)
    OBVIOUS
  <2> QED BY <1>5, <2>1 DEF Break
<1> QED BY <1>1, <1>2, <1>3, <1>4, <1>5 DEF Client

LEMMA StepKeepsIInv == IInv /\ [Next]_vars => IInv'
<1> SUFFICES ASSUME IInv, [Next]_vars
             PROVE  IInv'
  OBVIOUS
<1>1. RingInv /\ TypeOK /\ DescriptorInv
  BY DEF IInv, RingInv, TypeOK
<1>2. RingInv'
  BY <1>1, ServerStepIsRingStep, RingStepKeepsRing
<1>3. CASE Receiver
  BY <1>2, <1>3, ReceiverKeepsIInv
<1>4. CASE Sender
  BY <1>2, <1>4, SenderKeepsIInv
<1>5. CASE GameCollectsItem
  BY <1>2, <1>5
     DEF GameCollectsItem, IInv, RingInv, TypeOK, DescriptorInv, PublishedInv, SenderInv,
         Serving, receiverVars, senderVars, connVars, netVars
<1>6. ASSUME NEW c \in Conns, Client(c)
      PROVE  IInv'
  BY <1>2, <1>6, ClientKeepsIInv
<1>7. CASE UNCHANGED vars
  BY <1>2, <1>7
     DEF vars, IInv, RingInv, TypeOK, DescriptorInv, PublishedInv, SenderInv,
         Serving, receiverVars, senderVars, connVars, netVars
<1> QED BY <1>3, <1>4, <1>5, <1>6, <1>7 DEF Next

LEMMA SpecIInv == Spec => []IInv
BY InitIInv, StepKeepsIInv, PTL DEF Spec
-----------------------------------------------------------------------------
\* Every variable of the server stays in its type.
THEOREM TypeCorrect == Spec => []TypeOK
<1>1. IInv => TypeOK
  BY DEF IInv
<1> QED BY <1>1, SpecIInv, PTL

\* The descriptor the sender can read is always open and the served client's.
THEOREM PublishedCorrect == Spec => []PublishedIsServed
<1>1. IInv => PublishedIsServed
  BY NetAssumption
     DEF IInv, PublishedInv, DescriptorInv, Serving, PublishedIsServed, ServedConn, TypeOK
<1> QED BY <1>1, SpecIInv, PTL

\* With all its threads, the server uses the ring as the bounded queue.
THEOREM ServerImplementsQueue == Spec => ImplementsQueue
<1>1. Init => RingInit
  BY DEF Init
<1>2. IInv /\ [Next]_vars => [RingNext]_ringVars
  BY ServerStepIsRingStep DEF IInv
<1>3. Spec => RingSpec
  BY <1>1, <1>2, SpecIInv, PTL DEF Spec, RingSpec
<1> QED BY <1>3, RingImplementsQueue, PTL
-----------------------------------------------------------------------------
(* A new client and the packets of the one before.                         *)

\* Packets in the queue stay in a set every queued packet belongs to.
LEMMA EnqueueWithin ==
    ASSUME RingInv, NEW P, NEW p \in P, p \in Packet, enqueuePacket(p),
           QueueWithin(P)
    PROVE  QueueWithin(P)'
<1> USE DEF QueueWithin
<1>1. CASE Successor(goutgoingHead) = goutgoingTail
  BY <1>1 DEF enqueuePacket, Waiting, SlotOf
<1>2. CASE Successor(goutgoingHead) # goutgoingTail
  <2>1. /\ Waiting' = Waiting + 1
        /\ \A i \in 1 .. Waiting + 1 :
              outgoingPackets'[SlotOf(i)'] =
                 IF i = Waiting + 1 THEN p ELSE outgoingPackets[SlotOf(i)]
    BY <1>2, EnqueueWindow DEF RingInv
  <2>2. \A i \in 1 .. Waiting + 1 : i # Waiting + 1 => i \in 1 .. Waiting
    BY WaitingBound DEF RingInv
  <2> QED BY <2>1, <2>2
<1> QED BY <1>1, <1>2

LEMMA DequeueWithin ==
    ASSUME RingInv, DequeueOutgoing, NEW P, QueueWithin(P)
    PROVE  Oldest \in P /\ QueueWithin(P)'
<1> USE DEF QueueWithin
<1>1. /\ Waiting > 0
      /\ Waiting' = Waiting - 1
      /\ SlotOf(1) = goutgoingTail
      /\ \A i \in 1 .. Waiting - 1 :
            outgoingPackets'[SlotOf(i)'] = outgoingPackets[SlotOf(i + 1)]
  BY DequeueWindow DEF RingInv
<1>2. 1 \in 1 .. Waiting /\ \A i \in 1 .. Waiting - 1 : i + 1 \in 1 .. Waiting
  BY <1>1, WaitingBound DEF RingInv
<1> QED BY <1>1, <1>2 DEF Oldest

\* What a write appends, and to which client.
LEMMA WriteEffect ==
    ASSUME IInv, WriteSome
    PROVE  /\ Serving /\ sFd = connfd /\ ServedConn \in Conns
           /\ \/ stream' = stream /\ client[ServedConn] = "closed"
              \/ \E k \in 1 .. 2 - sOff :
                   /\ sOff' = sOff + k
                   /\ stream' = [stream EXCEPT ![ServedConn] =
                                   @ \o [i \in 1 .. k |-> Half(sPkt, sOff + i)]]
<1>1. sFd \in Fds /\ fdConn[sFd] # NoConn
  BY DEF IInv, SenderInv, WriteSome
<1>2. sFd = connfd /\ Serving
  BY <1>1, NetAssumption DEF IInv, DescriptorInv
<1>3. ServedConn \in Conns
  BY <1>2, ServedConnType DEF IInv
<1> QED BY <1>2, <1>3 DEF WriteSome, ServedConn

LEMMA FreshStep ==
    ASSUME IInv, FreshInv, [Next]_vars
    PROVE  FreshInv'
<1> USE NetAssumption DEF IInv, TypeOK, FreshInv
<1>1. CASE AcceptClient
  <2>1. PICK fd \in Fds : /\ fdConn[fd] = NoConn
                         /\ fdConn' = [fdConn EXCEPT ![fd] = Head(backlog)]
    BY <1>1 DEF AcceptClient
  <2>2. /\ backlog # <<>> /\ backlog' = Tail(backlog)
        /\ client' = client /\ stream' = stream
    BY <1>1 DEF AcceptClient
  <2>3. /\ Tail(backlog) \in Seq(Conns)
        /\ Len(Tail(backlog)) = Len(backlog) - 1
        /\ \A i \in 1 .. Len(Tail(backlog)) : Tail(backlog)[i] = backlog[i + 1]
    BY <2>2, HeadTailProperties
  <2>4. /\ Head(backlog) = backlog[1]
        /\ 1 \in DOMAIN backlog
        /\ \A i \in DOMAIN Tail(backlog) : i + 1 \in DOMAIN backlog /\ i + 1 # 1
                                        /\ Tail(backlog)[i] = backlog[i + 1]
    BY <2>2, <2>3
  <2>5. \A f \in Fds : fdConn'[f] = IF f = fd THEN backlog[1] ELSE fdConn[f]
    BY <2>1, <2>4
  <2>6. ASSUME NEW c \in Conns, client'[c] = "idle"
        PROVE  stream'[c] = <<>> /\ \A f \in Fds : fdConn'[f] # c
    BY <2>2, <2>4, <2>5, <2>6
  <2>7. ASSUME NEW i \in DOMAIN backlog'
        PROVE  /\ client'[backlog'[i]] # "idle"
               /\ stream'[backlog'[i]] = <<>>
               /\ \A f \in Fds : fdConn'[f] # backlog'[i]
    BY <2>2, <2>4, <2>5
  <2>8. ASSUME NEW i \in DOMAIN backlog', NEW j \in DOMAIN backlog',
               backlog'[i] = backlog'[j]
        PROVE  i = j
    <3>1. i + 1 \in DOMAIN backlog /\ j + 1 \in DOMAIN backlog
          /\ backlog[i + 1] = backlog[j + 1]
      BY <2>2, <2>4, <2>8
    <3>2. i + 1 = j + 1
      BY <3>1
    <3>3. i \in Int /\ j \in Int
      BY <2>2, <2>3
    <3> QED BY <3>2, <3>3
  <2> QED BY <2>6, <2>7, <2>8
<1>2. CASE CloseConnection
  <2>1. connfd \in Fds /\ ServedConn \in Conns
    BY <1>2, ServedConnType DEF CloseConnection, Serving
  <2> QED BY <1>2, <2>1 DEF CloseConnection, ServedConn
<1>3. CASE WriteSome
  <2>1. /\ ServedConn \in Conns /\ connfd \in Fds
        /\ \A c \in Conns : c # ServedConn => stream'[c] = stream[c]
    BY <1>3, WriteEffect, ServedConnType
  <2>2. backlog' = backlog /\ client' = client /\ fdConn' = fdConn
    BY <1>3 DEF WriteSome
  <2>3. fdConn[connfd] = ServedConn
    BY DEF ServedConn
  <2>4. \A c \in Conns : client[c] = "idle" => c # ServedConn
    BY <2>1, <2>3
  <2>5. \A i \in DOMAIN backlog : backlog[i] \in Conns /\ backlog[i] # ServedConn
    BY <2>1, <2>3
  <2> QED BY <2>1, <2>2, <2>4, <2>5
<1>4. ASSUME NEW c \in Conns, Connect(c)
      PROVE  FreshInv'
  <2>1. /\ client[c] = "idle" /\ client' = [client EXCEPT ![c] = "up"]
        /\ backlog' = Append(backlog, c)
        /\ fdConn' = fdConn /\ stream' = stream
    BY <1>4 DEF Connect
  <2>2. /\ Len(backlog') = Len(backlog) + 1
        /\ \A i \in 1 .. Len(backlog) : backlog'[i] = backlog[i]
        /\ backlog'[Len(backlog) + 1] = c
        /\ backlog' \in Seq(Conns)
    BY <2>1, AppendProperties
  <2>3. ASSUME NEW i \in DOMAIN backlog'
        PROVE  \/ i \in DOMAIN backlog /\ backlog'[i] = backlog[i]
               \/ i = Len(backlog) + 1 /\ backlog'[i] = c
    <3>1. DOMAIN backlog' = 1 .. Len(backlog) + 1 /\ DOMAIN backlog = 1 .. Len(backlog)
      BY <2>2
    <3>2. \A k \in 1 .. Len(backlog) + 1 : k \in 1 .. Len(backlog) \/ k = Len(backlog) + 1
      OBVIOUS
    <3>3. i \in 1 .. Len(backlog) \/ i = Len(backlog) + 1
      BY <3>1, <3>2
    <3> QED BY <3>3, <3>1, <2>2
  <2>4. \A i \in DOMAIN backlog : backlog[i] # c
    BY <2>1
  <2>5. \A i \in DOMAIN backlog : backlog[i] \in Conns
    OBVIOUS
  <2>6. \A d \in Conns : client'[d] = IF d = c THEN "up" ELSE client[d]
    BY <2>1
  <2>7. \A i \in DOMAIN backlog' :
          /\ client'[backlog'[i]] # "idle"
          /\ stream'[backlog'[i]] = <<>>
          /\ \A f \in Fds : fdConn'[f] # backlog'[i]
    BY <2>1, <2>3, <2>4, <2>5, <2>6
  <2>8. ASSUME NEW i \in DOMAIN backlog', NEW j \in DOMAIN backlog',
               backlog'[i] = backlog'[j]
        PROVE  i = j
    <3>1. CASE i \in DOMAIN backlog /\ j \in DOMAIN backlog
      BY <2>3, <2>4, <2>8, <3>1
    <3>2. CASE i = Len(backlog) + 1 \/ j = Len(backlog) + 1
      BY <2>3, <2>4, <2>8, <3>2
    <3> QED BY <2>3, <3>1, <3>2
  <2> QED BY <2>1, <2>6, <2>7, <2>8
<1>5. ASSUME NEW c \in Conns, SendRequest(c) \/ SendBody(c) \/ Disconnect(c) \/ Break(c)
      PROVE  FreshInv'
  <2>1. /\ client[c] # "idle"
        /\ client'[c] # "idle"
        /\ \A d \in Conns : d # c => client'[d] = client[d]
        /\ UNCHANGED <<backlog, fdConn, stream>>
    BY <1>5 DEF SendRequest, SendBody, Disconnect, Break
  <2>2. \A i \in DOMAIN backlog : backlog[i] \in Conns
    OBVIOUS
  <2> QED BY <2>1, <2>2
<1>6. CASE UNCHANGED <<client, backlog, fdConn, stream>>
  BY <1>6
<1>7. CASE \/ InitNetwork \/ SetupListener \/ ResetOnConnect \/ SetConnection \/ QueueHello
           \/ RecvHeader \/ RecvBody \/ RecvFail \/ ExecuteAndRespond \/ ClearBeforeClose
           \/ GetConnection \/ TakePacket \/ NothingToSend \/ WriteFail
           \/ ClearAfterFailure \/ GameCollectsItem \/ UNCHANGED vars
  <2>1. UNCHANGED <<client, backlog, fdConn, stream>>
    BY <1>7
       DEF InitNetwork, SetupListener, ResetOnConnect, SetConnection, QueueHello,
           RecvHeader, RecvBody, RecvFail, ExecuteAndRespond, ClearBeforeClose,
           GetConnection, TakePacket, NothingToSend, WriteFail, ClearAfterFailure,
           GameCollectsItem, vars, netVars
  <2> QED BY <2>1, <1>6
<1> QED
  BY <1>1, <1>2, <1>3, <1>4, <1>5, <1>7 DEF Next, Receiver, Sender, Client

LEMMA ServedEnqueue ==
    ASSUME IInv, QueueForServed, Tended, UNCHANGED <<fdConn, connfd>>,
           NEW p \in OwnPackets(ServedConn), enqueuePacket(p)
    PROVE  QueueForServed'
<1>1. RingInv /\ QueueWithin(OwnPackets(ServedConn)) /\ p \in Packet
  BY DEF IInv, RingInv, TypeOK, QueueForServed, OwnPackets
<1>2. QueueWithin(OwnPackets(ServedConn))'
  <2> DEFINE P == OwnPackets(ServedConn)
  <2>1. RingInv /\ QueueWithin(P) /\ p \in P /\ p \in Packet
    BY <1>1
  <2>2. P' = P
    BY DEF ServedConn, OwnPackets, Foreign
  <2> HIDE DEF P
  <2>3. QueueWithin(P)'
    BY <2>1, <2>2, EnqueueWithin DEF QueueWithin
  <2> QED BY <2>3 DEF P
<1> QED BY <1>2 DEF QueueForServed

LEMMA QueueStep ==
    ASSUME IInv, QueueForServed, [Next]_vars
    PROVE  QueueForServed'
<1>0. RingInv
  BY DEF IInv, RingInv, TypeOK
<1>1. CASE ResetOnConnect
  <2>1. Waiting' = 0
    BY <1>0, <1>1, ResetKeepsRing DEF ResetOnConnect
  <2> QED BY <2>1 DEF QueueForServed, QueueWithin
<1>2. CASE QueueHello
  <2>1. ServedConn \in Conns
    BY <1>2, ServedConnType DEF QueueHello, IInv, Serving
  <2>2. Hello(ServedConn) \in OwnPackets(ServedConn)
    BY <2>1, QueuedArePackets DEF Hello, Foreign, OwnPackets
  <2> QED BY <1>2, <2>2, ServedEnqueue DEF QueueHello, Tended, netVars
<1>3. CASE ExecuteAndRespond
  <2>1. ServedConn \in Conns /\ request \in 0 .. MaxRequests
    BY <1>3, ServedConnType DEF ExecuteAndRespond, IInv, TypeOK, Serving
  <2>2. Response(ServedConn, request) \in OwnPackets(ServedConn)
    BY <2>1, QueuedArePackets DEF Response, Foreign, OwnPackets
  <2> QED BY <1>3, <2>2, ServedEnqueue DEF ExecuteAndRespond, Tended, netVars
<1>4. CASE GameCollectsItem
  <2>1. Event \in OwnPackets(ServedConn)
    BY QueuedArePackets DEF Event, Foreign, OwnPackets
  <2>2. CASE Tended
    BY <1>4, <2>1, <2>2, ServedEnqueue DEF GameCollectsItem, netVars, receiverVars
  <2>3. CASE ~Tended
    BY <1>4, <2>3 DEF GameCollectsItem, QueueForServed, Tended, receiverVars
  <2> QED BY <2>2, <2>3
<1>5. CASE TakePacket
  <2>1. UNCHANGED <<rPc, fdConn, connfd>> /\ DequeueOutgoing
    BY <1>5 DEF TakePacket, receiverVars, netVars
  <2>2. ASSUME Tended
        PROVE  QueueWithin(OwnPackets(ServedConn))'
    <3> DEFINE P == OwnPackets(ServedConn)
    <3>1. QueueWithin(P)
      BY <2>2 DEF QueueForServed
    <3>2. P' = P
      BY <2>1 DEF ServedConn, OwnPackets, Foreign
    <3> HIDE DEF P
    <3>3. QueueWithin(P)'
      BY <1>0, <2>1, <3>1, <3>2, DequeueWithin DEF QueueWithin
    <3> QED BY <3>3 DEF P
  <2> QED BY <2>1, <2>2 DEF QueueForServed, Tended
<1>6. ASSUME UNCHANGED ringVars, UNCHANGED <<fdConn, connfd>>, Tended' => Tended
      PROVE  QueueForServed'
  BY <1>6 DEF ringVars, QueueForServed, QueueWithin, OwnPackets, Foreign, ServedConn, Waiting,
              SlotOf
<1>7. CASE InitNetwork \/ SetupListener \/ AcceptClient \/ CloseConnection
  BY <1>7 DEF InitNetwork, SetupListener, AcceptClient, CloseConnection, QueueForServed,
              Tended
<1>8. CASE SetConnection \/ RecvHeader \/ RecvBody \/ RecvFail \/ ClearBeforeClose
  BY <1>6, <1>8 DEF SetConnection, RecvHeader, RecvBody, RecvFail, ClearBeforeClose,
                    Tended, netVars
<1>9. CASE GetConnection \/ NothingToSend \/ WriteSome \/ WriteFail \/ ClearAfterFailure
  BY <1>6, <1>9 DEF GetConnection, NothingToSend, WriteSome, WriteFail, ClearAfterFailure,
                    Tended, receiverVars, netVars
<1>10. ASSUME NEW c \in Conns, Client(c)
       PROVE  QueueForServed'
  BY <1>6, <1>10 DEF Client, Connect, SendRequest, SendBody, Disconnect, Break, Tended,
                     receiverVars
<1>11. CASE UNCHANGED vars
  BY <1>6, <1>11 DEF vars, Tended, receiverVars, netVars
<1> QED BY <1>1, <1>2, <1>3, <1>4, <1>5, <1>7, <1>8, <1>9, <1>10, <1>11
        DEF Next, Receiver, Sender

\* After a write the client's stream is its old one followed by halves of the
\* packet being sent, numbered from sOff + 1; no other stream changes.
LEMMA WriteAppends ==
    ASSUME IInv, WriteSome
    PROVE  /\ Serving /\ sFd = connfd /\ ServedConn \in Conns
           /\ \A c \in Conns : c # ServedConn => stream'[c] = stream[c]
           /\ \/ stream' = stream /\ client[ServedConn] = "closed"
              \/ \E k \in 1 .. 2 - sOff :
                   /\ sOff' = sOff + k
                   /\ Len(stream'[ServedConn]) = Len(stream[ServedConn]) + k
                   /\ \A i \in 1 .. Len(stream[ServedConn]) + k :
                        stream'[ServedConn][i] =
                          IF i <= Len(stream[ServedConn]) THEN stream[ServedConn][i]
                          ELSE Half(sPkt, sOff + (i - Len(stream[ServedConn])))
<1>1. /\ Serving /\ sFd = connfd /\ ServedConn \in Conns
      /\ \/ stream' = stream /\ client[ServedConn] = "closed"
         \/ \E k \in 1 .. 2 - sOff :
              /\ sOff' = sOff + k
              /\ stream' = [stream EXCEPT ![ServedConn] =
                              @ \o [i \in 1 .. k |-> Half(sPkt, sOff + i)]]
  BY WriteEffect
<1>2. stream \in [Conns -> Seq(FrameHalves)]
  BY DEF IInv, TypeOK
<1>3. ASSUME NEW k \in 1 .. 2 - sOff,
             sOff' = sOff + k,
             stream' = [stream EXCEPT ![ServedConn] =
                              @ \o [i \in 1 .. k |-> Half(sPkt, sOff + i)]]
      PROVE  /\ \A c \in Conns : c # ServedConn => stream'[c] = stream[c]
             /\ Len(stream'[ServedConn]) = Len(stream[ServedConn]) + k
             /\ \A i \in 1 .. Len(stream[ServedConn]) + k :
                  stream'[ServedConn][i] =
                    IF i <= Len(stream[ServedConn]) THEN stream[ServedConn][i]
                    ELSE Half(sPkt, sOff + (i - Len(stream[ServedConn])))
  <2> DEFINE old == stream[ServedConn]
             new == [i \in 1 .. k |-> Half(sPkt, sOff + i)]
  <2>1. old \in Seq(FrameHalves) /\ stream'[ServedConn] = old \o new
    BY <1>1, <1>2, <1>3
  <2>2. k \in Nat /\ sOff \in {0, 1} /\ sPkt \in Packet
    BY <1>3 DEF IInv, SenderInv, WriteSome
  <2>3. \A i \in 1 .. k : new[i] = Half(sPkt, sOff + i) /\ new[i] \in FrameHalves
    BY <1>3, <2>2 DEF Half, FrameHalves
  <2>4. new \in Seq(FrameHalves) /\ Len(new) = k
    BY <2>2, <2>3
  <2> HIDE DEF new
  <2>5. /\ Len(old \o new) = Len(old) + k
        /\ \A i \in 1 .. Len(old) + k :
             (old \o new)[i] = IF i <= Len(old) THEN old[i] ELSE new[i - Len(old)]
    BY <2>1, <2>4, ConcatProperties
  <2>6. Len(old) \in Nat
    BY <2>1
  <2>7. \A i \in 1 .. Len(old) + k : ~(i <= Len(old)) => i - Len(old) \in 1 .. k
    BY <2>2, <2>6
  <2>8. \A c \in Conns : c # ServedConn => stream'[c] = stream[c]
    BY <1>2, <1>3
  <2> QED BY <2>1, <2>3, <2>5, <2>7, <2>8
<1> QED BY <1>1, <1>2, <1>3

\* What a write adds belongs to the packet being sent.
LEMMA WriteOnlyAdds ==
    ASSUME IInv, WriteSome, NEW i \in DOMAIN stream'[ServedConn]
    PROVE  \/ i \in DOMAIN stream[ServedConn] /\ stream'[ServedConn][i] = stream[ServedConn][i]
           \/ stream'[ServedConn][i].pkt = sPkt
<1>1. stream[ServedConn] \in Seq(FrameHalves)
  BY WriteAppends DEF IInv, TypeOK
<1>2. IInv'
  BY StepKeepsIInv DEF Next, Sender
<1>3. stream'[ServedConn] \in Seq(FrameHalves)
  BY <1>2, WriteAppends DEF IInv, TypeOK
<1>4. CASE stream' = stream
  BY <1>4
<1>5. ASSUME NEW k \in 1 .. 2 - sOff,
             Len(stream'[ServedConn]) = Len(stream[ServedConn]) + k,
             \A j \in 1 .. Len(stream[ServedConn]) + k :
                stream'[ServedConn][j] =
                    IF j <= Len(stream[ServedConn]) THEN stream[ServedConn][j]
                    ELSE Half(sPkt, sOff + (j - Len(stream[ServedConn])))
      PROVE  \/ i \in DOMAIN stream[ServedConn]
                /\ stream'[ServedConn][i] = stream[ServedConn][i]
             \/ stream'[ServedConn][i].pkt = sPkt
  <2>1. i \in 1 .. Len(stream[ServedConn]) + k
    BY <1>3, <1>5
  <2>2. CASE i <= Len(stream[ServedConn])
    BY <1>1, <1>5, <2>1, <2>2
  <2>3. CASE ~(i <= Len(stream[ServedConn]))
    <3>1. stream'[ServedConn][i] = Half(sPkt, sOff + (i - Len(stream[ServedConn])))
      BY <1>5, <2>1, <2>3
    <3> QED BY <3>1 DEF Half
  <2> QED BY <2>2, <2>3
<1> QED BY <1>4, <1>5, WriteAppends

LEMMA StaleStep ==
    ASSUME IInv, FreshInv, QueueForServed, StaleInv, [Next]_vars
    PROVE  StaleInv'
<1> USE DEF StaleInv
<1>1. CASE AcceptClient
  <2>1. PICK fd \in Fds : connfd' = fd /\ fdConn' = [fdConn EXCEPT ![fd] = Head(backlog)]
    BY <1>1 DEF AcceptClient
  <2>2. Head(backlog) = backlog[1] /\ 1 \in DOMAIN backlog
    BY <1>1 DEF AcceptClient, IInv, TypeOK
  <2>3. ServedConn' = backlog[1]
    BY <2>1, <2>2 DEF ServedConn, IInv, TypeOK
  <2>4. stream'[ServedConn'] = <<>>
    BY <1>1, <2>2, <2>3 DEF AcceptClient, FreshInv
  <2>5. OnlyPacket(ServedConn, sPkt)'
    BY <2>4 DEF OnlyPacket
  <2> QED BY <2>4, <2>5
<1>2. CASE TakePacket
  <2>1. /\ UNCHANGED <<rPc, fdConn, connfd, stream>>
        /\ sPc = "dequeue" /\ sPc' = "send" /\ sPkt' = Oldest /\ DequeueOutgoing
    BY <1>2 DEF TakePacket, receiverVars, netVars
  <2>2. ServedConn' = ServedConn
    BY <2>1 DEF ServedConn
  <2>3. CASE rPc \in {"reset", "publish"}
    <3>1. stream'[ServedConn'] = <<>>
      BY <2>1, <2>2, <2>3 DEF Serving
    <3>2. OnlyPacket(ServedConn, sPkt)'
      BY <3>1 DEF OnlyPacket
    <3> QED BY <2>1, <3>2
  <2>4. CASE Tended /\ rPc # "publish"
    <3>1. RingInv
      BY DEF IInv, RingInv, TypeOK
    <3>2. Oldest \in OwnPackets(ServedConn)
      BY <2>1, <2>4, <3>1, DequeueWithin DEF QueueForServed
    <3> QED BY <2>1, <2>2, <2>4, <3>2 DEF OwnPackets, Foreign, Tended
  <2>5. CASE ~Serving
    BY <2>1, <2>5 DEF Serving
  <2> QED BY <2>3, <2>4, <2>5 DEF Serving, Tended
<1>3. CASE WriteSome
  <2>1. UNCHANGED <<rPc, fdConn, connfd, sPkt>> /\ sPc = "send" /\ sPc' \in {"poll", "send"}
    BY <1>3 DEF WriteSome, receiverVars
  <2>2. ServedConn' = ServedConn
    BY <2>1 DEF ServedConn
  <2>3. ASSUME OnlyPacket(ServedConn, sPkt)
        PROVE  OnlyPacket(ServedConn, sPkt)'
    BY <1>3, <2>1, <2>2, <2>3, WriteOnlyAdds DEF OnlyPacket
  <2> QED BY <2>1, <2>2, <2>3 DEF Serving, Foreign
<1>4. CASE GetConnection
  <2>1. rPc \notin {"reset", "publish"}
    BY <1>4 DEF GetConnection, IInv, PublishedInv
  <2> QED BY <1>4, <2>1 DEF GetConnection, receiverVars
<1>5. CASE NothingToSend \/ WriteFail \/ ClearAfterFailure
  BY <1>5 DEF NothingToSend, WriteFail, ClearAfterFailure, receiverVars
<1>6. ASSUME UNCHANGED <<fdConn, connfd, stream, sPc, sPkt>>, Serving' => Serving,
             rPc' \in {"reset", "publish"} => rPc \in {"reset", "publish"}
      PROVE  StaleInv'
  BY <1>6 DEF ServedConn, OnlyPacket, Foreign
<1>7. CASE InitNetwork \/ SetupListener \/ CloseConnection
  BY <1>7 DEF InitNetwork, SetupListener, CloseConnection, Serving
<1>8. CASE ResetOnConnect \/ SetConnection \/ QueueHello \/ RecvHeader \/ RecvBody
           \/ RecvFail \/ ExecuteAndRespond \/ ClearBeforeClose
  BY <1>6, <1>8
     DEF ResetOnConnect, SetConnection, QueueHello, RecvHeader, RecvBody, RecvFail,
         ExecuteAndRespond, ClearBeforeClose, Serving, senderVars, netVars
<1>9. CASE GameCollectsItem \/ UNCHANGED vars
  BY <1>6, <1>9 DEF GameCollectsItem, vars, Serving, receiverVars, senderVars, netVars
<1>10. ASSUME NEW c \in Conns, Client(c)
       PROVE  StaleInv'
  BY <1>6, <1>10 DEF Client, Connect, SendRequest, SendBody, Disconnect, Break, Serving,
                     receiverVars, senderVars
<1> QED BY <1>1, <1>2, <1>3, <1>4, <1>5, <1>7, <1>8, <1>9, <1>10
        DEF Next, Receiver, Sender

\* Only a write changes a stream.
LEMMA StreamsChange ==
    ASSUME [Next]_vars, ~WriteSome
    PROVE  stream' = stream
BY DEF Next, Receiver, Sender, Client, InitNetwork, SetupListener, AcceptClient,
       ResetOnConnect, SetConnection, QueueHello, RecvHeader, RecvBody, RecvFail,
       ExecuteAndRespond, ClearBeforeClose, CloseConnection, GetConnection, TakePacket,
       NothingToSend, WriteFail, ClearAfterFailure, GameCollectsItem, Connect,
       SendRequest, SendBody, Disconnect, Break, vars, netVars

LEMMA StaleFirstStep ==
    ASSUME IInv, StaleInv, StaleFrameFirst, [Next]_vars
    PROVE  StaleFrameFirst'
<1>1. CASE ~WriteSome
  BY <1>1, StreamsChange DEF StaleFrameFirst
<1>2. CASE WriteSome
  <2> SUFFICES ASSUME NEW c \in Conns, NEW i \in DOMAIN stream'[c],
                      Foreign(c, stream'[c][i].pkt), NEW j \in 1 .. i
               PROVE  stream'[c][j].pkt = stream'[c][1].pkt
    BY DEF StaleFrameFirst, Foreign
  <2>1. CASE c # ServedConn
    BY <1>2, <2>1, WriteAppends DEF StaleFrameFirst
  <2>2. CASE c = ServedConn
    <3>1. /\ stream[c] \in Seq(FrameHalves) /\ stream'[c] \in Seq(FrameHalves)
      BY <1>2, StepKeepsIInv DEF IInv, TypeOK, Next, Sender
    <3>2. 1 \in DOMAIN stream'[c] /\ j \in DOMAIN stream'[c]
      BY <3>1
    <3>3. CASE OnlyPacket(c, sPkt)
      BY <1>2, <2>2, <3>2, <3>3, WriteOnlyAdds DEF OnlyPacket
    <3>4. CASE ~OnlyPacket(c, sPkt)
      <4>1. ~Foreign(c, sPkt)
        BY <1>2, <2>2, <3>4, WriteEffect DEF StaleInv, WriteSome
      <4>2. i \in DOMAIN stream[c] /\ stream'[c][i] = stream[c][i]
        BY <1>2, <2>2, <4>1, WriteOnlyAdds
      <4>3. stream[c][j].pkt = stream[c][1].pkt
        BY <4>2 DEF StaleFrameFirst
      <4>4. \A m \in DOMAIN stream[c] : stream'[c][m] = stream[c][m]
        <5>1. CASE stream' = stream
          BY <5>1
        <5>2. CASE stream' # stream
          <6>1. PICK k \in 1 .. 2 - sOff :
                   \A m \in 1 .. Len(stream[c]) + k :
                      stream'[c][m] = IF m <= Len(stream[c]) THEN stream[c][m]
                                      ELSE Half(sPkt, sOff + (m - Len(stream[c])))
            BY <1>2, <2>2, <5>2, WriteAppends
          <6>2. Len(stream[c]) \in Nat /\ DOMAIN stream[c] = 1 .. Len(stream[c])
            BY <3>1
          <6>3. k \in Nat
            BY DEF IInv, TypeOK
          <6> QED BY <6>1, <6>2, <6>3
        <5> QED BY <5>1, <5>2
      <4>5. 1 \in DOMAIN stream[c] /\ j \in DOMAIN stream[c]
        BY <3>1, <4>2
      <4> QED BY <4>3, <4>4, <4>5
    <3> QED BY <3>3, <3>4
  <2> QED BY <2>1, <2>2
<1> QED BY <1>1, <1>2

LEMMA InitStreamInv == Init => StreamInv
<1> SUFFICES ASSUME Init PROVE StreamInv
  OBVIOUS
<1>1. FreshInv
  BY NetAssumption DEF Init, FreshInv
<1>2. QueueForServed /\ StaleInv /\ StaleFrameFirst
  BY DEF Init, QueueForServed, Tended, StaleInv, Serving, StaleFrameFirst
<1> QED BY <1>1, <1>2 DEF StreamInv

LEMMA SpecStreamInv == Spec => []StreamInv
<1>1. IInv /\ StreamInv /\ [Next]_vars => StreamInv'
  BY FreshStep, QueueStep, StaleStep, StaleFirstStep DEF StreamInv
<1> QED BY <1>1, InitStreamInv, SpecIInv, PTL DEF Spec

\* What a client receives of an earlier one is at most one frame, and first.
THEOREM StaleFrameFirstCorrect == Spec => []StaleFrameFirst
<1>1. StreamInv => StaleFrameFirst
  BY DEF StreamInv
<1> QED BY <1>1, SpecStreamInv, PTL
-----------------------------------------------------------------------------
(* The frames on a client's stream.                                        *)

LEMMA HolderStep ==
    ASSUME IInv, FreshInv, HolderInv, [Next]_vars
    PROVE  HolderInv'
<1> USE DEF HolderInv
<1>1. CASE AcceptClient
  <2>1. PICK fd \in Fds : connfd' = fd /\ fdConn' = [fdConn EXCEPT ![fd] = Head(backlog)]
    BY <1>1 DEF AcceptClient
  <2>2. Head(backlog) = backlog[1] /\ 1 \in DOMAIN backlog
    BY <1>1 DEF AcceptClient, IInv, TypeOK
  <2>3. ServedConn' = backlog[1]
    BY <2>1, <2>2 DEF ServedConn, IInv, TypeOK
  <2> QED BY <1>1, <2>2, <2>3 DEF AcceptClient, FreshInv
<1>2. CASE GetConnection
  BY <1>2 DEF GetConnection, IInv, PublishedInv, receiverVars
<1>3. CASE WriteSome
  BY <1>3, WriteEffect DEF WriteSome, receiverVars
<1>4. CASE TakePacket
  BY <1>4 DEF TakePacket, receiverVars, netVars, Serving, ServedConn
<1>5. CASE NothingToSend \/ WriteFail \/ ClearAfterFailure
  BY <1>5 DEF NothingToSend, WriteFail, ClearAfterFailure
<1>6. ASSUME UNCHANGED <<fdConn, connfd, stream, sPc, sFd>>, Serving' => Serving
      PROVE  HolderInv'
  BY <1>6 DEF ServedConn
<1>7. CASE InitNetwork \/ SetupListener \/ CloseConnection
  BY <1>7 DEF InitNetwork, SetupListener, CloseConnection, Serving
<1>8. CASE ResetOnConnect \/ SetConnection \/ QueueHello \/ RecvHeader \/ RecvBody
           \/ RecvFail \/ ExecuteAndRespond \/ ClearBeforeClose
  BY <1>6, <1>8
     DEF ResetOnConnect, SetConnection, QueueHello, RecvHeader, RecvBody, RecvFail,
         ExecuteAndRespond, ClearBeforeClose, Serving, senderVars, netVars
<1>9. CASE GameCollectsItem \/ UNCHANGED vars
  BY <1>6, <1>9 DEF GameCollectsItem, vars, Serving, receiverVars, senderVars, netVars
<1>10. ASSUME NEW c \in Conns, Client(c)
       PROVE  HolderInv'
  BY <1>6, <1>10 DEF Client, Connect, SendRequest, SendBody, Disconnect, Break, Serving,
                     receiverVars, senderVars
<1> QED BY <1>1, <1>2, <1>3, <1>4, <1>5, <1>7, <1>8, <1>9, <1>10
        DEF Next, Receiver, Sender

\* The last half a write adds.
LEMMA WriteFrontier ==
    ASSUME IInv, WriteSome, client[ServedConn] \in {"up", "mid"}
    PROVE  /\ stream'[ServedConn] # <<>>
           /\ LastHalf(ServedConn)' = Half(sPkt, sOff')
           /\ sOff' \in {1, 2}
<1>1. UNCHANGED <<fdConn, connfd>>
  BY DEF WriteSome, receiverVars
<1>2. PICK k \in 1 .. 2 - sOff :
         /\ sOff' = sOff + k
         /\ Len(stream'[ServedConn]) = Len(stream[ServedConn]) + k
         /\ \A i \in 1 .. Len(stream[ServedConn]) + k :
              stream'[ServedConn][i] =
                IF i <= Len(stream[ServedConn]) THEN stream[ServedConn][i]
                ELSE Half(sPkt, sOff + (i - Len(stream[ServedConn])))
  BY WriteAppends
<1>3. sOff \in {0, 1} /\ k \in {1, 2}
  BY DEF IInv, SenderInv, WriteSome
<1>4. Len(stream[ServedConn]) \in Nat
  BY WriteAppends DEF IInv, TypeOK
<1>5. Len(stream[ServedConn]) + k \in 1 .. Len(stream[ServedConn]) + k
      /\ ~(Len(stream[ServedConn]) + k <= Len(stream[ServedConn]))
      /\ (Len(stream[ServedConn]) + k) - Len(stream[ServedConn]) = k
  BY <1>3, <1>4
<1>6. stream'[ServedConn][Len(stream'[ServedConn])] = Half(sPkt, sOff + k)
  BY <1>2, <1>5
<1>7. stream'[ServedConn] # <<>>
  BY <1>2, <1>3, <1>4
<1>8. ServedConn' = ServedConn
  BY <1>1 DEF ServedConn
<1> QED BY <1>2, <1>3, <1>6, <1>7, <1>8 DEF LastHalf

LEMMA FrontierStep ==
    ASSUME IInv, FreshInv, HolderInv, FrontierInv, [Next]_vars
    PROVE  FrontierInv'
<1> USE DEF FrontierInv
<1>1. CASE AcceptClient
  <2>1. PICK fd \in Fds : connfd' = fd /\ fdConn' = [fdConn EXCEPT ![fd] = Head(backlog)]
    BY <1>1 DEF AcceptClient
  <2>2. Head(backlog) = backlog[1] /\ 1 \in DOMAIN backlog
    BY <1>1 DEF AcceptClient, IInv, TypeOK
  <2>3. ServedConn' = backlog[1]
    BY <2>1, <2>2 DEF ServedConn, IInv, TypeOK
  <2> QED BY <1>1, <2>2, <2>3 DEF AcceptClient, FreshInv
<1>2. CASE WriteSome
  <2>1. UNCHANGED <<rPc, fdConn, connfd, client, sPkt>>
        /\ sPc' = IF sOff' = 2 THEN "poll" ELSE "send"
    BY <1>2 DEF WriteSome, receiverVars
  <2>2. ServedConn' = ServedConn
    BY <2>1 DEF ServedConn
  <2>3. CASE client[ServedConn] \in {"up", "mid"}
    BY <1>2, <2>1, <2>2, <2>3, WriteFrontier DEF Half
  <2>4. CASE client[ServedConn] \notin {"up", "mid"}
    BY <2>1, <2>2, <2>4
  <2> QED BY <2>3, <2>4
<1>3. CASE WriteFail
  <2>1. UNCHANGED <<rPc, fdConn, connfd, client, stream>> /\ sPc = "send" /\ sPc' = "drop"
    BY <1>3 DEF WriteFail, receiverVars, netVars
  <2>2. ServedConn' = ServedConn
    BY <2>1 DEF ServedConn
  <2>3. CASE Serving /\ sFd = connfd
    BY <1>3, <2>1, <2>2, <2>3, ServedConnType, NetAssumption
       DEF WriteFail, IInv, ServedConn
  <2>4. CASE Serving /\ sFd # connfd
    BY <2>1, <2>2, <2>4 DEF HolderInv
  <2> QED BY <2>1, <2>3, <2>4 DEF Serving
<1>4. CASE GetConnection \/ TakePacket \/ NothingToSend \/ ClearAfterFailure
  <2>1. /\ UNCHANGED <<rPc, fdConn, connfd, client, stream>>
        /\ sPc # "send"
        /\ sPc' = "send" => sOff' = 0
    BY <1>4 DEF GetConnection, TakePacket, NothingToSend, ClearAfterFailure, receiverVars,
                netVars
  <2> QED BY <2>1 DEF Serving, ServedConn, LastHalf
<1>5. ASSUME UNCHANGED <<fdConn, connfd, stream, senderVars>>, Serving' => Serving,
             \A c \in Conns : client'[c] \in {"up", "mid"} =>
                               client[c] \in {"up", "mid"} \/ client[c] = "idle"
      PROVE  FrontierInv'
  <2>1. CASE ~Serving
    BY <1>5, <2>1
  <2>2. CASE Serving
    <3>1. ServedConn \in Conns /\ client[ServedConn] # "idle"
      BY <2>2, ServedConnType DEF IInv, FreshInv, ServedConn
    <3> QED BY <1>5, <2>2, <3>1 DEF ServedConn, LastHalf, senderVars
  <2> QED BY <2>1, <2>2
<1>6. CASE InitNetwork \/ SetupListener \/ CloseConnection
  BY <1>6 DEF InitNetwork, SetupListener, CloseConnection, Serving
<1>7. CASE ResetOnConnect \/ SetConnection \/ QueueHello \/ RecvHeader \/ RecvBody
           \/ RecvFail \/ ExecuteAndRespond \/ ClearBeforeClose
  BY <1>5, <1>7
     DEF ResetOnConnect, SetConnection, QueueHello, RecvHeader, RecvBody, RecvFail,
         ExecuteAndRespond, ClearBeforeClose, Serving, netVars
<1>8. CASE GameCollectsItem \/ UNCHANGED vars
  BY <1>5, <1>8 DEF GameCollectsItem, vars, Serving, receiverVars, netVars
<1>9. ASSUME NEW c \in Conns, Client(c)
      PROVE  FrontierInv'
  <2>1. /\ UNCHANGED <<fdConn, connfd, stream, senderVars>> /\ (Serving' => Serving)
        /\ client'[c] \in {"up", "mid"} => client[c] \in {"up", "mid"} \/ client[c] = "idle"
        /\ \A d \in Conns : d # c => client'[d] = client[d]
    BY <1>9 DEF Client, Connect, SendRequest, SendBody, Disconnect, Break, Serving,
                receiverVars, IInv, TypeOK
  <2> QED BY <1>5, <2>1
<1> QED BY <1>1, <1>2, <1>3, <1>4, <1>6, <1>7, <1>8, <1>9
        DEF Next, Receiver, Sender

LEMMA FramesStep ==
    ASSUME IInv, FreshInv, FrontierInv, FramesContiguous, [Next]_vars
    PROVE  FramesContiguous'
<1>1. CASE stream' = stream
  BY <1>1 DEF FramesContiguous
<1>2. CASE WriteSome /\ stream' # stream
  <2> SUFFICES ASSUME NEW c \in Conns, NEW i \in 1 .. Len(stream'[c]) - 1
               PROVE  \/ /\ stream'[c][i].half = 1
                         /\ stream'[c][i + 1] = Half(stream'[c][i].pkt, 2)
                      \/ /\ stream'[c][i].half = 2
                         /\ stream'[c][i + 1].half = 1
    BY DEF FramesContiguous, Half
  <2>1. CASE c # ServedConn
    BY <1>2, <2>1, WriteAppends DEF FramesContiguous
  <2>2. CASE c = ServedConn
    <3> DEFINE L == Len(stream[c])
    <3>1. stream[c] \in Seq(FrameHalves) /\ L \in Nat
      BY DEF IInv, TypeOK
    <3>2. client[c] \in {"up", "mid"} /\ Serving
      <4>1. Serving /\ sFd = connfd /\ client[c] # "closed" /\ client[c] # "broken"
        BY <1>2, <2>2, WriteEffect DEF WriteSome, ServedConn
      <4>2. connfd \in Fds /\ fdConn[connfd] = c
        BY <2>2, <4>1, ServedConnType DEF IInv, ServedConn
      <4> QED BY <4>1, <4>2 DEF FreshInv, IInv, TypeOK
    <3>3. PICK k \in 1 .. 2 - sOff :
             /\ Len(stream'[c]) = L + k
             /\ \A m \in 1 .. L + k :
                  stream'[c][m] = IF m <= L THEN stream[c][m] ELSE Half(sPkt, sOff + (m - L))
      BY <1>2, <2>2, WriteAppends
    <3>4. sOff \in {0, 1} /\ sPc = "send" /\ k \in {1, 2}
      BY <1>2 DEF WriteSome, IInv, SenderInv
    <3>5. i \in 1 .. (L + k) - 1 /\ i \in 1 .. L + k /\ i + 1 \in 1 .. L + k
      BY <3>1, <3>3, <3>4
    <3> HIDE DEF L
    <3>6. CASE i < L
      <4>1. stream'[c][i] = stream[c][i] /\ stream'[c][i + 1] = stream[c][i + 1]
        BY <3>1, <3>3, <3>5, <3>6
      <4>2. i \in 1 .. L - 1
        BY <3>1, <3>5, <3>6
      <4> QED BY <4>1, <4>2 DEF FramesContiguous, L
    <3>7. CASE i = L
      <4>1. stream'[c][i] = stream[c][i] /\ stream'[c][i + 1] = Half(sPkt, sOff + 1)
        <5>1. i <= L /\ ~(i + 1 <= L) /\ (i + 1) - L = 1
          BY <3>1, <3>5, <3>7
        <5> QED BY <3>3, <3>5, <5>1
      <4>2. stream[c] # <<>> /\ stream[c][i] = LastHalf(c)
        BY <3>1, <3>5, <3>7 DEF LastHalf, L
      <4>3. CASE sOff = 1
        <5>1. stream[c][i] = Half(sPkt, 1)
          BY <2>2, <3>2, <3>4, <4>2, <4>3 DEF FrontierInv
        <5> QED BY <4>1, <4>3, <5>1 DEF Half
      <4>4. CASE sOff = 0
        <5>1. stream[c][i].half = 2
          BY <2>2, <3>2, <3>4, <4>2, <4>4 DEF FrontierInv
        <5> QED BY <4>1, <4>4, <5>1 DEF Half
      <4> QED BY <3>4, <4>3, <4>4
    <3>8. CASE i > L
      <4>1. /\ k = 2 /\ sOff = 0 /\ i - L = 1 /\ (i + 1) - L = 2
            /\ ~(i <= L) /\ ~(i + 1 <= L)
        BY <3>1, <3>4, <3>5, <3>8
      <4>2. stream'[c][i] = Half(sPkt, 0 + 1) /\ stream'[c][i + 1] = Half(sPkt, 0 + 2)
        BY <3>3, <3>5, <4>1
      <4> QED BY <4>2 DEF Half
    <3> QED BY <3>1, <3>5, <3>6, <3>7, <3>8
  <2> QED BY <2>1, <2>2
<1> QED BY <1>1, <1>2, StreamsChange

LEMMA InitFrameInv == Init => FrameInv
<1> SUFFICES ASSUME Init PROVE FrameInv
  OBVIOUS
<1>1. ~Serving
  BY DEF Init, Serving
<1>2. FramesContiguous
  BY DEF Init, FramesContiguous
<1> QED BY <1>1, <1>2 DEF FrameInv, HolderInv, FrontierInv

LEMMA SpecFrameInv == Spec => []FrameInv
<1>1. StreamInv => FreshInv
  BY DEF StreamInv
<1>2. IInv /\ FreshInv /\ FrameInv /\ [Next]_vars => FrameInv'
  BY HolderStep, FrontierStep, FramesStep DEF FrameInv
<1> QED BY <1>1, <1>2, InitFrameInv, SpecIInv, SpecStreamInv, PTL DEF Spec

\* What a client receives is a run of frames, each half in its place.
THEOREM FramesContiguousCorrect == Spec => []FramesContiguous
<1>1. FrameInv => FramesContiguous
  BY DEF FrameInv
<1> QED BY <1>1, SpecFrameInv, PTL
=============================================================================
