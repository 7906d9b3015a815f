---------------------------- MODULE NetOrderProof ----------------------------
(***************************************************************************)
(* Theorems about the order of what a client receives, and that nothing    *)
(* of it is written twice, for every set of clients and descriptors, every *)
(* queue length and both scheduling policies.  A request is followed from  *)
(* the client's bytes through the receiver, the ring and the sender to the *)
(* stream of its answer.                                                   *)
(***************************************************************************)
EXTENDS NetMemoryAccessProof

W(k) == outgoingPackets[SlotOf(k)]

\* A body is awaited at place i of what is on its way from client c: the part before
\* it is the header of a long request.
Awaited(c, i) == IF i = 1 THEN rPc = "body" /\ ServedConn = c ELSE inbox[c][i - 1].shape = "long"

\* Headers and bodies arrive in turn, and the client stands where its bytes end.
PartsInTurn ==
    \A c \in Conns :
      /\ \A i \in DOMAIN inbox[c] : inbox[c][i].shape = "rest" <=> Awaited(c, i)
      /\ client[c] = "up" => ~Awaited(c, Len(inbox[c]) + 1)
      /\ client[c] = "mid" => Awaited(c, Len(inbox[c]) + 1)
      /\ client[c] = "idle" => inbox[c] = <<>>

\* Place i of what is on its way from client c begins a request.
Begins(c, i) == i \in DOMAIN inbox[c] /\ inbox[c][i].shape # "rest"

\* Requests arrive in the order they were sent, the one being read first.
RequestsInOrder ==
    /\ \A c \in Conns : \A i \in DOMAIN inbox[c] : Begins(c, i) =>
          /\ inbox[c][i].n \in 1 .. sent
          /\ \A j \in DOMAIN inbox[c] : Begins(c, j) /\ i < j => inbox[c][i].n < inbox[c][j].n
    /\ rPc \in {"body", "execute"} =>
          /\ request \in 1 .. sent
          /\ \A i \in DOMAIN inbox[ServedConn] :
                Begins(ServedConn, i) => request < inbox[ServedConn][i].n

InboxInv == PartsInTurn /\ RequestsInOrder

\* The hello of client c was queued.
Greeted(c) ==
    /\ client[c] # "idle"
    /\ \A i \in DOMAIN backlog : backlog[i] # c
    /\ ~(rPc \in {"reset", "publish", "hello"} /\ ServedConn = c)

\* Request m of client c is still to be answered.
Coming(c, m) == \/ \E i \in DOMAIN inbox[c] : Begins(c, i) /\ inbox[c][i].n = m
                \/ rPc \in {"body", "execute"} /\ ServedConn = c /\ request = m

\* Packet p was queued, and what its client is still to be answered comes after it.
Made(p) ==
    /\ p = Event => ranOnce
    /\ p.conn \in Conns => /\ Greeted(p.conn)
                           /\ p.n <= sent
                           /\ \A m \in Nat : Coming(p.conn, m) => p.n < m

\* Packet p comes before q.
Before(p, q) == p # q /\ (p.conn = q.conn /\ p.conn # NoConn => p.n < q.n)

\* Everything that is written, held or waiting was queued.
MadeInv ==
    /\ \A k \in 1 .. Waiting : Made(W(k))
    /\ sPc = "send" => Made(sPkt)
    /\ \A c \in Conns : \A i \in DOMAIN stream[c] : Made(stream[c][i].pkt)

WaitInOrder == \A k, l \in 1 .. Waiting : k < l => Before(W(k), W(l))

HeldFirst == sPc = "send" => \A k \in 1 .. Waiting : Before(sPkt, W(k))

\* What is written comes before what waits, and before what the sender holds but
\* for the halves of it that it has written.
WrittenFirst ==
    \A c \in Conns : \A i \in DOMAIN stream[c] :
      /\ \A k \in 1 .. Waiting : Before(stream[c][i].pkt, W(k))
      /\ sPc = "send" => \/ Before(stream[c][i].pkt, sPkt)
                         \/ stream[c][i].pkt = sPkt /\ stream[c][i].half <= sOff

HalvesOnce ==
    \A c, d \in Conns : \A i \in DOMAIN stream[c], j \in DOMAIN stream[d] :
        stream[c][i] = stream[d][j] => c = d /\ i = j

LineInv == WaitInOrder /\ HeldFirst /\ WrittenFirst

OrderInv == InboxInv /\ MadeInv /\ LineInv /\ HalvesOnce /\ AnsweredInOrder
-----------------------------------------------------------------------------
(* What is on its way from the clients.                                    *)

\* A part in front of an inbox is taken: the others move up, with what is awaited.
LEMMA TakePart ==
    ASSUME NEW S, NEW s \in Seq(S), s # <<>>
    PROVE  /\ Len(Tail(s)) \in Nat /\ Len(s) \in Nat /\ Len(Tail(s)) + 1 = Len(s)
           /\ \A i \in DOMAIN Tail(s) : i + 1 \in DOMAIN s /\ Tail(s)[i] = s[i + 1]
           /\ 1 \in DOMAIN s /\ Head(s) = s[1]
BY HeadTailProperties

LEMMA AddPart ==
    ASSUME NEW S, NEW s \in Seq(S), NEW x \in S
    PROVE  /\ Len(s) \in Nat /\ Len(Append(s, x)) = Len(s) + 1
           /\ \A i \in DOMAIN s : i \in DOMAIN Append(s, x) /\ Append(s, x)[i] = s[i]
           /\ \A i \in DOMAIN Append(s, x) : i \in DOMAIN s \/ i = Len(s) + 1
           /\ Append(s, x)[Len(s) + 1] = x
           /\ Len(s) + 1 \in DOMAIN Append(s, x)
BY AppendProperties

\* One client takes nothing from another: the receiver reads one part of the served one.
LEMMA ReadPart ==
    ASSUME IInv, InboxInv, RecvHeader \/ RecvBody
    PROVE  /\ connfd \in Fds /\ ServedConn \in Conns /\ ServedConn' = ServedConn
           /\ Serving /\ inbox[ServedConn] # <<>>
           /\ \A c \in Conns : c # ServedConn => inbox'[c] = inbox[c]
           /\ inbox'[ServedConn] = Tail(inbox[ServedConn])
           /\ inbox[ServedConn][1].shape = "rest" <=> rPc = "body"
           /\ UNCHANGED <<client, sent, backlog, ranOnce>>
<1>1. Serving
  BY DEF RecvHeader, RecvBody, Serving
<1>2. connfd \in Fds /\ ServedConn \in Conns
  BY <1>1, ServedConnType DEF IInv
<1>3. UNCHANGED <<fdConn, connfd, client, sent, backlog, ranOnce>>
  BY DEF RecvHeader, RecvBody
<1>4. /\ inbox[ServedConn] # <<>>
      /\ inbox' = [inbox EXCEPT ![ServedConn] = Tail(inbox[ServedConn])]
  BY DEF RecvHeader, RecvBody
<1>5. inbox \in [Conns -> Seq(RequestParts)]
  BY DEF IInv, TypeOK
<1>6. 1 \in DOMAIN inbox[ServedConn]
  BY <1>2, <1>4, <1>5, TakePart
<1>7. inbox[ServedConn][1].shape = "rest" <=> rPc = "body"
  BY <1>2, <1>6 DEF InboxInv, PartsInTurn, Awaited
<1> QED BY <1>1, <1>2, <1>3, <1>4, <1>5, <1>7 DEF ServedConn

LEMMA TurnRead ==
    ASSUME IInv, InboxInv, RecvHeader \/ RecvBody
    PROVE  PartsInTurn'
<1> SUFFICES ASSUME NEW c \in Conns
             PROVE  /\ \A i \in DOMAIN inbox'[c] : inbox'[c][i].shape = "rest" <=> Awaited(c, i)'
                    /\ client'[c] = "up" => ~Awaited(c, Len(inbox[c]) + 1)'
                    /\ client'[c] = "mid" => Awaited(c, Len(inbox[c]) + 1)'
                    /\ client'[c] = "idle" => inbox'[c] = <<>>
  BY DEF PartsInTurn
<1>0. /\ ServedConn' = ServedConn /\ client' = client /\ Serving
      /\ inbox[ServedConn] # <<>> /\ inbox'[ServedConn] = Tail(inbox[ServedConn])
      /\ \A d \in Conns : d # ServedConn => inbox'[d] = inbox[d]
      /\ inbox[ServedConn][1].shape = "rest" <=> rPc = "body"
  BY ReadPart
<1>1. CASE c # ServedConn
  <2>1. inbox'[c] = inbox[c] /\ client'[c] = client[c]
    BY <1>0, <1>1
  <2>2. \A i : Awaited(c, i)' <=> Awaited(c, i)
    BY <1>0, <1>1, <2>1 DEF Awaited
  <2> QED BY <2>1, <2>2 DEF InboxInv, PartsInTurn
<1>2. CASE c = ServedConn
  <2> DEFINE s == inbox[c]
  <2>1. s \in Seq(RequestParts) /\ s # <<>> /\ inbox'[c] = Tail(s)
    BY <1>0, <1>2 DEF IInv, TypeOK
  <2>2. /\ Len(Tail(s)) \in Nat /\ Len(s) \in Nat /\ Len(Tail(s)) + 1 = Len(s)
        /\ \A i \in DOMAIN Tail(s) : i + 1 \in DOMAIN s /\ Tail(s)[i] = s[i + 1]
        /\ 1 \in DOMAIN s /\ Head(s) = s[1]
    BY <2>1, TakePart
  <2>3. rPc' = "body" <=> s[1].shape = "long"
    <3>1. CASE RecvHeader
      BY <1>0, <1>2, <2>2, <3>1 DEF RecvHeader
    <3>2. CASE RecvBody
      BY <1>0, <1>2, <2>2, <3>2 DEF RecvBody
    <3> QED BY <3>1, <3>2
  <2>4. ASSUME NEW i \in 1 .. Len(s)
        PROVE  Awaited(c, i)' <=> Awaited(c, i + 1)
    <3>1. CASE i = 1
      BY <1>0, <1>2, <2>3, <3>1 DEF Awaited
    <3>2. CASE i # 1
      <4>1. i - 1 \in DOMAIN Tail(s) /\ (i - 1) + 1 = i /\ (i + 1) - 1 = i /\ i + 1 # 1
        BY <2>1, <2>2, <3>2
      <4>2. inbox'[c][i - 1] = s[i]
        BY <2>1, <2>2, <4>1
      <4> QED BY <3>2, <4>1, <4>2 DEF Awaited
    <3> QED BY <3>1, <3>2
  <2>5. DOMAIN Tail(s) \subseteq 1 .. Len(s) /\ Len(Tail(s)) + 1 \in 1 .. Len(s)
        /\ DOMAIN Tail(s) = 1 .. Len(Tail(s))
    BY <2>1, <2>2
  <2> HIDE DEF s
  <2>6. ASSUME NEW i \in DOMAIN inbox'[c]
        PROVE  inbox'[c][i].shape = "rest" <=> Awaited(c, i)'
    <3>1. i + 1 \in DOMAIN s /\ inbox'[c][i] = s[i + 1]
      BY <2>1, <2>2, <2>6
    <3>2. s[i + 1].shape = "rest" <=> Awaited(c, i + 1)
      BY <3>1 DEF InboxInv, PartsInTurn, s
    <3> QED BY <2>1, <2>4, <2>5, <2>6, <3>1, <3>2
  <2>7. Awaited(c, Len(inbox[c]) + 1)' <=> Awaited(c, Len(s) + 1)
    BY <2>1, <2>2, <2>4, <2>5 DEF Awaited
  <2>8. client'[c] # "idle"
    <3>1. s # <<>>
      BY <2>1
    <3> QED BY <1>0, <3>1 DEF InboxInv, PartsInTurn, s
  <2> QED BY <1>0, <2>6, <2>7, <2>8 DEF InboxInv, PartsInTurn, s
<1> QED BY <1>1, <1>2

\* A client sends a part that is awaited, or one that is not.
LEMMA TurnSend ==
    ASSUME IInv, InboxInv, NEW c \in Conns, NEW x \in RequestParts,
           inbox' = [inbox EXCEPT ![c] = Append(@, x)], UNCHANGED <<receiverVars, fdConn>>,
           x.shape = "rest" <=> Awaited(c, Len(inbox[c]) + 1),
           \A d \in Conns : d # c => client'[d] = client[d],
           client'[c] = IF x.shape = "long" THEN "mid" ELSE "up"
    PROVE  PartsInTurn'
<1> SUFFICES ASSUME NEW d \in Conns
             PROVE  /\ \A i \in DOMAIN inbox'[d] : inbox'[d][i].shape = "rest" <=> Awaited(d, i)'
                    /\ client'[d] = "up" => ~Awaited(d, Len(inbox[d]) + 1)'
                    /\ client'[d] = "mid" => Awaited(d, Len(inbox[d]) + 1)'
                    /\ client'[d] = "idle" => inbox'[d] = <<>>
  BY DEF PartsInTurn
<1>0. ServedConn' = ServedConn /\ rPc' = rPc /\ inbox \in [Conns -> Seq(RequestParts)]
  BY DEF ServedConn, receiverVars, IInv, TypeOK
<1>1. CASE d # c
  <2>1. inbox'[d] = inbox[d] /\ client'[d] = client[d]
    BY <1>0, <1>1
  <2>2. \A i : Awaited(d, i)' <=> Awaited(d, i)
    BY <1>0, <2>1 DEF Awaited
  <2>3. Awaited(d, Len(inbox[d]) + 1)' <=> Awaited(d, Len(inbox[d]) + 1)
    BY <1>0, <2>1 DEF Awaited
  <2>4. PartsInTurn
    BY DEF InboxInv
  <2> QED BY <2>1, <2>2, <2>3, <2>4 DEF PartsInTurn
<1>2. CASE d = c
  <2> DEFINE s == inbox[c]
  <2>1. s \in Seq(RequestParts) /\ inbox'[c] = Append(s, x)
    BY <1>0
  <2>2. /\ Len(s) \in Nat /\ Len(inbox'[c]) = Len(s) + 1
        /\ \A i \in DOMAIN s : i \in DOMAIN inbox'[c] /\ inbox'[c][i] = s[i]
        /\ \A i \in DOMAIN inbox'[c] : i \in DOMAIN s \/ i = Len(s) + 1
        /\ inbox'[c][Len(s) + 1] = x
        /\ DOMAIN s = 1 .. Len(s)
    BY <2>1, AddPart
  <2>3. ASSUME NEW i \in 1 .. Len(s) + 1
        PROVE  Awaited(c, i)' <=> Awaited(c, i)
    <3>1. CASE i = 1
      BY <1>0, <3>1 DEF Awaited
    <3>2. CASE i # 1
      <4>1. i - 1 \in DOMAIN s
        BY <2>2, <3>2
      <4> QED BY <2>2, <3>2, <4>1 DEF Awaited
    <3> QED BY <3>1, <3>2
  <2>4. Awaited(c, Len(inbox[c]) + 1)' <=> x.shape = "long"
    <3>1. Len(inbox'[c]) + 1 # 1 /\ (Len(inbox'[c]) + 1) - 1 = Len(s) + 1
      BY <2>2
    <3> QED BY <2>2, <3>1 DEF Awaited
  <2> HIDE DEF s
  <2>5. ASSUME NEW i \in DOMAIN inbox'[c]
        PROVE  inbox'[c][i].shape = "rest" <=> Awaited(c, i)'
    <3>1. CASE i \in DOMAIN s
      <4>1. i \in 1 .. Len(s) + 1 /\ inbox'[c][i] = s[i]
        BY <2>2, <3>1
      <4> QED BY <2>3, <3>1, <4>1 DEF InboxInv, PartsInTurn, s
    <3>2. CASE i = Len(s) + 1
      <4>1. i \in 1 .. Len(s) + 1
        BY <2>2, <3>2
      <4> QED BY <2>2, <2>3, <3>2, <4>1 DEF s
    <3> QED BY <2>2, <2>5, <3>1, <3>2
  <2> QED BY <1>2, <2>4, <2>5
<1> QED BY <1>1, <1>2

\* All other steps: a body that is awaited stays so, unless the client is gone.
LEMMA TurnOther ==
    ASSUME IInv, InboxInv,
           \A c \in Conns :
             /\ inbox'[c] = inbox[c] \/ inbox'[c] = <<>>
             /\ client'[c] \in {"up", "mid"} =>
                  /\ inbox'[c] = inbox[c]
                  /\ (rPc = "body" /\ ServedConn = c) <=> (rPc' = "body" /\ ServedConn' = c)
                  /\ \/ client'[c] = client[c]
                     \/ client[c] = "idle" /\ client'[c] = "up" /\ ~Awaited(c, 1)
             /\ inbox'[c] # <<>> =>
                  ((rPc = "body" /\ ServedConn = c) <=> (rPc' = "body" /\ ServedConn' = c))
             /\ client'[c] = "idle" => client[c] = "idle"
    PROVE  PartsInTurn'
<1> SUFFICES ASSUME NEW c \in Conns
             PROVE  /\ \A i \in DOMAIN inbox'[c] : inbox'[c][i].shape = "rest" <=> Awaited(c, i)'
                    /\ client'[c] = "up" => ~Awaited(c, Len(inbox[c]) + 1)'
                    /\ client'[c] = "mid" => Awaited(c, Len(inbox[c]) + 1)'
                    /\ client'[c] = "idle" => inbox'[c] = <<>>
  BY DEF PartsInTurn
<1>1. inbox[c] \in Seq(RequestParts)
  BY DEF IInv, TypeOK
<1>2. CASE inbox'[c] = <<>> /\ client'[c] \notin {"up", "mid"}
  BY <1>2
<1>3. CASE inbox'[c] = inbox[c] /\ (inbox'[c] # <<>> \/ client'[c] \in {"up", "mid"})
  <2>1. \A i : Awaited(c, i)' <=> Awaited(c, i)
    BY <1>3 DEF Awaited
  <2>2. Len(<<>>) + 1 = 1
    BY EmptySeq
  <2>3. PartsInTurn
    BY DEF InboxInv
  <2>4. client[c] = "idle" => inbox[c] = <<>>
    BY <2>3 DEF PartsInTurn
  <2>5. \A i \in DOMAIN inbox'[c] : inbox'[c][i].shape = "rest" <=> Awaited(c, i)'
    BY <1>3, <2>1, <2>3 DEF PartsInTurn
  <2>6. client'[c] = "up" => ~Awaited(c, Len(inbox[c]) + 1)'
    BY <1>3, <2>1, <2>2, <2>3, <2>4 DEF PartsInTurn
  <2>7. client'[c] = "mid" => Awaited(c, Len(inbox[c]) + 1)'
    BY <1>3, <2>1, <2>3 DEF PartsInTurn
  <2> QED BY <1>3, <2>4, <2>5, <2>6, <2>7
<1> QED BY <1>2, <1>3

\* What the steps that neither read nor send leave alone.
LEMMA QuietSteps ==
    ASSUME [Next]_vars, ~RecvHeader, ~RecvBody,
           \A c \in Conns : ~SendRequest(c) /\ ~SendBody(c)
    PROVE  sent' = sent /\ request' = request
BY DEF Next, Receiver, Sender, Client, InitNetwork, SetupListener, AcceptClient,
       ResetOnConnect, SetConnection, QueueHello, RecvFail, ExecuteAndRespond,
       ClearBeforeClose, CloseConnection, GetConnection, TakePacket, NothingToSend,
       WriteSome, WriteFail, ClearAfterFailure, GameCollectsItem, Connect, Disconnect,
       Break, vars, netVars, receiverVars

LEMMA TurnStep ==
    ASSUME IInv, FreshInv, InboxInv, [Next]_vars
    PROVE  PartsInTurn'
<1>t. /\ inbox \in [Conns -> Seq(RequestParts)]
      /\ client \in [Conns -> {"idle", "up", "mid", "closed", "broken"}]
  BY DEF IInv, TypeOK
<1>1. CASE RecvHeader \/ RecvBody
  BY <1>1, TurnRead
<1>2. ASSUME NEW c \in Conns, SendRequest(c)
      PROVE  PartsInTurn'
  <2>1. PICK shape \in {"short", "long", "bad"} :
           /\ inbox' = [inbox EXCEPT ![c] = Append(@, Part(shape, sent + 1))]
           /\ client' = [client EXCEPT ![c] = IF shape = "long" THEN "mid" ELSE "up"]
    BY <1>2 DEF SendRequest
  <2> DEFINE x == Part(shape, sent + 1)
  <2>2. x \in RequestParts /\ x.shape = shape
    BY <1>2, NetAssumption DEF SendRequest, Part, RequestParts, IInv, TypeOK
  <2>3. UNCHANGED <<receiverVars, fdConn>>
    BY <1>2 DEF SendRequest
  <2>4. ~Awaited(c, Len(inbox[c]) + 1)
    BY <1>2 DEF SendRequest, InboxInv, PartsInTurn
  <2>5. /\ \A d \in Conns : d # c => client'[d] = client[d]
        /\ client'[c] = IF shape = "long" THEN "mid" ELSE "up"
    BY <1>t, <2>1
  <2>6. inbox' = [inbox EXCEPT ![c] = Append(@, x)]
    BY <2>1
  <2> HIDE DEF x
  <2> QED BY <2>2, <2>3, <2>4, <2>5, <2>6, TurnSend
<1>3. ASSUME NEW c \in Conns, SendBody(c)
      PROVE  PartsInTurn'
  <2> DEFINE x == Part("rest", 0)
  <2>1. x \in RequestParts /\ x.shape = "rest"
    BY NetAssumption DEF Part, RequestParts
  <2>2. UNCHANGED <<receiverVars, fdConn>> /\ inbox' = [inbox EXCEPT ![c] = Append(@, x)]
    BY <1>3 DEF SendBody
  <2>3. Awaited(c, Len(inbox[c]) + 1)
    BY <1>3 DEF SendBody, InboxInv, PartsInTurn
  <2>4. /\ \A d \in Conns : d # c => client'[d] = client[d]
        /\ client'[c] = "up"
    BY <1>t, <1>3 DEF SendBody
  <2> HIDE DEF x
  <2> QED BY <2>1, <2>2, <2>3, <2>4, TurnSend
<1>4. CASE UNCHANGED <<inbox, client>> /\ rPc # "body" /\ rPc' # "body"
  BY <1>4, TurnOther
<1>5. CASE UNCHANGED <<inbox, client, rPc, connfd, fdConn>>
  BY <1>5, TurnOther DEF ServedConn
<1>6. CASE InitNetwork \/ SetupListener \/ AcceptClient \/ ResetOnConnect \/ SetConnection
           \/ QueueHello \/ ExecuteAndRespond \/ ClearBeforeClose
  <2>1. UNCHANGED <<inbox, client>> /\ rPc # "body" /\ rPc' # "body"
    BY <1>6 DEF InitNetwork, SetupListener, AcceptClient, ResetOnConnect, SetConnection,
                QueueHello, ExecuteAndRespond, ClearBeforeClose, netVars
  <2> QED BY <1>4, <2>1
<1>7. CASE RecvFail
  <2>1. /\ UNCHANGED <<inbox, client, connfd, fdConn>> /\ rPc' = "clear"
        /\ inbox[ServedConn] = <<>> /\ client[ServedConn] \in {"closed", "broken"}
    BY <1>7 DEF RecvFail, netVars
  <2> QED BY <2>1, TurnOther
<1>8. CASE CloseConnection
  <2>1. ServedConn \in Conns
    BY <1>8, ServedConnType DEF CloseConnection, Serving, IInv
  <2>2. /\ rPc = "close" /\ rPc' = "accept"
        /\ \A c \in Conns : IF c = ServedConn THEN inbox'[c] = <<>> /\ client'[c] = "closed"
                            ELSE inbox'[c] = inbox[c] /\ client'[c] = client[c]
    BY <1>8, <1>t, <2>1 DEF CloseConnection
  <2> QED BY <2>2, TurnOther
<1>9. CASE Sender \/ GameCollectsItem \/ UNCHANGED vars
  <2>1. UNCHANGED <<inbox, client, rPc, connfd, fdConn>>
    BY <1>9 DEF Sender, GetConnection, TakePacket, NothingToSend, WriteSome, WriteFail,
                ClearAfterFailure, GameCollectsItem, vars, netVars, receiverVars
  <2> QED BY <1>5, <2>1
<1>10. ASSUME NEW c \in Conns, Connect(c)
       PROVE  PartsInTurn'
  <2>1. /\ UNCHANGED <<inbox, rPc, connfd, fdConn>>
        /\ client[c] = "idle" /\ client'[c] = "up"
        /\ \A d \in Conns : d # c => client'[d] = client[d]
    BY <1>10, <1>t DEF Connect, receiverVars
  <2>2. ~Awaited(c, 1)
    <3>1. CASE rPc # "body"
      BY <3>1 DEF Awaited
    <3>2. CASE rPc = "body"
      <4>1. connfd \in Fds
        BY <3>2, ServedConnType DEF Serving, IInv
      <4> QED BY <2>1, <4>1 DEF FreshInv, Awaited, ServedConn
    <3> QED BY <3>1, <3>2
  <2>3. ServedConn' = ServedConn
    BY <2>1 DEF ServedConn
  <2> QED BY <2>1, <2>2, <2>3, TurnOther
<1>11. ASSUME NEW c \in Conns, Disconnect(c) \/ Break(c)
       PROVE  PartsInTurn'
  <2>1. /\ UNCHANGED <<rPc, connfd, fdConn>>
        /\ client'[c] \in {"closed", "broken"} /\ (inbox'[c] = inbox[c] \/ inbox'[c] = <<>>)
        /\ \A d \in Conns : d # c => client'[d] = client[d] /\ inbox'[d] = inbox[d]
    BY <1>11, <1>t DEF Disconnect, Break, receiverVars
  <2>2. ServedConn' = ServedConn
    BY <2>1 DEF ServedConn
  <2> QED BY <2>1, <2>2, TurnOther
<1> QED BY <1>1, <1>2, <1>3, <1>6, <1>7, <1>8, <1>9, <1>10, <1>11
        DEF Next, Receiver, Client
-----------------------------------------------------------------------------
(* Requests stay in order on their way, and nothing that was queued is to  *)
(* be answered again.                                                      *)

\* What reading a part makes of the requests that are coming.
LEMMA ReadRequests ==
    ASSUME IInv, InboxInv, RecvHeader \/ RecvBody, NEW c \in Conns
    PROVE  /\ \A i \in DOMAIN inbox'[c] :
                IF c = ServedConn THEN i + 1 \in DOMAIN inbox[c] /\ inbox'[c][i] = inbox[c][i + 1]
                                  ELSE i \in DOMAIN inbox[c] /\ inbox'[c][i] = inbox[c][i]
           /\ c = ServedConn /\ rPc' \in {"body", "execute"} =>
                IF rPc = "header" THEN /\ Begins(c, 1) /\ request' = inbox[c][1].n
                                  ELSE rPc = "body" /\ request' = request
<1>0. /\ inbox[ServedConn] # <<>> /\ inbox'[ServedConn] = Tail(inbox[ServedConn])
      /\ \A d \in Conns : d # ServedConn => inbox'[d] = inbox[d]
      /\ inbox[ServedConn][1].shape = "rest" <=> rPc = "body"
  BY ReadPart
<1>1. inbox[c] \in Seq(RequestParts)
  BY DEF IInv, TypeOK
<1>2. CASE c # ServedConn
  BY <1>0, <1>2
<1>3. CASE c = ServedConn
  <2>1. /\ \A i \in DOMAIN Tail(inbox[c]) :
             i + 1 \in DOMAIN inbox[c] /\ Tail(inbox[c])[i] = inbox[c][i + 1]
        /\ 1 \in DOMAIN inbox[c] /\ Head(inbox[c]) = inbox[c][1]
    BY <1>0, <1>1, <1>3, TakePart
  <2>2. CASE RecvHeader
    BY <1>0, <1>3, <2>1, <2>2 DEF RecvHeader, Begins
  <2>3. CASE RecvBody
    BY <1>0, <1>3, <2>1, <2>3 DEF RecvBody
  <2> QED BY <2>2, <2>3
<1> QED BY <1>2, <1>3

LEMMA OrderRead ==
    ASSUME IInv, InboxInv, RecvHeader \/ RecvBody
    PROVE  RequestsInOrder'
<1>0. ServedConn' = ServedConn /\ ServedConn \in Conns /\ UNCHANGED sent
  BY ReadPart
<1>o. RequestsInOrder
  BY DEF InboxInv
<1>t. \A c \in Conns : DOMAIN inbox[c] \subseteq Nat /\ DOMAIN inbox'[c] \subseteq Nat
  <2>1. inbox' \in [Conns -> Seq(RequestParts)]
    BY StepKeepsIInv DEF IInv, TypeOK, Next, Receiver
  <2>2. inbox \in [Conns -> Seq(RequestParts)]
    BY DEF IInv, TypeOK
  <2> QED BY <2>1, <2>2
<1>1. ASSUME NEW c \in Conns, NEW i \in DOMAIN inbox'[c], Begins(c, i)'
      PROVE  /\ inbox'[c][i].n \in 1 .. sent'
             /\ \A j \in DOMAIN inbox'[c] :
                   Begins(c, j)' /\ i < j => inbox'[c][i].n < inbox'[c][j].n
  <2>1. CASE c = ServedConn
    <3>1. \A k \in DOMAIN inbox'[c] : k + 1 \in DOMAIN inbox[c] /\ inbox'[c][k] = inbox[c][k + 1]
      BY <2>1, ReadRequests
    <3>2. \A k \in DOMAIN inbox'[c] : Begins(c, k)' => Begins(c, k + 1)
      BY <3>1 DEF Begins
    <3>3. \A j \in DOMAIN inbox'[c] : i < j => i + 1 < j + 1
      BY <1>t
    <3> QED BY <1>0, <1>1, <1>o, <3>1, <3>2, <3>3 DEF RequestsInOrder
  <2>2. CASE c # ServedConn
    <3>1. \A k \in DOMAIN inbox'[c] : k \in DOMAIN inbox[c] /\ inbox'[c][k] = inbox[c][k]
      BY <2>2, ReadRequests
    <3>2. \A k \in DOMAIN inbox'[c] : Begins(c, k)' => Begins(c, k)
      BY <3>1 DEF Begins
    <3> QED BY <1>0, <1>1, <1>o, <3>1, <3>2 DEF RequestsInOrder
  <2> QED BY <2>1, <2>2
<1>2. ASSUME rPc' \in {"body", "execute"}
      PROVE  /\ request' \in 1 .. sent'
             /\ \A i \in DOMAIN inbox'[ServedConn] :
                   Begins(ServedConn, i)' => request' < inbox'[ServedConn][i].n
  <2> DEFINE c == ServedConn
  <2>1. /\ \A k \in DOMAIN inbox'[c] : k + 1 \in DOMAIN inbox[c] /\ inbox'[c][k] = inbox[c][k + 1]
        /\ IF rPc = "header" THEN Begins(c, 1) /\ request' = inbox[c][1].n
                             ELSE rPc = "body" /\ request' = request
    BY <1>0, <1>2, ReadRequests
  <2>2. \A k \in DOMAIN inbox'[c] : Begins(c, k)' => Begins(c, k + 1) /\ 1 < k + 1
    <3>1. \A k \in DOMAIN inbox'[c] : k \in 1 .. Len(inbox'[c])
      <4>1. inbox'[c] \in Seq(RequestParts)
        BY <1>0, StepKeepsIInv DEF IInv, TypeOK, Next, Receiver
      <4> QED BY <4>1
    <3> QED BY <1>0, <2>1, <3>1 DEF Begins
  <2>3. CASE rPc = "header"
    <3>1. 1 \in DOMAIN inbox[c]
      BY <2>1, <2>3 DEF Begins
    <3> QED BY <1>0, <1>o, <2>1, <2>2, <2>3, <3>1 DEF RequestsInOrder
  <2>4. CASE rPc # "header"
    BY <1>0, <1>o, <2>1, <2>2, <2>4 DEF RequestsInOrder
  <2> QED BY <2>3, <2>4
<1> QED BY <1>0, <1>1, <1>2 DEF RequestsInOrder

LEMMA OrderSend ==
    ASSUME IInv, InboxInv, NEW c \in Conns, NEW x \in RequestParts,
           inbox' = [inbox EXCEPT ![c] = Append(@, x)], UNCHANGED <<receiverVars, fdConn>>,
           \/ x.shape = "rest" /\ sent' = sent
           \/ x.n = sent + 1 /\ sent' = sent + 1
    PROVE  RequestsInOrder'
<1>o. RequestsInOrder
  BY DEF InboxInv
<1>t. sent \in Nat /\ sent' \in Nat /\ sent <= sent' /\ inbox \in [Conns -> Seq(RequestParts)]
  BY NetAssumption DEF IInv, TypeOK
<1>0. ServedConn' = ServedConn /\ rPc' = rPc /\ request' = request
  BY DEF ServedConn, receiverVars
<1> DEFINE s == inbox[c]
<1>1. /\ Len(s) \in Nat
      /\ \A i \in DOMAIN s : i \in DOMAIN inbox'[c] /\ inbox'[c][i] = s[i]
      /\ \A i \in DOMAIN inbox'[c] : i \in DOMAIN s \/ i = Len(s) + 1
      /\ inbox'[c][Len(s) + 1] = x
      /\ DOMAIN s = 1 .. Len(s)
  BY <1>t, AddPart
<1>2. \A d \in Conns : d # c => inbox'[d] = inbox[d]
  BY <1>t
<1> HIDE DEF s
<1>3. \A i \in DOMAIN inbox'[c] : Begins(c, i)' =>
         \/ Begins(c, i) /\ i \in DOMAIN inbox[c] /\ inbox'[c][i] = inbox[c][i]
         \/ i = Len(s) + 1 /\ inbox'[c][i].n = sent + 1 /\ sent' = sent + 1
  BY <1>1 DEF Begins, s
<1>4. \A i \in DOMAIN inbox[c] : Begins(c, i) => inbox[c][i].n \in 1 .. sent
  BY <1>o DEF RequestsInOrder
<1>5. ASSUME NEW d \in Conns, NEW i \in DOMAIN inbox'[d], Begins(d, i)'
      PROVE  /\ inbox'[d][i].n \in 1 .. sent'
             /\ \A j \in DOMAIN inbox'[d] :
                   Begins(d, j)' /\ i < j => inbox'[d][i].n < inbox'[d][j].n
  <2>1. CASE d # c
    <3>1. inbox'[d] = inbox[d] /\ \A k : Begins(d, k)' <=> Begins(d, k)
      BY <1>2, <2>1 DEF Begins
    <3>2. /\ inbox[d][i].n \in 1 .. sent
          /\ \A j \in DOMAIN inbox[d] : Begins(d, j) /\ i < j => inbox[d][i].n < inbox[d][j].n
      BY <1>5, <1>o, <3>1 DEF RequestsInOrder
    <3> QED BY <1>t, <3>1, <3>2
  <2>2. CASE d = c
    <3>1. inbox'[c][i].n \in 1 .. sent'
      BY <1>t, <1>3, <1>4, <1>5, <2>2
    <3>2. ASSUME NEW j \in DOMAIN inbox'[c], Begins(c, j)', i < j
          PROVE  inbox'[c][i].n < inbox'[c][j].n
      <4>1. CASE i \in DOMAIN inbox[c] /\ Begins(c, i) /\ inbox'[c][i] = inbox[c][i]
        <5>1. inbox[c][i].n \in 1 .. sent
          BY <1>4, <4>1
        <5>2. CASE Begins(c, j) /\ j \in DOMAIN inbox[c] /\ inbox'[c][j] = inbox[c][j]
          BY <1>o, <3>2, <4>1, <5>2 DEF RequestsInOrder
        <5>3. CASE inbox'[c][j].n = sent + 1
          BY <1>t, <4>1, <5>1, <5>3
        <5> QED BY <1>3, <3>2, <5>2, <5>3
      <4>2. CASE i = Len(s) + 1
        <5>1. j \in DOMAIN s \/ j = Len(s) + 1
          BY <1>1
        <5> QED BY <1>1, <3>2, <4>2, <5>1
      <4> QED BY <1>3, <1>5, <2>2, <4>1, <4>2
    <3> QED BY <2>2, <3>1, <3>2
  <2> QED BY <2>1, <2>2
<1>6. ASSUME rPc' \in {"body", "execute"}
      PROVE  /\ request' \in 1 .. sent'
             /\ \A i \in DOMAIN inbox'[ServedConn] :
                   Begins(ServedConn, i)' => request' < inbox'[ServedConn][i].n
  <2>1. ServedConn \in Conns
    BY <1>0, <1>6, ServedConnType DEF IInv, Serving
  <2>2. /\ request \in 1 .. sent
        /\ \A i \in DOMAIN inbox[ServedConn] :
              Begins(ServedConn, i) => request < inbox[ServedConn][i].n
    BY <1>0, <1>6, <1>o DEF RequestsInOrder
  <2>3. CASE ServedConn # c
    <3>1. \A i : Begins(ServedConn, i)' => Begins(ServedConn, i)
      BY <1>0, <1>2, <2>1, <2>3 DEF Begins
    <3> QED BY <1>0, <1>2, <1>t, <2>1, <2>2, <2>3, <3>1
  <2>4. CASE ServedConn = c
    BY <1>0, <1>t, <1>3, <2>2, <2>4
  <2> QED BY <2>3, <2>4
<1> QED BY <1>0, <1>5, <1>6 DEF RequestsInOrder

LEMMA OrderOther ==
    ASSUME IInv, InboxInv, UNCHANGED <<sent, request>>,
           \A c \in Conns : inbox'[c] = inbox[c] \/ inbox'[c] = <<>>,
           rPc' \in {"body", "execute"} =>
             rPc \in {"body", "execute"} /\ ServedConn' = ServedConn /\ ServedConn \in Conns
    PROVE  RequestsInOrder'
<1>o. RequestsInOrder
  BY DEF InboxInv
<1>1. \A c \in Conns : \A i \in DOMAIN inbox'[c] :
         /\ i \in DOMAIN inbox[c] /\ inbox'[c] = inbox[c]
         /\ Begins(c, i)' => Begins(c, i)
  BY DEF Begins
<1>2. \A c \in Conns : \A i \in DOMAIN inbox'[c] : Begins(c, i)' =>
         /\ inbox'[c][i].n \in 1 .. sent'
         /\ \A j \in DOMAIN inbox'[c] : Begins(c, j)' /\ i < j => inbox'[c][i].n < inbox'[c][j].n
  BY <1>1, <1>o DEF RequestsInOrder
<1>3. ASSUME rPc' \in {"body", "execute"}
      PROVE  /\ request' \in 1 .. sent'
             /\ \A i \in DOMAIN inbox'[ServedConn'] :
                   Begins(ServedConn, i)' => request' < inbox'[ServedConn'][i].n
  BY <1>1, <1>3, <1>o DEF RequestsInOrder, Begins
<1> QED BY <1>2, <1>3 DEF RequestsInOrder

\* A step that neither reads nor sends takes requests away, if it does anything to them.
LEMMA QuietRequests ==
    ASSUME IInv, [Next]_vars, ~RecvHeader, ~RecvBody,
           \A c \in Conns : ~SendRequest(c) /\ ~SendBody(c)
    PROVE  /\ sent' = sent /\ request' = request
           /\ \A c \in Conns : inbox'[c] = inbox[c] \/ inbox'[c] = <<>>
           /\ rPc' \in {"body", "execute"} =>
                rPc \in {"body", "execute"} /\ ServedConn' = ServedConn /\ ServedConn \in Conns
<1>1. sent' = sent /\ request' = request
  BY QuietSteps
<1>t. inbox \in [Conns -> Seq(RequestParts)]
  BY DEF IInv, TypeOK
<1>2. \/ UNCHANGED inbox
      \/ \E c \in Conns : inbox' = [inbox EXCEPT ![c] = <<>>]
  <2>1. CASE CloseConnection
    BY <2>1, ServedConnType DEF CloseConnection, Serving, IInv
  <2>2. CASE ~CloseConnection
    BY <2>2
       DEF Next, Receiver, Sender, Client, InitNetwork, SetupListener, AcceptClient,
           ResetOnConnect, SetConnection, QueueHello, RecvFail, ExecuteAndRespond,
           ClearBeforeClose, GetConnection, TakePacket, NothingToSend,
           WriteSome, WriteFail, ClearAfterFailure, GameCollectsItem, Connect, Disconnect,
           Break, vars, netVars
  <2> QED BY <2>1, <2>2
<1>3. \A c \in Conns : inbox'[c] = inbox[c] \/ inbox'[c] = <<>>
  BY <1>t, <1>2
<1>4. ASSUME rPc' \in {"body", "execute"}
      PROVE  rPc' = rPc /\ UNCHANGED <<connfd, fdConn>>
  BY <1>4
     DEF Next, Receiver, Sender, Client, InitNetwork, SetupListener, AcceptClient,
         ResetOnConnect, SetConnection, QueueHello, RecvFail, ExecuteAndRespond,
         ClearBeforeClose, CloseConnection, GetConnection, TakePacket, NothingToSend,
         WriteSome, WriteFail, ClearAfterFailure, GameCollectsItem, Connect, Disconnect,
         Break, vars, netVars, receiverVars
<1>5. rPc' \in {"body", "execute"} =>
        rPc \in {"body", "execute"} /\ ServedConn' = ServedConn /\ ServedConn \in Conns
  BY <1>4, ServedConnType DEF Serving, IInv, ServedConn
<1> QED BY <1>1, <1>3, <1>5

LEMMA OrderStep ==
    ASSUME IInv, InboxInv, [Next]_vars
    PROVE  RequestsInOrder'
<1>1. CASE RecvHeader \/ RecvBody
  BY <1>1, OrderRead
<1>2. ASSUME NEW c \in Conns, SendRequest(c)
      PROVE  RequestsInOrder'
  <2>1. PICK shape \in {"short", "long", "bad"} :
           inbox' = [inbox EXCEPT ![c] = Append(@, Part(shape, sent + 1))]
    BY <1>2 DEF SendRequest
  <2> DEFINE x == Part(shape, sent + 1)
  <2>2. x \in RequestParts /\ x.n = sent + 1
    BY <1>2, NetAssumption DEF SendRequest, Part, RequestParts, IInv, TypeOK
  <2>3. UNCHANGED <<receiverVars, fdConn>> /\ sent' = sent + 1
    BY <1>2 DEF SendRequest
  <2>4. inbox' = [inbox EXCEPT ![c] = Append(@, x)]
    BY <2>1
  <2> HIDE DEF x
  <2> QED BY <2>2, <2>3, <2>4, OrderSend
<1>3. ASSUME NEW c \in Conns, SendBody(c)
      PROVE  RequestsInOrder'
  <2> DEFINE x == Part("rest", 0)
  <2>1. x \in RequestParts /\ x.shape = "rest"
    BY NetAssumption DEF Part, RequestParts
  <2>2. /\ UNCHANGED <<receiverVars, fdConn, sent>>
        /\ inbox' = [inbox EXCEPT ![c] = Append(@, x)]
    BY <1>3 DEF SendBody
  <2> HIDE DEF x
  <2> QED BY <2>1, <2>2, OrderSend
<1>4. CASE ~RecvHeader /\ ~RecvBody /\ \A c \in Conns : ~SendRequest(c) /\ ~SendBody(c)
  BY <1>4, QuietRequests, OrderOther
<1> QED BY <1>1, <1>2, <1>3, <1>4

LEMMA GreetedStays ==
    ASSUME IInv, FreshInv, [Next]_vars, NEW c \in Conns, Greeted(c)
    PROVE  Greeted(c)'
<1>t. /\ client \in [Conns -> {"idle", "up", "mid", "closed", "broken"}]
      /\ backlog \in Seq(Conns) /\ fdConn \in [Fds -> Conns \cup {NoConn}]
  BY DEF IInv, TypeOK
<1> USE DEF Greeted
<1>1. CASE AcceptClient
  <2>1. PICK fd \in Fds : connfd' = fd /\ fdConn' = [fdConn EXCEPT ![fd] = Head(backlog)]
    BY <1>1 DEF AcceptClient
  <2>2. backlog # <<>> /\ backlog' = Tail(backlog) /\ client' = client
    BY <1>1 DEF AcceptClient
  <2>3. /\ \A i \in DOMAIN Tail(backlog) :
             i + 1 \in DOMAIN backlog /\ Tail(backlog)[i] = backlog[i + 1]
        /\ 1 \in DOMAIN backlog /\ Head(backlog) = backlog[1]
    BY <1>t, <2>2, TakePart
  <2>4. ServedConn' = backlog[1]
    BY <1>t, <2>1, <2>3 DEF ServedConn
  <2> QED BY <2>2, <2>3, <2>4
<1>2. ASSUME NEW d \in Conns, Connect(d)
      PROVE  Greeted(c)'
  <2>1. /\ backlog' = Append(backlog, d) /\ client[d] = "idle"
        /\ client' = [client EXCEPT ![d] = "up"] /\ UNCHANGED <<rPc, connfd, fdConn>>
    BY <1>2 DEF Connect, receiverVars
  <2>2. /\ \A i \in DOMAIN backlog : backlog'[i] = backlog[i]
        /\ \A i \in DOMAIN backlog' : i \in DOMAIN backlog \/ i = Len(backlog) + 1
        /\ backlog'[Len(backlog) + 1] = d
    BY <1>t, <2>1, AddPart
  <2>3. c # d /\ client'[c] = client[c] /\ ServedConn' = ServedConn
    BY <1>t, <2>1 DEF ServedConn
  <2> QED BY <2>1, <2>2, <2>3
<1>3. CASE CloseConnection
  <2>1. ServedConn \in Conns
    BY <1>3, ServedConnType DEF CloseConnection, Serving, IInv
  <2> QED BY <1>3, <1>t, <2>1 DEF CloseConnection
<1>4. ASSUME UNCHANGED backlog, client'[c] # "idle",
             rPc' \in {"reset", "publish", "hello"} =>
               rPc \in {"reset", "publish", "hello"} /\ UNCHANGED <<connfd, fdConn>>
      PROVE  Greeted(c)'
  BY <1>4 DEF ServedConn
<1>5. CASE InitNetwork \/ SetupListener \/ ResetOnConnect \/ SetConnection \/ QueueHello
           \/ RecvHeader \/ RecvBody \/ RecvFail \/ ExecuteAndRespond \/ ClearBeforeClose
  <2>1. UNCHANGED <<backlog, client, connfd, fdConn>>
    BY <1>5 DEF InitNetwork, SetupListener, ResetOnConnect, SetConnection, QueueHello,
                RecvHeader, RecvBody, RecvFail, ExecuteAndRespond, ClearBeforeClose, netVars
  <2>2. rPc' \in {"reset", "publish", "hello"} => rPc \in {"reset", "publish", "hello"}
    BY <1>5 DEF InitNetwork, SetupListener, ResetOnConnect, SetConnection, QueueHello,
                RecvHeader, RecvBody, RecvFail, ExecuteAndRespond, ClearBeforeClose
  <2> QED BY <1>4, <2>1, <2>2
<1>6. CASE Sender \/ GameCollectsItem \/ UNCHANGED vars
  <2>1. UNCHANGED <<backlog, client, connfd, fdConn, rPc>>
    BY <1>6 DEF Sender, GetConnection, TakePacket, NothingToSend, WriteSome, WriteFail,
                ClearAfterFailure, GameCollectsItem, vars, netVars, receiverVars
  <2> QED BY <1>4, <2>1
<1>7. ASSUME NEW d \in Conns, SendRequest(d) \/ SendBody(d) \/ Disconnect(d) \/ Break(d)
      PROVE  Greeted(c)'
  <2>1. UNCHANGED <<backlog, connfd, fdConn, rPc>>
    BY <1>7 DEF SendRequest, SendBody, Disconnect, Break, receiverVars
  <2>2. client'[c] # "idle"
    BY <1>7, <1>t DEF SendRequest, SendBody, Disconnect, Break
  <2> QED BY <1>4, <2>1, <2>2
<1> QED BY <1>1, <1>2, <1>3, <1>5, <1>6, <1>7 DEF Next, Receiver, Client

\* The only requests to come later are those that are sent later.
LEMMA ComingStays ==
    ASSUME IInv, InboxInv, [Next]_vars, NEW c \in Conns, NEW m \in Nat, Coming(c, m)'
    PROVE  (Coming(c, m) \/ m = sent + 1) /\ sent <= sent'
<1>t. sent \in Nat /\ inbox \in [Conns -> Seq(RequestParts)]
  BY DEF IInv, TypeOK
<1> USE DEF Coming
<1>1. CASE RecvHeader \/ RecvBody
  <2>1. ServedConn' = ServedConn /\ UNCHANGED sent
    BY <1>1, ReadPart
  <2>2. ASSUME NEW i \in DOMAIN inbox'[c], Begins(c, i)', inbox'[c][i].n = m
        PROVE  Coming(c, m)
    BY <1>1, <2>2, ReadRequests DEF Begins
  <2>3. ASSUME rPc' \in {"body", "execute"}, ServedConn = c, request' = m
        PROVE  Coming(c, m)
    <3>1. CASE rPc = "header"
      BY <1>1, <2>3, <3>1, ReadRequests DEF Begins
    <3>2. CASE rPc # "header"
      BY <1>1, <2>3, <3>2, ReadRequests
    <3> QED BY <3>1, <3>2
  <2> QED BY <1>t, <2>1, <2>2, <2>3
<1>2. ASSUME NEW d \in Conns, NEW x,
             inbox' = [inbox EXCEPT ![d] = Append(@, x)], x \in RequestParts,
             UNCHANGED <<receiverVars, fdConn>>, x.shape = "rest" \/ x.n = sent + 1
      PROVE  Coming(c, m) \/ m = sent + 1
  <2>1. ServedConn' = ServedConn /\ rPc' = rPc /\ request' = request
    BY <1>2 DEF ServedConn, receiverVars
  <2>2. CASE c # d
    <3>1. inbox'[c] = inbox[c]
      BY <1>t, <1>2, <2>2
    <3> QED BY <2>1, <3>1 DEF Begins
  <2>3. CASE c = d
    <3>1. /\ \A i \in DOMAIN inbox[c] : inbox'[c][i] = inbox[c][i]
          /\ \A i \in DOMAIN inbox'[c] : i \in DOMAIN inbox[c] \/ i = Len(inbox[c]) + 1
          /\ inbox'[c][Len(inbox[c]) + 1] = x
      BY <1>t, <1>2, <2>3, AddPart
    <3> QED BY <1>2, <2>1, <3>1 DEF Begins
  <2> QED BY <2>2, <2>3
<1>3. ASSUME NEW d \in Conns, SendRequest(d)
      PROVE  (Coming(c, m) \/ m = sent + 1) /\ sent <= sent'
  <2>1. PICK shape \in {"short", "long", "bad"} :
           inbox' = [inbox EXCEPT ![d] = Append(@, Part(shape, sent + 1))]
    BY <1>3 DEF SendRequest
  <2>2. Part(shape, sent + 1) \in RequestParts /\ Part(shape, sent + 1).n = sent + 1
    BY <1>3, NetAssumption DEF SendRequest, Part, RequestParts, IInv, TypeOK
  <2>3. UNCHANGED <<receiverVars, fdConn>> /\ sent' = sent + 1
    BY <1>3 DEF SendRequest
  <2>4. Coming(c, m) \/ m = sent + 1
    BY <1>2, <2>1, <2>2, <2>3
  <2> QED BY <1>t, <2>3, <2>4
<1>4. ASSUME NEW d \in Conns, SendBody(d)
      PROVE  (Coming(c, m) \/ m = sent + 1) /\ sent <= sent'
  <2>1. Part("rest", 0) \in RequestParts /\ Part("rest", 0).shape = "rest"
    BY NetAssumption DEF Part, RequestParts
  <2>2. /\ UNCHANGED <<receiverVars, fdConn, sent>>
        /\ inbox' = [inbox EXCEPT ![d] = Append(@, Part("rest", 0))]
    BY <1>4 DEF SendBody
  <2>3. Coming(c, m) \/ m = sent + 1
    BY <1>2, <2>1, <2>2
  <2> QED BY <1>t, <2>2, <2>3
<1>5. CASE ~RecvHeader /\ ~RecvBody /\ \A d \in Conns : ~SendRequest(d) /\ ~SendBody(d)
  <2>1. /\ sent' = sent /\ request' = request
        /\ inbox'[c] = inbox[c] \/ inbox'[c] = <<>>
        /\ rPc' \in {"body", "execute"} =>
             rPc \in {"body", "execute"} /\ ServedConn' = ServedConn
    BY <1>5, QuietRequests
  <2> QED BY <1>t, <2>1 DEF Begins
<1> QED BY <1>1, <1>3, <1>4, <1>5

\* What was queued stays before all that is to come.
LEMMA MadeStays ==
    ASSUME IInv, FreshInv, InboxInv, [Next]_vars, NEW p \in Packet, Made(p)
    PROVE  Made(p)'
<1>1. ranOnce => ranOnce'
  BY DEF Next, Receiver, Sender, Client, InitNetwork, SetupListener, AcceptClient,
         ResetOnConnect, SetConnection, QueueHello, RecvHeader, RecvBody, RecvFail,
         ExecuteAndRespond, ClearBeforeClose, CloseConnection, GetConnection, TakePacket,
         NothingToSend, WriteSome, WriteFail, ClearAfterFailure, GameCollectsItem, Connect,
         SendRequest, SendBody, Disconnect, Break, vars
<1>2. p.n \in Nat /\ sent \in Nat /\ sent' \in Nat
  <2>1. IInv'
    BY StepKeepsIInv
  <2> QED BY <2>1, NetAssumption DEF Packets, IInv, TypeOK
<1>3. sent <= sent'
  BY <1>2 DEF Next, Receiver, Sender, Client, InitNetwork, SetupListener, AcceptClient,
         ResetOnConnect, SetConnection, QueueHello, RecvHeader, RecvBody, RecvFail,
         ExecuteAndRespond, ClearBeforeClose, CloseConnection, GetConnection, TakePacket,
         NothingToSend, WriteSome, WriteFail, ClearAfterFailure, GameCollectsItem, Connect,
         SendRequest, SendBody, Disconnect, Break, vars, netVars
<1>4. ASSUME p.conn \in Conns
      PROVE  /\ Greeted(p.conn)' /\ p.n <= sent'
             /\ \A m \in Nat : Coming(p.conn, m)' => p.n < m
  <2>1. /\ Greeted(p.conn) /\ p.n <= sent
        /\ \A m \in Nat : Coming(p.conn, m) => p.n < m
    BY <1>4 DEF Made
  <2>2. Greeted(p.conn)'
    BY <1>4, <2>1, GreetedStays
  <2>3. ASSUME NEW m \in Nat, Coming(p.conn, m)'
        PROVE  p.n < m
    BY <1>2, <1>4, <2>1, <2>3, ComingStays
  <2> QED BY <1>2, <1>3, <2>1, <2>2, <2>3
<1> QED BY <1>1, <1>4 DEF Made, Event
-----------------------------------------------------------------------------
(* The line: what is written, what the sender holds, what waits.           *)

LEMMA LineTypes ==
    ASSUME IInv
    PROVE  /\ Waiting \in Nat /\ \A k \in 1 .. Waiting : W(k) \in Packet
           /\ sPc = "send" => sPkt \in Packet /\ sOff \in {0, 1}
           /\ \A c \in Conns : \A i \in DOMAIN stream[c] :
                stream[c][i] \in FrameHalves /\ stream[c][i].pkt \in Packet
<1>1. RingInv
  BY DEF IInv, RingInv, TypeOK
<1>2. Waiting \in Nat
  BY <1>1, WaitingBound DEF RingInv
<1>3. \A c \in Conns : stream[c] \in Seq(FrameHalves)
  BY DEF IInv, TypeOK
<1>4. \A c \in Conns : \A i \in DOMAIN stream[c] : stream[c][i] \in FrameHalves
  BY <1>3, ElementOfSeq
<1> QED BY <1>2, <1>4 DEF IInv, SenderInv, WaitingWereWritten, W, FrameHalves

\* A packet joins the line behind all that was queued.
LEMMA LineEnqueue ==
    ASSUME IInv, MadeInv, LineInv, NEW q \in Packet, enqueuePacket(q),
           UNCHANGED <<senderVars, stream>>,
           \A p \in Packet : Made(p) => Before(p, q) /\ Made(p)',
           Made(q)'
    PROVE  MadeInv' /\ LineInv'
<1>1. sPc' = sPc /\ sPkt' = sPkt /\ sOff' = sOff /\ stream' = stream
  BY DEF senderVars
<1>2. CASE Successor(goutgoingHead) = goutgoingTail
  <2>1. Waiting' = Waiting /\ \A k : W(k)' = W(k)
    BY <1>2 DEF enqueuePacket, Waiting, SlotOf, W
  <2>2. MadeInv'
    BY <1>1, <2>1, LineTypes DEF MadeInv
  <2>3. LineInv'
    BY <1>1, <2>1 DEF LineInv, WaitInOrder, HeldFirst, WrittenFirst, Before
  <2> QED BY <2>2, <2>3
<1>3. CASE Successor(goutgoingHead) # goutgoingTail
  <2>1. /\ Waiting' = Waiting + 1
        /\ \A k \in 1 .. Waiting + 1 : W(k)' = IF k = Waiting + 1 THEN q ELSE W(k)
    BY <1>3, EnqueueWindow DEF RingInv, IInv, TypeOK, W
  <2>2. Waiting \in Nat /\ \A k \in 1 .. Waiting + 1 : k # Waiting + 1 => k \in 1 .. Waiting
    BY LineTypes
  <2>3. \A k \in 1 .. Waiting' : \/ W(k)' = q
                                 \/ k \in 1 .. Waiting /\ W(k)' = W(k)
    BY <2>1, <2>2
  <2>4. MadeInv'
    BY <1>1, <2>3, LineTypes DEF MadeInv
  <2>5. WaitInOrder'
    <3> SUFFICES ASSUME NEW k \in 1 .. Waiting', NEW l \in 1 .. Waiting', k < l
                 PROVE  Before(W(k)', W(l)')
      BY DEF WaitInOrder, Before
    <3>1. k \in 1 .. Waiting /\ W(k)' = W(k)
      BY <2>1, <2>2
    <3>2. CASE l = Waiting + 1
      BY <2>1, <3>1, <3>2, LineTypes DEF MadeInv
    <3>3. CASE l # Waiting + 1
      BY <2>1, <2>2, <3>1, <3>3 DEF LineInv, WaitInOrder
    <3> QED BY <3>2, <3>3
  <2>6. HeldFirst'
    BY <1>1, <2>3, LineTypes DEF LineInv, HeldFirst, MadeInv, Before
  <2>7. WrittenFirst'
    <3> SUFFICES ASSUME NEW c \in Conns, NEW i \in DOMAIN stream[c]
                 PROVE  /\ \A k \in 1 .. Waiting' : Before(stream[c][i].pkt, W(k)')
                        /\ sPc = "send" => \/ Before(stream[c][i].pkt, sPkt)
                                           \/ stream[c][i].pkt = sPkt /\ stream[c][i].half <= sOff
      BY <1>1 DEF WrittenFirst, Before
    <3>1. Before(stream[c][i].pkt, q)
      BY LineTypes DEF MadeInv
    <3> QED BY <2>3, <3>1 DEF LineInv, WrittenFirst
  <2> QED BY <2>4, <2>5, <2>6, <2>7 DEF LineInv
<1> QED BY <1>2, <1>3

\* The client the receiver serves was accepted, and its hello follows at once.
LEMMA ServedGreeted ==
    ASSUME IInv, FreshInv, Serving, UNCHANGED <<client, backlog, fdConn, connfd>>,
           rPc' \notin {"reset", "publish", "hello"}
    PROVE  Greeted(ServedConn)'
<1>1. connfd \in Fds /\ ServedConn \in Conns
  BY ServedConnType DEF IInv
<1>2. client[ServedConn] # "idle" /\ \A i \in DOMAIN backlog : backlog[i] # ServedConn
  BY <1>1 DEF FreshInv, ServedConn
<1>3. ServedConn' = ServedConn
  BY DEF ServedConn
<1> QED BY <1>2, <1>3 DEF Greeted

LEMMA HelloJoins ==
    ASSUME IInv, FreshInv, InboxInv, MadeInv, LineInv, QueueHello
    PROVE  MadeInv' /\ LineInv'
<1>1. Serving /\ ServedConn \in Conns
  BY ServedConnType DEF QueueHello, IInv, Serving
<1>c. PICK c \in Conns : c = ServedConn
  BY <1>1
<1>q. PICK q \in Packet : q = Hello(c)
  BY QueuedArePackets
<1>2. /\ rPc = "hello" /\ rPc' = "header" /\ enqueuePacket(q) /\ ServedConn' = c
      /\ UNCHANGED <<client, backlog, fdConn, connfd, inbox, sent, senderVars, stream>>
  BY <1>c, <1>q DEF QueueHello, netVars, ServedConn
<1>3. q.conn = c /\ q.n = 0 /\ q # Event /\ c # NoConn
  BY <1>q, NetAssumption DEF Hello, Event
<1>4. ASSUME NEW p \in Packet, Made(p)
      PROVE  Before(p, q) /\ Made(p)'
  <2>1. p.conn # c
    BY <1>c, <1>2, <1>4 DEF Made, Greeted
  <2>2. Made(p)'
    BY <1>4, MadeStays DEF Next, Receiver
  <2> QED BY <1>3, <2>1, <2>2 DEF Before
<1>5. Made(q)'
  <2>1. Greeted(c)'
    BY <1>1, <1>c, <1>2, ServedGreeted DEF Greeted
  <2>2. ASSUME NEW m \in Nat, Coming(c, m)'
        PROVE  0 < m
    <3>1. PICK i \in DOMAIN inbox[c] : Begins(c, i) /\ inbox[c][i].n = m
      BY <1>2, <2>2 DEF Coming, Begins
    <3>2. m \in 1 .. sent
      BY <3>1 DEF InboxInv, RequestsInOrder
    <3> QED BY <3>2
  <2>3. 0 <= sent'
    BY <1>2 DEF IInv, TypeOK
  <2> QED BY <1>3, <2>1, <2>2, <2>3 DEF Made, Event
<1> QED BY <1>2, <1>4, <1>5, LineEnqueue

LEMMA ResponseJoins ==
    ASSUME IInv, FreshInv, InboxInv, MadeInv, LineInv, ExecuteAndRespond
    PROVE  MadeInv' /\ LineInv'
<1>1. Serving /\ ServedConn \in Conns
  BY ServedConnType DEF ExecuteAndRespond, IInv, Serving
<1>c. PICK c \in Conns : c = ServedConn
  BY <1>1
<1>n. PICK n : n = request
  OBVIOUS
<1>2. /\ n \in Nat /\ n \in 0 .. MaxRequests /\ n \in 1 .. sent /\ sent \in Nat
      /\ \A i \in DOMAIN inbox[c] : Begins(c, i) => n < inbox[c][i].n
  BY <1>c, <1>n DEF InboxInv, RequestsInOrder, ExecuteAndRespond, IInv, TypeOK
<1>q. PICK q \in Packet : q = Response(c, n)
  BY <1>2, QueuedArePackets
<1>3. /\ rPc = "execute" /\ rPc' = "header" /\ enqueuePacket(q) /\ ServedConn' = c
      /\ UNCHANGED <<client, backlog, fdConn, connfd, inbox, sent, senderVars, stream>>
  BY <1>c, <1>n, <1>q DEF ExecuteAndRespond, netVars, ServedConn
<1>4. q.conn = c /\ q.n = n /\ q # Event /\ c # NoConn
  BY <1>q, NetAssumption DEF Response, Event
<1>5. ASSUME NEW p \in Packet, Made(p)
      PROVE  Before(p, q) /\ Made(p)'
  <2>1. p.conn = c => p.n < n
    BY <1>c, <1>n, <1>2, <1>3, <1>5 DEF Made, Coming
  <2>2. Made(p)'
    BY <1>5, MadeStays DEF Next, Receiver
  <2>3. p # q
    BY <1>2, <1>4, <2>1
  <2> QED BY <1>4, <2>1, <2>2, <2>3 DEF Before
<1>6. Made(q)'
  <2>1. Greeted(c)'
    BY <1>1, <1>c, <1>3, ServedGreeted DEF Greeted
  <2>2. ASSUME NEW m \in Nat, Coming(c, m)'
        PROVE  n < m
    <3>1. PICK i \in DOMAIN inbox[c] : Begins(c, i) /\ inbox[c][i].n = m
      BY <1>3, <2>2 DEF Coming, Begins
    <3> QED BY <1>2, <3>1
  <2>3. n <= sent'
    BY <1>2, <1>3
  <2> QED BY <1>4, <2>1, <2>2, <2>3 DEF Made, Event
<1> QED BY <1>3, <1>5, <1>6, LineEnqueue

LEMMA EventJoins ==
    ASSUME IInv, FreshInv, InboxInv, MadeInv, LineInv, GameCollectsItem
    PROVE  MadeInv' /\ LineInv'
<1>1. /\ ~ranOnce /\ ranOnce' /\ enqueuePacket(Event)
      /\ UNCHANGED <<senderVars, stream>> /\ Event \in Packet
  BY QueuedArePackets DEF GameCollectsItem, netVars
<1>2. Event.conn = NoConn
  BY DEF Event
<1>3. ASSUME NEW p \in Packet, Made(p)
      PROVE  Before(p, Event) /\ Made(p)'
  <2>1. Made(p)'
    BY <1>3, MadeStays DEF Next
  <2>2. p # Event
    BY <1>1, <1>3 DEF Made
  <2> QED BY <1>2, <2>1, <2>2 DEF Before
<1>q. PICK q : q = Event
  OBVIOUS
<1>4. Made(q)'
  BY <1>1, <1>2, <1>q, NetAssumption DEF Made
<1> QED BY <1>1, <1>3, <1>4, <1>q, LineEnqueue

\* The oldest packet is taken: the sender holds what came before all that waits.
LEMMA TakeJoins ==
    ASSUME IInv, FreshInv, InboxInv, MadeInv, LineInv, TakePacket
    PROVE  MadeInv' /\ LineInv'
<1>1. /\ sPkt' = Oldest /\ sPc' = "send" /\ sOff' = 0 /\ DequeueOutgoing
      /\ stream' = stream
  BY DEF TakePacket, netVars
<1>2. /\ Waiting > 0 /\ Waiting' = Waiting - 1 /\ W(1) = Oldest
      /\ \A k \in 1 .. Waiting - 1 : W(k)' = W(k + 1)
  BY <1>1, DequeueWindow DEF IInv, TypeOK, W, Oldest
<1>3. /\ 1 \in 1 .. Waiting
      /\ \A k \in 1 .. Waiting' : k + 1 \in 1 .. Waiting /\ 1 < k + 1 /\ W(k)' = W(k + 1)
      /\ \A k, l \in 1 .. Waiting' : k < l => k + 1 < l + 1
  BY <1>2, LineTypes
<1>4. ASSUME NEW p \in Packet, Made(p)
      PROVE  Made(p)'
  BY <1>4, MadeStays DEF Next, Sender
<1>5. MadeInv'
  <2>1. \A k \in 1 .. Waiting' : Made(W(k))'
    <3> SUFFICES ASSUME NEW k \in 1 .. Waiting'
                 PROVE  Made(W(k))'
      OBVIOUS
    <3>1. PICK p \in Packet : p = W(k + 1) /\ Made(p)
      BY <1>3, LineTypes DEF MadeInv
    <3> QED BY <1>3, <1>4, <3>1
  <2>2. Made(sPkt)'
    <3>1. PICK p \in Packet : p = W(1) /\ Made(p)
      BY <1>3, LineTypes DEF MadeInv
    <3> QED BY <1>1, <1>2, <1>4, <3>1
  <2>3. \A c \in Conns : \A i \in DOMAIN stream[c] : Made(stream[c][i].pkt)'
    <3> SUFFICES ASSUME NEW c \in Conns, NEW i \in DOMAIN stream[c]
                 PROVE  Made(stream[c][i].pkt)'
      OBVIOUS
    <3>1. PICK p \in Packet : p = stream[c][i].pkt /\ Made(p)
      BY LineTypes DEF MadeInv
    <3> QED BY <1>1, <1>4, <3>1
  <2> QED BY <1>1, <2>1, <2>2, <2>3 DEF MadeInv
<1>6. WaitInOrder'
  BY <1>3 DEF LineInv, WaitInOrder, Before
<1>7. HeldFirst'
  BY <1>1, <1>2, <1>3 DEF LineInv, WaitInOrder, HeldFirst, Before
<1>8. WrittenFirst'
  BY <1>1, <1>2, <1>3 DEF LineInv, WrittenFirst, Before
<1> QED BY <1>5, <1>6, <1>7, <1>8 DEF LineInv

\* The queue is emptied: what is left of the line keeps its order.
LEMMA ResetLeaves ==
    ASSUME IInv, FreshInv, InboxInv, MadeInv, LineInv, ResetOnConnect
    PROVE  MadeInv' /\ LineInv'
<1>1. Waiting' = 0 /\ UNCHANGED <<sPc, sPkt, sOff, stream>>
  <2>1. RingInv /\ ResetQueue
    BY DEF IInv, RingInv, TypeOK, ResetOnConnect
  <2> QED BY <2>1, ResetKeepsRing DEF ResetOnConnect, senderVars, netVars
<1>2. ASSUME NEW p \in Packet, Made(p)
      PROVE  Made(p)'
  BY <1>2, MadeStays DEF Next, Receiver
<1>3. MadeInv'
  <2>1. sPc = "send" => Made(sPkt)'
    BY <1>1, <1>2, LineTypes DEF MadeInv
  <2>2. \A c \in Conns : \A i \in DOMAIN stream[c] : Made(stream[c][i].pkt)'
    BY <1>1, <1>2, LineTypes DEF MadeInv
  <2> QED BY <1>1, <2>1, <2>2 DEF MadeInv
<1>4. LineInv'
  BY <1>1 DEF LineInv, WaitInOrder, HeldFirst, WrittenFirst, Before
<1> QED BY <1>3, <1>4

\* Steps that neither queue, take nor write: the sender may give up what it holds.
LEMMA OthersLeave ==
    ASSUME IInv, FreshInv, InboxInv, MadeInv, LineInv, [Next]_vars,
           UNCHANGED <<ringVars, stream>>,
           sPc' = "send" => UNCHANGED <<sPc, sPkt, sOff>>
    PROVE  MadeInv' /\ LineInv'
<1>1. Waiting' = Waiting /\ \A k : W(k)' = W(k)
  BY DEF ringVars, Waiting, SlotOf, W
<1>2. ASSUME NEW p \in Packet, Made(p)
      PROVE  Made(p)'
  BY <1>2, MadeStays
<1>3. MadeInv'
  <2>1. \A k \in 1 .. Waiting' : Made(W(k))'
    BY <1>1, <1>2, LineTypes DEF MadeInv
  <2>2. sPc' = "send" => Made(sPkt)'
    BY <1>2, LineTypes DEF MadeInv
  <2>3. \A c \in Conns : \A i \in DOMAIN stream'[c] : Made(stream[c][i].pkt)'
    BY <1>2, LineTypes DEF MadeInv
  <2> QED BY <2>1, <2>2, <2>3 DEF MadeInv
<1>4. LineInv'
  BY <1>1 DEF LineInv, WaitInOrder, HeldFirst, WrittenFirst, Before
<1> QED BY <1>3, <1>4

\* An entry of a stream after a write: it was there, or it is one of the new halves.
LEMMA WrittenHalf ==
    ASSUME IInv, WriteSome, NEW c \in Conns, NEW i \in DOMAIN stream'[c]
    PROVE  /\ i \in Nat
           /\ \/ i \in DOMAIN stream[c] /\ stream'[c][i] = stream[c][i]
              \/ /\ c = ServedConn
                 /\ Len(stream[c]) \in Nat /\ sOff \in {0, 1} /\ i > Len(stream[c])
                 /\ stream'[c][i] = Half(sPkt, sOff + (i - Len(stream[c])))
                 /\ sOff + (i - Len(stream[c])) <= sOff'
<1>1. stream[c] \in Seq(FrameHalves) /\ stream'[c] \in Seq(FrameHalves)
  BY StepKeepsIInv DEF IInv, TypeOK, Next, Sender
<1>2. Len(stream[c]) \in Nat /\ DOMAIN stream[c] = 1 .. Len(stream[c])
      /\ DOMAIN stream'[c] = 1 .. Len(stream'[c]) /\ Len(stream'[c]) \in Nat /\ i \in Nat
  BY <1>1
<1>3. CASE c # ServedConn \/ stream' = stream
  BY <1>2, <1>3, WriteAppends
<1>4. CASE c = ServedConn /\ stream' # stream
  <2>1. PICK k \in 1 .. 2 - sOff :
           /\ sOff' = sOff + k
           /\ Len(stream'[c]) = Len(stream[c]) + k
           /\ \A j \in 1 .. Len(stream[c]) + k :
                stream'[c][j] = IF j <= Len(stream[c]) THEN stream[c][j]
                                ELSE Half(sPkt, sOff + (j - Len(stream[c])))
    BY <1>4, WriteAppends
  <2>2. sOff \in {0, 1} /\ k \in Nat
    BY DEF IInv, SenderInv, WriteSome
  <2>3. i \in 1 .. Len(stream[c]) + k
    BY <1>2, <2>1
  <2>4. CASE i <= Len(stream[c])
    BY <1>2, <2>1, <2>3, <2>4
  <2>5. CASE ~(i <= Len(stream[c]))
    <3> DEFINE L == Len(stream[c])
    <3>1. L \in Nat /\ i \in Nat /\ i <= L + k /\ ~(i <= L)
      BY <1>2, <2>2, <2>3, <2>5
    <3>2. i > L /\ sOff + (i - L) <= sOff + k
      <4> HIDE DEF L
      <4> QED BY <2>2, <3>1
    <3>3. stream'[c][i] = Half(sPkt, sOff + (i - L))
      BY <2>1, <2>3, <2>5
    <3> QED BY <1>4, <2>1, <2>2, <3>1, <3>2, <3>3
  <2> QED BY <2>4, <2>5
<1> QED BY <1>3, <1>4

LEMMA WriteLeaves ==
    ASSUME IInv, FreshInv, InboxInv, MadeInv, LineInv, HalvesOnce, AnsweredInOrder, WriteSome
    PROVE  MadeInv' /\ LineInv' /\ HalvesOnce' /\ AnsweredInOrder'
<1>1. /\ sPc = "send" /\ sPkt' = sPkt /\ sOff \in {0, 1} /\ sPkt \in Packet
      /\ Waiting' = Waiting /\ \A k : W(k)' = W(k)
  BY DEF WriteSome, ringVars, Waiting, SlotOf, W, IInv, SenderInv
<1>2. sOff' \in Nat /\ sOff' >= sOff
  BY <1>1 DEF WriteSome
<1>3. ASSUME NEW p \in Packet, Made(p)
      PROVE  Made(p)'
  BY <1>3, MadeStays DEF Next, Sender
\* An old half comes before the packet being written, or is one of its first halves.
<1>4. ASSUME NEW c \in Conns, NEW i \in DOMAIN stream[c]
      PROVE  /\ stream[c][i].pkt \in Packet /\ stream[c][i].half \in {1, 2}
             /\ Made(stream[c][i].pkt)
             /\ \A k \in 1 .. Waiting : Before(stream[c][i].pkt, W(k))
             /\ \/ Before(stream[c][i].pkt, sPkt)
                \/ stream[c][i].pkt = sPkt /\ stream[c][i].half <= sOff
  BY <1>1, LineTypes DEF MadeInv, LineInv, WrittenFirst, FrameHalves
\* A new one is a half of it that was not written before.
<1>5. ASSUME NEW c \in Conns, NEW i \in DOMAIN stream'[c], i \notin DOMAIN stream[c]
      PROVE  /\ c = ServedConn /\ stream'[c][i].pkt = sPkt
             /\ stream'[c][i].half = sOff + (i - Len(stream[c]))
             /\ Len(stream[c]) \in Nat /\ i \in Nat /\ i > Len(stream[c])
             /\ stream'[c][i].half > sOff /\ stream'[c][i].half <= sOff'
             /\ \A j \in DOMAIN stream[c] : j < i
  <2>1. /\ c = ServedConn /\ Len(stream[c]) \in Nat /\ i \in Nat /\ i > Len(stream[c])
        /\ stream'[c][i] = Half(sPkt, sOff + (i - Len(stream[c])))
        /\ sOff + (i - Len(stream[c])) <= sOff'
    BY <1>5, WrittenHalf
  <2>2. stream[c] \in Seq(FrameHalves)
    BY DEF IInv, TypeOK
  <2>3. \A j \in DOMAIN stream[c] : j < i
    BY <2>1, <2>2
  <2>4. sOff + (i - Len(stream[c])) > sOff
    BY <1>1, <2>1
  <2> QED BY <2>1, <2>3, <2>4 DEF Half
<1>6. ASSUME NEW c \in Conns, NEW i \in DOMAIN stream'[c], i \in DOMAIN stream[c]
      PROVE  stream'[c][i] = stream[c][i]
  <2>1. stream[c] \in Seq(FrameHalves)
    BY DEF IInv, TypeOK
  <2>2. i <= Len(stream[c]) /\ Len(stream[c]) \in Nat /\ i \in Nat
    BY <1>6, <2>1
  <2> QED BY <2>2, WrittenHalf
<1>7. MadeInv'
  <2>1. \A k \in 1 .. Waiting' : Made(W(k))'
    BY <1>1, <1>3, LineTypes DEF MadeInv
  <2>2. Made(sPkt)'
    BY <1>1, <1>3 DEF MadeInv
  <2>3. ASSUME NEW c \in Conns, NEW i \in DOMAIN stream'[c]
        PROVE  Made(stream[c][i].pkt)'
    <3>1. CASE i \in DOMAIN stream[c]
      BY <1>3, <1>4, <1>6, <3>1
    <3>2. CASE i \notin DOMAIN stream[c]
      <4>1. stream'[c][i].pkt = sPkt'
        BY <1>1, <1>5, <3>2
      <4> QED BY <2>2, <4>1
    <3> QED BY <3>1, <3>2
  <2> QED BY <2>1, <2>2, <2>3 DEF MadeInv
<1>8. WaitInOrder' /\ HeldFirst'
  BY <1>1 DEF LineInv, WaitInOrder, HeldFirst, Before
<1>9. WrittenFirst'
  <2> SUFFICES ASSUME NEW c \in Conns, NEW i \in DOMAIN stream'[c]
               PROVE  /\ \A k \in 1 .. Waiting : Before(stream'[c][i].pkt, W(k))
                      /\ \/ Before(stream'[c][i].pkt, sPkt)
                         \/ stream'[c][i].pkt = sPkt /\ stream'[c][i].half <= sOff'
    BY <1>1 DEF WrittenFirst, Before
  <2>1. CASE i \in DOMAIN stream[c]
    <3>1. stream[c][i].half \in {1, 2} /\ stream'[c][i] = stream[c][i]
      BY <1>4, <1>6, <2>1
    <3>2. stream[c][i].half <= sOff => stream[c][i].half <= sOff'
      BY <1>1, <1>2, <3>1
    <3> QED BY <1>4, <2>1, <3>1, <3>2
  <2>2. CASE i \notin DOMAIN stream[c]
    BY <1>1, <1>5, <2>2 DEF LineInv, HeldFirst
  <2> QED BY <2>1, <2>2
<1>10. HalvesOnce'
  <2> SUFFICES ASSUME NEW c \in Conns, NEW d \in Conns,
                      NEW i \in DOMAIN stream'[c], NEW j \in DOMAIN stream'[d],
                      stream'[c][i] = stream'[d][j]
               PROVE  c = d /\ i = j
    BY DEF HalvesOnce
  <2>1. CASE i \in DOMAIN stream[c] /\ j \in DOMAIN stream[d]
    BY <1>6, <2>1 DEF HalvesOnce
  <2>2. CASE i \notin DOMAIN stream[c] /\ j \notin DOMAIN stream[d]
    <3>1. c = d
      BY <1>5, <2>2
    <3>2. sOff + (i - Len(stream[c])) = sOff + (j - Len(stream[c]))
      BY <1>5, <2>2, <3>1
    <3>3. Len(stream[c]) \in Nat /\ i \in Nat /\ j \in Nat
      BY <1>5, <2>2, <3>1
    <3> QED BY <1>1, <3>1, <3>2, <3>3
  <2>3. CASE i \in DOMAIN stream[c] /\ j \notin DOMAIN stream[d]
    <3>1. stream[c][i].pkt = sPkt /\ stream[c][i].half > sOff
      BY <1>5, <1>6, <2>3
    <3> QED BY <1>1, <1>4, <2>3, <3>1 DEF Before
  <2>4. CASE i \notin DOMAIN stream[c] /\ j \in DOMAIN stream[d]
    <3>1. stream[d][j].pkt = sPkt /\ stream[d][j].half > sOff
      BY <1>5, <1>6, <2>4
    <3> QED BY <1>1, <1>4, <2>4, <3>1 DEF Before
  <2> QED BY <2>1, <2>2, <2>3, <2>4
<1>11. AnsweredInOrder'
  <2> SUFFICES ASSUME NEW c \in Conns, NEW i \in DOMAIN stream'[c], NEW j \in DOMAIN stream'[c],
                      i < j, stream'[c][i].pkt.conn = c, stream'[c][j].pkt.conn = c
               PROVE  \/ stream'[c][i].pkt.n < stream'[c][j].pkt.n
                      \/ /\ stream'[c][i].pkt = stream'[c][j].pkt
                         /\ stream'[c][i].half < stream'[c][j].half
    BY DEF AnsweredInOrder
  <2>1. CASE i \in DOMAIN stream[c] /\ j \in DOMAIN stream[c]
    BY <1>6, <2>1 DEF AnsweredInOrder
  <2>2. CASE i \notin DOMAIN stream[c]
    <3>1. j \notin DOMAIN stream[c]
      <4>1. j \in Nat /\ i \in Nat /\ \A m \in DOMAIN stream[c] : m < i /\ m \in Nat
        <5>1. stream[c] \in Seq(FrameHalves)
          BY DEF IInv, TypeOK
        <5> QED BY <1>5, <2>2, <5>1, WrittenHalf
      <4> QED BY <4>1
    <3>2. /\ stream'[c][i].pkt = sPkt /\ stream'[c][j].pkt = sPkt
          /\ stream'[c][i].half = sOff + (i - Len(stream[c]))
          /\ stream'[c][j].half = sOff + (j - Len(stream[c]))
          /\ Len(stream[c]) \in Nat /\ i \in Nat /\ j \in Nat
      BY <1>5, <2>2, <3>1
    <3>3. sOff + (i - Len(stream[c])) < sOff + (j - Len(stream[c]))
      <4>1. \A o, l, a, b \in Nat : a < b => o + (a - l) < o + (b - l)
        OBVIOUS
      <4>2. sOff \in Nat
        BY <1>1
      <4> QED BY <3>2, <4>1, <4>2
    <3> QED BY <3>2, <3>3
  <2>3. CASE i \in DOMAIN stream[c] /\ j \notin DOMAIN stream[c]
    <3>1. stream'[c][i] = stream[c][i] /\ stream'[c][j].pkt = sPkt /\ stream'[c][j].half > sOff
      BY <1>5, <1>6, <2>3
    <3>2. CASE Before(stream[c][i].pkt, sPkt)
      BY <3>1, <3>2, NetAssumption DEF Before
    <3>3. CASE stream[c][i].pkt = sPkt /\ stream[c][i].half <= sOff
      <4>1. stream[c][i].half < stream'[c][j].half
        <5>1. stream[c][i].half \in {1, 2} /\ stream'[c][j].half = sOff + (j - Len(stream[c]))
              /\ Len(stream[c]) \in Nat /\ j \in Nat
          BY <1>4, <1>5, <2>3
        <5> QED BY <1>1, <3>1, <3>3, <5>1
      <4> QED BY <3>1, <3>3, <4>1
    <3> QED BY <1>4, <2>3, <3>2, <3>3
  <2> QED BY <2>1, <2>2, <2>3
<1> QED BY <1>7, <1>8, <1>9, <1>10, <1>11 DEF LineInv
-----------------------------------------------------------------------------
LEMMA InitOrderInv == Init => OrderInv
<1> SUFFICES ASSUME Init PROVE OrderInv
  OBVIOUS
<1>1. Waiting = 0 /\ rPc = "init" /\ sPc = "poll" /\ ranOnce = FALSE
  BY RingInitInv DEF Init
<1>2. \A c \in Conns : inbox[c] = <<>> /\ stream[c] = <<>> /\ client[c] = "idle"
  BY DEF Init
<1>3. InboxInv
  BY <1>1, <1>2 DEF InboxInv, PartsInTurn, RequestsInOrder
<1>4. MadeInv /\ LineInv /\ HalvesOnce /\ AnsweredInOrder
  BY <1>1, <1>2 DEF MadeInv, LineInv, WaitInOrder, HeldFirst, WrittenFirst, HalvesOnce,
                    AnsweredInOrder
<1> QED BY <1>3, <1>4 DEF OrderInv

LEMMA StepKeepsOrder ==
    ASSUME IInv, FreshInv, OrderInv, [Next]_vars
    PROVE  OrderInv'
<1>0. InboxInv /\ MadeInv /\ LineInv /\ HalvesOnce /\ AnsweredInOrder
  BY DEF OrderInv
<1>1. InboxInv'
  BY <1>0, TurnStep, OrderStep DEF InboxInv
<1>2. CASE WriteSome
  BY <1>0, <1>1, <1>2, WriteLeaves DEF OrderInv
<1>3. CASE ~WriteSome
  <2>1. stream' = stream
    BY <1>3, StreamsChange
  <2>2. HalvesOnce' /\ AnsweredInOrder'
    BY <1>0, <2>1 DEF HalvesOnce, AnsweredInOrder
  <2>3. MadeInv' /\ LineInv'
    <3>1. CASE QueueHello \/ ExecuteAndRespond \/ GameCollectsItem \/ TakePacket \/ ResetOnConnect
      BY <1>0, <3>1, HelloJoins, ResponseJoins, EventJoins, TakeJoins, ResetLeaves
    <3>2. CASE ~(QueueHello \/ ExecuteAndRespond \/ GameCollectsItem \/ TakePacket
                 \/ ResetOnConnect)
      <4>1. UNCHANGED ringVars /\ (sPc' = "send" => UNCHANGED <<sPc, sPkt, sOff>>)
        BY <1>3, <3>2
           DEF Next, Receiver, Sender, Client, InitNetwork, SetupListener, AcceptClient,
               SetConnection, RecvHeader, RecvBody, RecvFail, ClearBeforeClose,
               CloseConnection, GetConnection, NothingToSend, WriteFail, ClearAfterFailure,
               Connect, SendRequest, SendBody, Disconnect, Break, vars, senderVars
      <4> QED BY <1>0, <2>1, <4>1, OthersLeave
    <3> QED BY <3>1, <3>2
  <2> QED BY <1>1, <2>2, <2>3 DEF OrderInv
<1> QED BY <1>2, <1>3

LEMMA SpecOrderInv == Spec => []OrderInv
<1>1. StreamInv => FreshInv
  BY DEF StreamInv
<1>2. IInv /\ FreshInv /\ OrderInv /\ [Next]_vars => OrderInv'
  BY StepKeepsOrder
<1> QED BY <1>1, <1>2, InitOrderInv, SpecIInv, SpecStreamInv, PTL DEF Spec

\* The answers a client receives are in the order of its requests, the hello first:
\* through partial requests and writes, a full queue, dropped connections and descriptors
\* that are used again.
THEOREM AnsweredInOrderCorrect == Spec => []AnsweredInOrder
<1>1. OrderInv => AnsweredInOrder
  BY DEF OrderInv
<1> QED BY <1>1, SpecOrderInv, PTL

\* Nothing that is written is written again, to its client or another, or still waits.
THEOREM WrittenOnceCorrect == Spec => []WrittenOnce
<1>1. IInv /\ OrderInv => WrittenOnce
  <2> SUFFICES ASSUME IInv, OrderInv PROVE WrittenOnce
    OBVIOUS
  <2>1. HalvesOnce
    BY DEF OrderInv
  <2>2. ASSUME NEW c \in Conns, NEW i \in DOMAIN stream[c], NEW k \in DOMAIN Contents
        PROVE  stream[c][i].pkt # Contents[k]
    <3>1. k \in 1 .. Waiting /\ Contents[k] = W(k)
      BY DEF Contents, W
    <3> QED BY <3>1 DEF OrderInv, LineInv, WrittenFirst, Before
  <2> QED BY <2>1, <2>2 DEF WrittenOnce, HalvesOnce
<1> QED BY <1>1, SpecIInv, SpecOrderInv, PTL
=============================================================================
