-------------------------- MODULE NetMemoryAccess --------------------------
(***************************************************************************)
(* The command server inside the game (netmemoryaccess.cpp): the receiver  *)
(* thread accepts one client at a time, runs its commands and queues the   *)
(* responses; the sender thread writes queued packets to the descriptor    *)
(* the receiver published; the game thread queues one notification.        *)
(*                                                                         *)
(* A step is what happens between two points where threads can interleave: *)
(* a critical section of gQueueMutex or gConnMutex, or a socket call.      *)
(* Commands' effects on the game are in module Commands.                   *)
(***************************************************************************)
EXTENDS OutgoingRing

CONSTANTS Conns,             \* TCP connections clients open
          NoConn,            \* stands for no connection
          Fds,               \* descriptors the socket layer hands out
          NoFd,              \* stands for no descriptor, -1
          LISTEN_BACKLOG,    \* connections that wait to be accepted
          MAX_INIT_RETRIES,  \* attempts to bring the network up
          MaxRequests,       \* bound: requests all clients send together
          StrictPriority     \* TRUE: the sender (24) runs only while the
                             \* receiver (16) waits in a system call

Kinds == {"hello", "response", "event"}

\* cmdID, length and payload are abstracted to what the packet answers: request n
\* of a connection; hello belongs to one and the notification to none.
Packets == [kind : Kinds, conn : Conns \cup {NoConn}, n : 0 .. MaxRequests]

ASSUME NetAssumption ==
    /\ NoConn \notin Conns
    /\ NoFd \notin Fds
    /\ LISTEN_BACKLOG \in Nat \ {0}
    /\ MAX_INIT_RETRIES \in Nat \ {0}
    /\ MaxRequests \in Nat
    /\ StrictPriority \in BOOLEAN
    /\ Packet = Packets

VARIABLES
  rPc,         \* where receiverLoop is
  initRetries, \* i of initializeNetwork
  connfd,      \* the receiver's descriptor, NoFd between clients
  request,     \* number of the request in recvBuff
  sPc,         \* where senderLoop is
  sFd,         \* the descriptor senderLoop read from GetConnection
  sPkt,        \* the packet it dequeued
  sOff,        \* halves of the frame already written (off of SendAll)
  gConnFd, gConnAlive,   \* the published connection
  ranOnce,     \* the game's notification was queued
  fdConn,      \* socket layer: the connection behind each descriptor
  backlog,     \* socket layer: connections waiting to be accepted
  client,      \* state of each connection on the client's side
  sent,        \* requests the clients have begun to send
  inbox,       \* bytes on their way to the server, as request parts
  stream       \* bytes the server wrote, as halves of frames

receiverVars == <<rPc, initRetries, connfd, request>>
senderVars == <<sPc, sFd, sPkt, sOff>>
connVars == <<gConnFd, gConnAlive>>
netVars == <<fdConn, backlog, client, sent, inbox, stream>>
vars == <<receiverVars, senderVars, connVars, ranOnce, netVars, ringVars>>

Hello(c) == [kind |-> "hello", conn |-> c, n |-> 0]
Response(c, n) == [kind |-> "response", conn |-> c, n |-> n]
Event == [kind |-> "event", conn |-> NoConn, n |-> 0]
Half(p, h) == [pkt |-> p, half |-> h]
Part(s, k) == [shape |-> s, n |-> k]

ServedConn == fdConn[connfd]

Init ==
    /\ RingInit
    /\ rPc = "init" /\ initRetries = 0 /\ connfd = NoFd /\ request = 0
    /\ sPc = "poll" /\ sFd = NoFd /\ sPkt = NoPacket /\ sOff = 0
    /\ gConnFd = NoFd /\ gConnAlive = FALSE
    /\ ranOnce = FALSE
    /\ fdConn = [f \in Fds |-> NoConn]
    /\ backlog = <<>>
    /\ client = [c \in Conns |-> "idle"]
    /\ sent = 0
    /\ inbox = [c \in Conns |-> <<>>]
    /\ stream = [c \in Conns |-> <<>>]
-----------------------------------------------------------------------------
(* The receiver thread.                                                    *)

\* Mutant: the network is retried for ever.
InitNetworkUnlimited ==
    /\ rPc = "init"
    /\ \/ rPc' = "setup" /\ UNCHANGED initRetries
       \/ initRetries' = initRetries + 1 /\ UNCHANGED rPc
    /\ UNCHANGED <<connfd, request, senderVars, connVars, ranOnce, netVars, ringVars>>

\* initializeNetwork: -EAGAIN and -ETIMEDOUT are tried again, but only
\* MAX_INIT_RETRIES times; any other error ends the thread.
InitNetwork ==
    /\ rPc = "init"
    /\ \/ rPc' = "setup" /\ UNCHANGED initRetries
       \/ /\ initRetries + 1 < MAX_INIT_RETRIES
          /\ initRetries' = initRetries + 1
          /\ UNCHANGED rPc
       \/ rPc' = "ended" /\ UNCHANGED initRetries
    /\ UNCHANGED <<connfd, request, senderVars, connVars, ranOnce, netVars, ringVars>>

\* socket, bind, listen: a failure of any of them ends the thread.
SetupListener ==
    /\ rPc = "setup"
    /\ rPc' \in {"accept", "ended"}
    /\ UNCHANGED <<initRetries, connfd, request, senderVars, connVars, ranOnce,
                   netVars, ringVars>>

\* Mynet_accept returned a descriptor; the socket layer picks a free one.
AcceptClient ==
    /\ rPc = "accept"
    /\ backlog # <<>>
    /\ \E fd \in Fds :
         /\ fdConn[fd] = NoConn
         /\ connfd' = fd
         /\ fdConn' = [fdConn EXCEPT ![fd] = Head(backlog)]
    /\ backlog' = Tail(backlog)
    /\ rPc' = "reset"
    /\ UNCHANGED <<initRetries, request, senderVars, connVars, ranOnce, client, sent, inbox,
                   stream, ringVars>>

\* Mutant: a new connection keeps what waits for the old one.
KeepOnConnect ==
    /\ rPc = "reset"
    /\ rPc' = "publish"
    /\ UNCHANGED <<initRetries, connfd, request, senderVars, connVars, ranOnce, netVars,
                   ringVars>>

ResetOnConnect ==
    /\ rPc = "reset"
    /\ ResetQueue
    /\ rPc' = "publish"
    /\ UNCHANGED <<initRetries, connfd, request, senderVars, connVars, ranOnce, netVars>>

SetConnection ==
    /\ rPc = "publish"
    /\ gConnFd' = connfd
    /\ gConnAlive' = TRUE
    /\ rPc' = "hello"
    /\ UNCHANGED <<initRetries, connfd, request, senderVars, ranOnce, netVars, ringVars>>

QueueHello ==
    /\ rPc = "hello"
    /\ enqueuePacket(Hello(ServedConn))
    /\ rPc' = "header"
    /\ UNCHANGED <<initRetries, connfd, request, senderVars, connVars, ranOnce, netVars>>

\* RecvAll of the four bytes of the header.  A "short" request has no body; a
\* "bad" one claims a length below 4 or above BUFSIZE.
RecvHeader ==
    /\ rPc = "header"
    /\ inbox[ServedConn] # <<>>
    /\ inbox' = [inbox EXCEPT ![ServedConn] = Tail(@)]
    /\ request' = Head(inbox[ServedConn]).n
    /\ rPc' = CASE Head(inbox[ServedConn]).shape = "short" -> "execute"
                [] Head(inbox[ServedConn]).shape = "long"  -> "body"
                [] OTHER -> "clear"
    /\ UNCHANGED <<initRetries, connfd, senderVars, connVars, ranOnce, fdConn,
                   backlog, client, sent, stream, ringVars>>

\* RecvAll of the bytes after the header.
RecvBody ==
    /\ rPc = "body"
    /\ inbox[ServedConn] # <<>>
    /\ inbox' = [inbox EXCEPT ![ServedConn] = Tail(@)]
    /\ rPc' = "execute"
    /\ UNCHANGED <<initRetries, connfd, request, senderVars, connVars, ranOnce, fdConn,
                   backlog, client, sent, stream, ringVars>>

\* Mutant: a read of 0 bytes is tried again like a read that would block.
RecvFailRetries ==
    /\ rPc \in {"header", "body"}
    /\ inbox[ServedConn] = <<>>
    /\ client[ServedConn] = "broken"
    /\ rPc' = "clear"
    /\ UNCHANGED <<initRetries, connfd, request, senderVars, connVars, ranOnce, netVars,
                   ringVars>>

\* RecvAll failed: the peer closed and everything it sent was read, or the
\* connection broke.
RecvFail ==
    /\ rPc \in {"header", "body"}
    /\ inbox[ServedConn] = <<>>
    /\ client[ServedConn] \in {"closed", "broken"}
    /\ rPc' = "clear"
    /\ UNCHANGED <<initRetries, connfd, request, senderVars, connVars, ranOnce, netVars,
                   ringVars>>

\* parseAndExecute, then the response is queued whatever the command did; the
\* result of enqueuePacket is not looked at.
ExecuteAndRespond ==
    /\ rPc = "execute"
    /\ enqueuePacket(Response(ServedConn, request))
    /\ rPc' = "header"
    /\ UNCHANGED <<initRetries, connfd, request, senderVars, connVars, ranOnce, netVars>>

\* Mutant: the descriptor is closed while it is still published.
CloseWithoutClear ==
    /\ rPc = "clear"
    /\ rPc' = "close"
    /\ UNCHANGED <<initRetries, connfd, request, senderVars, connVars, ranOnce, netVars,
                   ringVars>>

ClearBeforeClose ==
    /\ rPc = "clear"
    /\ gConnAlive' = FALSE
    /\ gConnFd' = NoFd
    /\ rPc' = "close"
    /\ UNCHANGED <<initRetries, connfd, request, senderVars, ranOnce, netVars, ringVars>>

\* Mynet_close frees the descriptor; the client sees its connection end.
CloseConnection ==
    /\ rPc = "close"
    /\ fdConn' = [fdConn EXCEPT ![connfd] = NoConn]
    /\ client' = [client EXCEPT ![ServedConn] = "closed"]
    /\ inbox' = [inbox EXCEPT ![ServedConn] = <<>>]
    /\ connfd' = NoFd
    /\ rPc' = "accept"
    /\ UNCHANGED <<initRetries, request, senderVars, connVars, ranOnce, backlog, sent,
                   stream, ringVars>>

Receiver == \/ InitNetwork \/ SetupListener \/ AcceptClient \/ ResetOnConnect
            \/ SetConnection \/ QueueHello \/ RecvHeader \/ RecvBody \/ RecvFail
            \/ ExecuteAndRespond \/ ClearBeforeClose \/ CloseConnection
-----------------------------------------------------------------------------
(* The sender thread.                                                      *)

\* The receiver waits in a socket call, so that lower priorities may run.
ReceiverWaits == rPc \in {"init", "setup", "accept", "header", "body", "close", "ended"}

SenderMayRun == StrictPriority => ReceiverWaits

\* A connection is published: senderLoop keeps a copy of its descriptor.
GetConnection ==
    /\ sPc = "poll" /\ SenderMayRun
    /\ gConnAlive /\ gConnFd # NoFd
    /\ sFd' = gConnFd
    /\ sPc' = "dequeue"
    /\ UNCHANGED <<sPkt, sOff, receiverVars, connVars, ranOnce, netVars, ringVars>>

TakePacket ==
    /\ sPc = "dequeue" /\ SenderMayRun
    /\ sPkt' = Oldest
    /\ DequeueOutgoing
    /\ sOff' = 0
    /\ sPc' = "send"
    /\ UNCHANGED <<sFd, receiverVars, connVars, ranOnce, netVars>>

\* Mutant: the sender leaves its loop when the queue is empty.
NothingToSendBreaks ==
    /\ sPc = "dequeue" /\ SenderMayRun
    /\ QueueEmpty
    /\ sPc' = "ended"
    /\ UNCHANGED <<sFd, sPkt, sOff, receiverVars, connVars, ranOnce, netVars, ringVars>>

NothingToSend ==
    /\ sPc = "dequeue" /\ SenderMayRun
    /\ QueueEmpty
    /\ sPc' = "poll"
    /\ UNCHANGED <<sFd, sPkt, sOff, receiverVars, connVars, ranOnce, netVars, ringVars>>

\* Mutant: a partial write counts as the whole frame.
WriteSomeIsAll ==
    /\ sPc = "send" /\ SenderMayRun
    /\ fdConn[sFd] # NoConn
    /\ client[fdConn[sFd]] \in {"up", "mid"}
    /\ \E k \in 1 .. 2 :
         /\ sOff' = k
         /\ stream' = [stream EXCEPT ![fdConn[sFd]] =
                         @ \o [i \in 1 .. k |-> Half(sPkt, i)]]
    /\ sPc' = "poll"
    /\ UNCHANGED <<sFd, sPkt, receiverVars, connVars, ranOnce, fdConn, backlog, client,
                   sent, inbox, ringVars>>

\* Mutant: after a partial write the buffer is sent from its start again.
WriteSomeFromStart ==
    /\ sPc = "send" /\ SenderMayRun
    /\ fdConn[sFd] # NoConn
    /\ client[fdConn[sFd]] \in {"up", "mid"}
    /\ \E k \in 1 .. 2 - sOff :
         /\ sOff' = sOff + k
         /\ stream' = [stream EXCEPT ![fdConn[sFd]] =
                         @ \o [i \in 1 .. k |-> Half(sPkt, i)]]
    /\ sPc' = IF sOff' = 2 THEN "poll" ELSE "send"
    /\ UNCHANGED <<sFd, sPkt, receiverVars, connVars, ranOnce, fdConn, backlog, client,
                   sent, inbox, ringVars>>

\* Mynet_write took k more halves of the frame.  What is written to a connection
\* whose client is gone is lost.
WriteSome ==
    /\ sPc = "send" /\ SenderMayRun
    /\ fdConn[sFd] # NoConn
    /\ client[fdConn[sFd]] # "broken"
    /\ \E k \in 1 .. 2 - sOff :
         /\ sOff' = sOff + k
         /\ stream' = IF client[fdConn[sFd]] = "closed" THEN stream
                      ELSE [stream EXCEPT ![fdConn[sFd]] =
                              @ \o [i \in 1 .. k |-> Half(sPkt, sOff + i)]]
    /\ sPc' = IF sOff' = 2 THEN "poll" ELSE "send"
    /\ UNCHANGED <<sFd, sPkt, receiverVars, connVars, ranOnce, fdConn, backlog, client,
                   sent, inbox, ringVars>>

\* Mynet_write failed: the descriptor is closed, or the client is gone.
WriteFail ==
    /\ sPc = "send" /\ SenderMayRun
    /\ fdConn[sFd] # NoConn => client[fdConn[sFd]] \in {"closed", "broken"}
    /\ sPc' = "drop"
    /\ UNCHANGED <<sFd, sPkt, sOff, receiverVars, connVars, ranOnce, netVars, ringVars>>

ClearAfterFailure ==
    /\ sPc = "drop" /\ SenderMayRun
    /\ gConnAlive' = FALSE
    /\ gConnFd' = NoFd
    /\ sPc' = "poll"
    /\ UNCHANGED <<sFd, sPkt, sOff, receiverVars, ranOnce, netVars, ringVars>>

Sender == \/ GetConnection \/ TakePacket \/ NothingToSend
          \/ WriteSome \/ WriteFail \/ ClearAfterFailure
-----------------------------------------------------------------------------
(* The game thread and the clients.                                        *)

\* The first item picked up that has no switch is reported, once.
GameCollectsItem ==
    /\ ~ranOnce
    /\ ranOnce' = TRUE
    /\ enqueuePacket(Event)
    /\ UNCHANGED <<receiverVars, senderVars, connVars, netVars>>

Listening == rPc \notin {"init", "setup", "ended"}

Connect(c) ==
    /\ client[c] = "idle" /\ Listening
    /\ Len(backlog) < LISTEN_BACKLOG
    /\ client' = [client EXCEPT ![c] = "up"]
    /\ backlog' = Append(backlog, c)
    /\ UNCHANGED <<receiverVars, senderVars, connVars, ranOnce, fdConn, sent, inbox,
                   stream, ringVars>>

\* A "long" request leaves its body for later: "up" becomes "mid".
SendRequest(c) ==
    /\ client[c] = "up"
    /\ sent < MaxRequests
    /\ \E shape \in {"short", "long", "bad"} :
         /\ inbox' = [inbox EXCEPT ![c] = Append(@, Part(shape, sent + 1))]
         /\ client' = [client EXCEPT ![c] = IF shape = "long" THEN "mid" ELSE "up"]
    /\ sent' = sent + 1
    /\ UNCHANGED <<receiverVars, senderVars, connVars, ranOnce, fdConn, backlog, stream,
                   ringVars>>

SendBody(c) ==
    /\ client[c] = "mid"
    /\ inbox' = [inbox EXCEPT ![c] = Append(@, Part("rest", 0))]
    /\ client' = [client EXCEPT ![c] = "up"]
    /\ UNCHANGED <<receiverVars, senderVars, connVars, ranOnce, fdConn, backlog, sent,
                   stream, ringVars>>

\* The client closes: what it sent still arrives.
Disconnect(c) ==
    /\ client[c] \in {"up", "mid"}
    /\ client' = [client EXCEPT ![c] = "closed"]
    /\ UNCHANGED <<receiverVars, senderVars, connVars, ranOnce, fdConn, backlog, sent,
                   inbox, stream, ringVars>>

\* The connection breaks: what is on its way is lost, and calls on it fail.
Break(c) ==
    /\ client[c] \in {"up", "mid"}
    /\ client' = [client EXCEPT ![c] = "broken"]
    /\ inbox' = [inbox EXCEPT ![c] = <<>>]
    /\ UNCHANGED <<receiverVars, senderVars, connVars, ranOnce, fdConn, backlog, sent,
                   stream, ringVars>>

Client(c) == Connect(c) \/ SendRequest(c) \/ SendBody(c) \/ Disconnect(c) \/ Break(c)

Next == Receiver \/ Sender \/ GameCollectsItem \/ \E c \in Conns : Client(c)

Spec == Init /\ [][Next]_vars

\* Both threads keep running; the clients and the game owe nothing.
FairSpec == Spec /\ WF_vars(Sender) /\ WF_vars(Receiver)
-----------------------------------------------------------------------------
(* Properties.                                                             *)

RequestParts == [shape : {"short", "long", "bad", "rest"}, n : 0 .. MaxRequests]

FrameHalves == [pkt : Packet, half : {1, 2}]

TypeOK ==
    /\ RingTypeOK
    /\ rPc \in {"init", "setup", "accept", "reset", "publish", "hello", "header", "body",
                "execute", "clear", "close", "ended"}
    /\ initRetries \in 0 .. MAX_INIT_RETRIES - 1
    /\ connfd \in Fds \cup {NoFd}
    /\ request \in 0 .. MaxRequests
    /\ sPc \in {"poll", "dequeue", "send", "drop"}
    /\ sFd \in Fds \cup {NoFd}
    /\ sPkt \in Packet \cup {NoPacket}
    /\ sOff \in 0 .. 2
    /\ gConnFd \in Fds \cup {NoFd}
    /\ gConnAlive \in BOOLEAN
    /\ ranOnce \in BOOLEAN
    /\ fdConn \in [Fds -> Conns \cup {NoConn}]
    /\ backlog \in Seq(Conns)
    /\ client \in [Conns -> {"idle", "up", "mid", "closed", "broken"}]
    /\ sent \in 0 .. MaxRequests
    /\ inbox \in [Conns -> Seq(RequestParts)]
    /\ stream \in [Conns -> Seq(FrameHalves)]

\* Two threads write gConnFd and gConnAlive.  Whatever the order, what the
\* sender can read there is the open descriptor of the client the receiver is
\* serving, never one that is closed or belongs to an earlier client.
PublishedIsServed ==
    gConnAlive => /\ gConnFd = connfd
                  /\ connfd # NoFd
                  /\ ServedConn # NoConn

\* A packet of another connection: neither its own nor the notification.
Foreign(c, p) == p.conn \notin {c, NoConn}

\* When a descriptor number is used again while the sender still holds it, the
\* new client receives what the sender held for the old one.  It is at most one
\* frame, and it comes before anything else the client receives: the queue
\* itself never carries a packet from one client to the next.
StaleFrameFirst ==
    \A c \in Conns : \A i \in DOMAIN stream[c] :
        Foreign(c, stream[c][i].pkt) =>
            \A j \in 1 .. i : stream[c][j].pkt = stream[c][1].pkt

\* A client can follow the frames: in what it receives every first half is
\* followed by the second half of the same packet.  Only the first entry may lack
\* its beginning, only the last its end.
FramesContiguous ==
    \A c \in Conns : \A i \in 1 .. Len(stream[c]) - 1 :
        \/ /\ stream[c][i].half = 1
           /\ stream[c][i + 1] = Half(stream[c][i].pkt, 2)
        \/ /\ stream[c][i].half = 2
           /\ stream[c][i + 1].half = 1

\* A client receives the answers to its own requests in the order it sent them
\* and the hello before all of them, whatever was dropped in between.
AnsweredInOrder ==
    \A c \in Conns : \A i, j \in DOMAIN stream[c] :
        /\ i < j
        /\ stream[c][i].pkt.conn = c
        /\ stream[c][j].pkt.conn = c
        => \/ stream[c][i].pkt.n < stream[c][j].pkt.n
           \/ stream[c][i].pkt = stream[c][j].pkt /\ stream[c][i].half < stream[c][j].half

\* No half of a frame is written twice, on one connection or on two, and what
\* was written is no longer waiting.
WrittenOnce ==
    /\ \A c, d \in Conns : \A i \in DOMAIN stream[c], j \in DOMAIN stream[d] :
          stream[c][i] = stream[d][j] => c = d /\ i = j
    /\ \A c \in Conns : \A i \in DOMAIN stream[c], k \in DOMAIN Contents :
          stream[c][i].pkt # Contents[k]

Received(c, p) == \E i \in DOMAIN stream[c] : stream[c][i] = Half(p, 2)

Waits(p) == \E k \in DOMAIN Contents : Contents[k] = p

\* A command that ran is answered on the connection it came from, unless that
\* connection ended or the sender gave it up.
Answered ==
    \A c \in Conns, n \in 1 .. MaxRequests :
        Waits(Response(c, n)) ~> \/ Received(c, Response(c, n))
                                 \/ client[c] \in {"closed", "broken"}
                                 \/ ~gConnAlive

\* A client that goes away, even in the middle of a request, does not keep the
\* server: its descriptor is closed and the next client can be accepted.
DeadClientReleased ==
    \A c \in Conns :
        (connfd # NoFd /\ ServedConn = c /\ client[c] \in {"closed", "broken"})
            ~> (rPc = "accept")

\* Comment at netmemoryaccess.cpp:351, "make sender stop using fd BEFORE close":
\* the sender does not write to the descriptor the receiver is about to close.
SenderStoppedBeforeClose ==
    rPc = "close" => ~(sPc = "send" /\ sFd = connfd)

\* Comment at netmemoryaccess.cpp:222, "If send fails, drop connection so recv
\* thread can cleanly close/reaccept": the connection dropped after a failed send
\* is the one the send failed on.
FailedSendDropsItsConnection ==
    [][ClearAfterFailure => gConnFd \in {sFd, NoFd}]_vars
=============================================================================
