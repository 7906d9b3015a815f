---------------------------- MODULE SpmapClient ----------------------------
(***************************************************************************)
(* The PC client (src/client/netmemoryaccess_client.py): the GUI thread    *)
(* starts and stops a session and queues commands; the session is a thread *)
(* with an event loop and five tasks: connection, reader, writer, command  *)
(* processing and heartbeat; a joiner thread forgets a session that ended. *)
(* The console is any server that answers in order or not at all, and that *)
(* may begin a connection with what it still held for an earlier one.      *)
(*                                                                         *)
(* A step of a task is what it does between two awaits.  There are no      *)
(* clocks: a timeout may fire whenever what it limits has not happened.    *)
(* An answer is a header and a payload, two parts of the byte stream.      *)
(***************************************************************************)
EXTENDS Integers, Sequences

CONSTANTS Cmds,               \* command ids
          NoCmd,              \* stands for no command
          Readers,            \* commands whose answer is a number of four bytes
          MaxRequests,        \* bound: commands the user sends
          MaxSessions,        \* bound: presses of the start button
          MaxUnasked,         \* bound: packets the console sends unasked
          StartWaitsForJoiner \* TRUE: the user does not press start between the
                              \* end of a session and its joiner's last step

Requests == 1 .. MaxRequests
Sessions == 1 .. MaxSessions
Unasked == 0       \* the hello and the item notification answer no request
Garbage == -1      \* an answer read at the wrong place of the byte stream
NoHeader == -1
Rest == -2         \* the end of a packet whose beginning went to an earlier connection
Tasks == {"writer", "reader", "state_machine", "connection"}

ASSUME ClientAssumption ==
    /\ NoCmd \notin Cmds
    /\ MaxRequests \in Nat /\ MaxSessions \in Nat /\ MaxUnasked \in Nat
    /\ StartWaitsForJoiner \in BOOLEAN

VARIABLES
  gui,        \* the GUI thread: idle, or in the loop of stop
  thread,     \* HeartbeatController.thread, 0 for None
  loopOf,     \* HeartbeatController.loop, as the session it belongs to
  joining,    \* sessions a joiner thread waits for
  started,    \* how often a session was started; the newest is this one
  live,       \* sessions whose thread is alive
  stage,      \* how far the newest session is: before the loop, init_async, the tasks
  posted,     \* shutdown.set waits to be run by the event loop
  shutdown,   \* the shutdown event of the newest session
  running,    \* client.running
  tasks,      \* the tasks that have not ended
  failed,     \* a task ended with an exception
  sm,         \* state_machine: polling, waiting for an answer, timed out
  current,    \* the request send_command waits for
  conn,       \* connection_loop
  linked,     \* self.reader and self.writer are set
  header,     \* the frame whose header reader_loop holds
  garbled,    \* the next byte is not the first one of a header or of header's payload
  cmdQueue, sendQueue, \* cmd_queue, send_queue
  queued,     \* how many commands were queued; request n is the n-th
  cmdOf,      \* the command id of each request
  pending,    \* self.pending, 0 where there is no entry
  future,     \* the state of each request's future
  link,       \* the TCP connection as the client's socket sees it
  toServer, toClient, \* what is on its way
  unasked,    \* packets sent unasked so far
  held,       \* the answer the console's sender holds for a connection that has ended
  got,        \* history: whose answer each request was given, 0 for none
  givenOld,   \* history: the requests given an answer of an earlier session
  outcome,    \* history: what became of each request
  sentNow     \* history: the requests written to a connection of this session

guiVars == <<gui, thread, loopOf, joining, started>>
threadVars == <<live, stage, posted, shutdown>>
groupVars == <<tasks, failed>>
smVars == <<sm, current, outcome>>
readVars == <<header, garbled>>
queueVars == <<cmdQueue, queued, cmdOf>>
pendVars == <<pending, future, got, givenOld>>
wireVars == <<link, toServer, toClient, unasked, held, sentNow>>
clientVars == <<guiVars, threadVars, running, groupVars, smVars, conn, linked, readVars, queueVars,
          sendQueue, pendVars, wireVars>>

NoPending == [c \in Cmds |-> 0]

ClientInit ==
    /\ gui = "idle" /\ thread = 0 /\ loopOf = 0 /\ joining = {}
    /\ live = {} /\ stage = "none" /\ posted = FALSE /\ shutdown = "unset"
    /\ running = FALSE /\ tasks = {} /\ failed = FALSE
    /\ sm = "poll" /\ current = 0
    /\ conn = "connecting" /\ linked = FALSE
    /\ header = NoHeader /\ garbled = FALSE
    /\ cmdQueue = <<>> /\ sendQueue = <<>> /\ pending = NoPending
    /\ link = "down" /\ toServer = <<>> /\ toClient = <<>>
    /\ started = 0 /\ queued = 0 /\ unasked = 0
    /\ cmdOf = [r \in Requests |-> NoCmd] /\ future = [r \in Requests |-> "none"]
    /\ got = [r \in Requests |-> 0] /\ outcome = [r \in Requests |-> "none"]
    /\ held = NoHeader
    /\ sentNow = {} /\ givenOld = {}

\* A connection ends.  The console's sender may be left with one packet it took from the
\* ring for it, whole or its rest: the answer of a request that was on its way.  One nobody
\* asked for would be read and forgotten, and what is held in the last session goes nowhere.
SenderMayHold ==
    IF held = NoHeader /\ link # "down" /\ started < MaxSessions
    THEN held' \in {NoHeader, Rest} \cup {toServer[i] : i \in 1 .. Len(toServer)}
    ELSE UNCHANGED held
-----------------------------------------------------------------------------
(* The GUI thread and the controller.                                      *)

\* commandHandler: refused unless client.running.
QueueCommand ==
    /\ gui = "idle" /\ running /\ queued < MaxRequests
    /\ queued' = queued + 1
    /\ \E c \in Cmds : cmdOf' = [cmdOf EXCEPT ![queued + 1] = c]
    /\ cmdQueue' = Append(cmdQueue, queued + 1)
    /\ outcome' = [outcome EXCEPT ![queued + 1] = "queued"]
    /\ UNCHANGED <<guiVars, threadVars, running, groupVars, sm, current, conn, linked,
                   readVars, sendQueue, pendVars, wireVars>>

\* start: refused while the thread it knows is alive.
Start ==
    /\ gui = "idle" /\ thread \notin live /\ started < MaxSessions
    /\ StartWaitsForJoiner => joining = {}
    /\ started' = started + 1
    /\ thread' = started + 1
    /\ live' = live \cup {started + 1}
    /\ stage' = "starting" /\ posted' = FALSE
    /\ UNCHANGED <<gui, loopOf, joining, shutdown, running, groupVars, smVars, conn, linked,
                   readVars, queueVars, sendQueue, pendVars, wireVars>>

\* An exception in a callback ends the GUI, and restart_program the process: nothing
\* in its memory survives, and its connection is gone.
RestartProgram ==
    /\ gui' = "idle" /\ thread' = 0 /\ loopOf' = 0 /\ joining' = {}
    /\ live' = {} /\ stage' = "none" /\ posted' = FALSE /\ shutdown' = "unset"
    /\ running' = FALSE /\ tasks' = {} /\ failed' = FALSE
    /\ sm' = "poll" /\ current' = 0
    /\ conn' = "connecting" /\ linked' = FALSE
    /\ header' = NoHeader /\ garbled' = FALSE
    /\ cmdQueue' = <<>> /\ sendQueue' = <<>> /\ pending' = NoPending
    /\ link' = "down" /\ toServer' = <<>> /\ toClient' = <<>>
    /\ outcome' = [r \in Requests |-> CASE outcome[r] = "queued" -> "dropped"
                                        [] outcome[r] = "waiting" -> "cancelled"
                                        [] OTHER -> outcome[r]]
    /\ future' = [r \in Requests |-> IF future[r] = "open" THEN "cancelled" ELSE future[r]]
    /\ SenderMayHold
    /\ sentNow' = {}
    /\ UNCHANGED <<started, queued, cmdOf, got, givenOld, unasked>>

\* setup_packet raises on a parameter it cannot read, connected or not.
ParameterRaises == gui = "idle" /\ RestartProgram

\* stop: heartbeat_enabled is None before the first init_async, loop is None before
\* the thread has set it: both raise.
StopRaises ==
    /\ gui = "idle" /\ thread \in live
    /\ loopOf = 0 \/ (stage = "looped" /\ shutdown = "unset")
    /\ RestartProgram

\* Before init_async, shutdown is the event of an earlier session, and before BeginLoop so
\* may be the loop, which takes the call and never runs it.
\* Pressing stop again while the session shuts down changes nothing and is left out.
Stop ==
    /\ gui = "idle" /\ thread \in live
    /\ ~posted /\ (shutdown = "set" => stage \in {"starting", "looped"})
    /\ loopOf # 0 /\ ~(stage = "looped" /\ shutdown = "unset")
    /\ gui' = "draining"
    /\ running' = FALSE
    /\ posted' = (stage \in {"inited", "up"})
    /\ joining' = joining \cup {thread}
    /\ UNCHANGED <<thread, loopOf, started, live, stage, shutdown, groupVars, smVars, conn, linked,
                   readVars, queueVars, sendQueue, pendVars, wireVars>>

\* while not cmd_queue.empty(): cmd_queue.get_nowait(), beside state_machine's own.
DrainTest ==
    /\ gui = "draining"
    /\ gui' = IF cmdQueue = <<>> THEN "idle" ELSE "taking"
    /\ UNCHANGED <<thread, loopOf, joining, started, threadVars, running, groupVars, smVars, conn,
                   linked, readVars, queueVars, sendQueue, pendVars, wireVars>>

DrainTake ==
    /\ gui = "taking" /\ cmdQueue # <<>>
    /\ gui' = "draining"
    /\ cmdQueue' = Tail(cmdQueue)
    /\ outcome' = [outcome EXCEPT ![Head(cmdQueue)] = "dropped"]
    /\ UNCHANGED <<thread, loopOf, joining, started, threadVars, running, groupVars, sm, current,
                   conn, linked, readVars, queued, cmdOf, sendQueue, pendVars, wireVars>>

DrainRaises ==
    /\ gui = "taking" /\ cmdQueue = <<>>
    /\ RestartProgram

\* __join_thread: forgets whatever session the controller knows by then.
JoinerEnds ==
    /\ \E s \in joining \ live : joining' = joining \ {s}
    /\ thread' = 0 /\ loopOf' = 0
    /\ UNCHANGED <<gui, started, threadVars, running, groupVars, smVars, conn, linked, readVars,
                   queueVars, sendQueue, pendVars, wireVars>>
-----------------------------------------------------------------------------
(* The session's thread: event loop, init_async, the task group.           *)

BeginLoop ==
    /\ stage = "starting"
    /\ stage' = "looped" /\ loopOf' = started
    /\ UNCHANGED <<gui, thread, joining, started, live, posted, shutdown, running, groupVars,
                   smVars, conn, linked, readVars, queueVars, sendQueue, pendVars, wireVars>>

\* Mutant: the packets of the last session stay in send_queue.
init_asyncKeepsPackets ==
    /\ stage = "looped"
    /\ stage' = "inited"
    /\ shutdown' = "clear" /\ failed' = FALSE
    /\ sm' = "poll" /\ current' = 0
    /\ conn' = "connecting" /\ linked' = FALSE
    /\ header' = NoHeader /\ garbled' = FALSE
    /\ pending' = NoPending
    /\ link' = "down" /\ toServer' = <<>> /\ toClient' = <<>>
    /\ UNCHANGED <<guiVars, live, posted, running, tasks, outcome, queueVars, sendQueue,
                   future, got, givenOld, unasked, held, sentNow>>

init_async ==
    /\ stage = "looped"
    /\ stage' = "inited"
    /\ shutdown' = "clear" /\ failed' = FALSE
    /\ sm' = "poll" /\ current' = 0
    /\ conn' = "connecting" /\ linked' = FALSE
    /\ header' = NoHeader /\ garbled' = FALSE
    /\ sendQueue' = <<>> /\ pending' = NoPending
    /\ link' = "down" /\ toServer' = <<>> /\ toClient' = <<>>
    /\ UNCHANGED <<guiVars, live, posted, running, tasks, outcome, queueVars, future, got, givenOld,
                   unasked, held, sentNow>>

\* connection_loop says it is running before it looks at shutdown.
CreateTasks ==
    /\ stage = "inited"
    /\ stage' = "up" /\ running' = TRUE
    /\ tasks' = IF shutdown = "set" THEN Tasks \ {"connection"} ELSE Tasks
    /\ UNCHANGED <<guiVars, live, posted, shutdown, failed, smVars, conn, linked, readVars,
                   queueVars, sendQueue, pendVars, wireVars>>

RunPosted ==
    /\ posted /\ stage \in {"inited", "up"}
    /\ posted' = FALSE /\ shutdown' = "set"
    /\ UNCHANGED <<guiVars, live, stage, running, groupVars, smVars, conn, linked, readVars,
                   queueVars, sendQueue, pendVars, wireVars>>

\* Futures of the requests in pending that are not done are cancelled.
CancelPending ==
    /\ pending' = NoPending
    /\ future' = [r \in Requests |->
                    IF (\E c \in Cmds : pending[c] = r) /\ future[r] = "open"
                    THEN "cancelled" ELSE future[r]]

reset_connection_state ==
    /\ linked' = FALSE
    /\ sendQueue' = <<>>
    /\ CancelPending

\* The finally of connection_loop.  wait_closed raises the error that broke the
\* connection, and then neither the state is reset nor running cleared.
CloseRaises == linked /\ link = "reset"
CloseConnection ==
    IF CloseRaises
    THEN UNCHANGED <<linked, sendQueue, pending, future, running, link>>
    ELSE /\ reset_connection_state
         /\ running' = FALSE
         /\ link' = IF linked THEN "eof" ELSE link

\* An exception of one task cancels the others.
TaskGroupAborts ==
    /\ failed /\ tasks # {}
    /\ tasks' = {}
    /\ IF "connection" \in tasks
       THEN CloseConnection
       ELSE UNCHANGED <<linked, sendQueue, pending, future, running, link>>
    /\ outcome' = IF "state_machine" \in tasks /\ sm # "poll"
                  THEN [outcome EXCEPT ![current] = "cancelled"] ELSE outcome
    /\ UNCHANGED <<guiVars, threadVars, failed, sm, current, conn, readVars, queueVars, got,
                   givenOld, toServer, toClient, unasked, held, sentNow>>

ThreadEnds ==
    /\ stage = "up" /\ tasks = {}
    /\ stage' = "none" /\ live' = live \ {started}
    /\ shutdown' = IF failed THEN "set" ELSE shutdown
    /\ link' = "down" /\ toServer' = <<>> /\ toClient' = <<>>
    /\ header' = NoHeader /\ garbled' = FALSE
    /\ sm' = "poll" /\ current' = 0 /\ conn' = "connecting"
    /\ SenderMayHold /\ sentNow' = {}
    /\ UNCHANGED <<guiVars, posted, running, groupVars, outcome, linked, queueVars,
                   sendQueue, pendVars, unasked>>

TaskEnds(t) == tasks' = tasks \ {t} /\ UNCHANGED failed
TaskFails(t) == tasks' = tasks \ {t} /\ failed' = TRUE

\* Mutant: the loops wait for a connection before they look at shutdown.
SeesShutdownWhenLinked(t) ==
    /\ t \in tasks \ {"connection"} /\ shutdown = "set" /\ linked
    /\ t = "state_machine" => sm = "poll"
    /\ t = "reader" => header = NoHeader
    /\ TaskEnds(t)
    /\ UNCHANGED <<guiVars, threadVars, running, smVars, conn, linked, readVars, queueVars,
                   sendQueue, pendVars, wireVars>>

\* heartbeat_loop, writer_loop, reader_loop and state_machine look at shutdown
\* between two rounds.
SeesShutdown(t) ==
    /\ t \in tasks \ {"connection"} /\ shutdown = "set"
    /\ t = "state_machine" => sm = "poll"
    /\ t = "reader" => header = NoHeader
    /\ TaskEnds(t)
    /\ UNCHANGED <<guiVars, threadVars, running, smVars, conn, linked, readVars, queueVars,
                   sendQueue, pendVars, wireVars>>
-----------------------------------------------------------------------------
(* connection_loop.                                                        *)

Connected ==
    /\ "connection" \in tasks /\ conn = "connecting"
    /\ conn' = "connected" /\ linked' = TRUE /\ link' = "up"
    /\ toServer' = <<>> /\ toClient' = <<>>
    /\ UNCHANGED <<guiVars, threadVars, running, groupVars, smVars, readVars, queueVars, sendQueue,
                   pendVars, unasked, held, sentNow>>

ConnectionRefused ==
    /\ "connection" \in tasks /\ conn = "connecting"
    /\ conn' = "backoff"
    /\ UNCHANGED <<guiVars, threadVars, running, groupVars, smVars, linked, readVars, queueVars,
                   sendQueue, pendVars, wireVars>>

\* After the pause the finally runs, then the loop's condition.
Reconnect ==
    /\ "connection" \in tasks /\ conn = "backoff"
    /\ CloseConnection
    /\ IF shutdown = "set" THEN TaskEnds("connection") ELSE UNCHANGED groupVars
    /\ conn' = "connecting"
    /\ UNCHANGED <<guiVars, threadVars, smVars, readVars, queueVars, got, givenOld, toServer,
                   toClient, unasked, held, sentNow>>

Disconnect ==
    /\ "connection" \in tasks /\ conn = "connected" /\ shutdown = "set"
    /\ CloseConnection
    /\ IF CloseRaises THEN TaskFails("connection") ELSE TaskEnds("connection")
    /\ UNCHANGED <<guiVars, threadVars, smVars, conn, readVars, queueVars, got, givenOld, toServer,
                   toClient, unasked, held, sentNow>>

connection_loop == Connected \/ ConnectionRefused \/ Reconnect \/ Disconnect
-----------------------------------------------------------------------------
(* state_machine and send_command: one request at a time.                  *)

\* Mutant: the entry is filed under the packet's first byte, as state_machine reads it: a
\* category, and no command id.
send_commandByCategory ==
    /\ "state_machine" \in tasks /\ sm = "poll" /\ shutdown = "clear" /\ cmdQueue # <<>>
    /\ LET r == Head(cmdQueue) IN
         /\ current' = r
         /\ future' = [future EXCEPT ![r] = "open"]
         /\ pending' = [c \in Cmds \cup {NoCmd} |-> IF c = NoCmd THEN r ELSE pending[c]]
         /\ sendQueue' = Append(sendQueue, r)
         /\ outcome' = [outcome EXCEPT ![r] = "waiting"]
    /\ cmdQueue' = Tail(cmdQueue)
    /\ sm' = "wait"
    /\ UNCHANGED <<guiVars, threadVars, running, groupVars, conn, linked, readVars, queued, cmdOf,
                   got, givenOld, wireVars>>

send_command ==
    /\ "state_machine" \in tasks /\ sm = "poll" /\ shutdown = "clear" /\ cmdQueue # <<>>
    /\ LET r == Head(cmdQueue) IN
         /\ current' = r
         /\ future' = [future EXCEPT ![r] = "open"]
         /\ pending' = [pending EXCEPT ![cmdOf[r]] = r]
         /\ sendQueue' = Append(sendQueue, r)
         /\ outcome' = [outcome EXCEPT ![r] = "waiting"]
    /\ cmdQueue' = Tail(cmdQueue)
    /\ sm' = "wait"
    /\ UNCHANGED <<guiVars, threadVars, running, groupVars, conn, linked, readVars, queued, cmdOf,
                   got, givenOld, wireVars>>

Answered ==
    /\ "state_machine" \in tasks /\ sm = "wait" /\ future[current] = "done"
    /\ outcome' = [outcome EXCEPT ![current] = "answered"]
    /\ sm' = "poll"
    /\ UNCHANGED <<guiVars, threadVars, running, groupVars, current, conn, linked, readVars,
                   queueVars, sendQueue, pendVars, wireVars>>

\* Mutant: the wait for an answer has no timeout.
TimeoutNeverFires == FALSE /\ UNCHANGED clientVars

\* wait_for cancels the future, if it is not done, in one round of the event loop;
\* send_command removes the entry in a later one.
TimeoutFires ==
    /\ "state_machine" \in tasks /\ sm = "wait" /\ future[current] \in {"open", "done"}
    /\ future' = [future EXCEPT ![current] = IF @ = "open" THEN "cancelled" ELSE @]
    /\ sm' = "late"
    /\ UNCHANGED <<guiVars, threadVars, running, groupVars, current, outcome, conn, linked,
                   readVars, queueVars, sendQueue, pending, got, givenOld, wireVars>>

\* Mutant: the entry of a request that timed out stays in pending.
GiveUpKeepsEntry ==
    /\ "state_machine" \in tasks /\ sm = "late"
    /\ outcome' = [outcome EXCEPT ![current] = "timeout"]
    /\ sm' = "poll"
    /\ UNCHANGED <<guiVars, threadVars, running, groupVars, current, conn, linked, readVars,
                   queueVars, sendQueue, pendVars, wireVars>>

GiveUp ==
    /\ "state_machine" \in tasks /\ sm = "late"
    /\ pending' = [pending EXCEPT ![cmdOf[current]] = 0]
    /\ outcome' = [outcome EXCEPT ![current] = "timeout"]
    /\ sm' = "poll"
    /\ UNCHANGED <<guiVars, threadVars, running, groupVars, current, conn, linked, readVars,
                   queueVars, sendQueue, future, got, givenOld, wireVars>>

\* A future cancelled by reset_connection_state cancels the task; the group does
\* not mind.
AwaitCancelled ==
    /\ "state_machine" \in tasks /\ sm = "wait" /\ future[current] = "cancelled"
    /\ outcome' = [outcome EXCEPT ![current] = "cancelled"]
    /\ TaskEnds("state_machine")
    /\ UNCHANGED <<guiVars, threadVars, running, sm, current, conn, linked, readVars,
                   queueVars, sendQueue, pendVars, wireVars>>

state_machine == send_command \/ Answered \/ TimeoutFires \/ GiveUp \/ AwaitCancelled
-----------------------------------------------------------------------------
(* writer_loop and reader_loop.                                            *)

\* Mutant: a packet may stay in send_queue after it was written.
writer_loopAgain ==
    /\ "writer" \in tasks /\ linked /\ sendQueue # <<>>
    /\ sendQueue' \in {sendQueue, Tail(sendQueue)}
    /\ IF link = "reset" THEN TaskFails("writer") ELSE UNCHANGED groupVars
    /\ toServer' = IF link = "up" /\ Len(toServer) < 2 THEN Append(toServer, Head(sendQueue))
                   ELSE toServer
    /\ sentNow' = sentNow \cup {Head(sendQueue)}
    /\ UNCHANGED <<guiVars, threadVars, running, smVars, conn, linked, readVars, queueVars,
                   pendVars, link, toClient, unasked, held>>

writer_loop ==
    /\ "writer" \in tasks /\ linked /\ sendQueue # <<>>
    /\ sendQueue' = Tail(sendQueue)
    /\ IF link = "reset" THEN TaskFails("writer") ELSE UNCHANGED groupVars
    /\ toServer' = IF link = "up" THEN Append(toServer, Head(sendQueue)) ELSE toServer
    /\ sentNow' = sentNow \cup {Head(sendQueue)}
    /\ UNCHANGED <<guiVars, threadVars, running, smVars, conn, linked, readVars, queueVars,
                   pendVars, link, toClient, unasked, held>>

ReadHeader ==
    /\ "reader" \in tasks /\ header = NoHeader /\ ~garbled
    /\ toClient # <<>> /\ Head(toClient).part = "header"
    /\ header' = Head(toClient).req
    /\ toClient' = Tail(toClient)
    /\ UNCHANGED <<guiVars, threadVars, running, groupVars, smVars, conn, linked, garbled,
                   queueVars, sendQueue, pendVars, link, toServer, unasked, held, sentNow>>

\* pending.pop(cmdID) and set_result, which raises if the future was cancelled; then a
\* number is unpacked, which raises if the payload has another length.
Deliver(c, answer) ==
    LET r == pending[c] IN
    /\ pending' = [pending EXCEPT ![c] = 0]
    /\ IF r # 0 /\ future[r] = "open"
       THEN /\ future' = [future EXCEPT ![r] = "done"]
            /\ got' = [got EXCEPT ![r] = answer]
            /\ givenOld' = IF answer = Garbage \/ answer \in sentNow THEN givenOld
                           ELSE givenOld \cup {r}
       ELSE UNCHANGED <<future, got, givenOld>>
    /\ \/ /\ r # 0 /\ (future[r] = "cancelled" \/ (answer = Garbage /\ c \in Readers))
          /\ TaskFails("reader")
       \/ /\ r # 0 => future[r] # "cancelled"
          /\ UNCHANGED groupVars

\* A packet nobody asked for has a command id of its own.
ReadPayload ==
    /\ "reader" \in tasks /\ header # NoHeader /\ toClient # <<>>
    /\ header' = NoHeader
    /\ toClient' = Tail(toClient)
    /\ IF header = Unasked THEN UNCHANGED <<pendVars, groupVars>>
                           ELSE Deliver(cmdOf[header], header)
    /\ UNCHANGED <<guiVars, threadVars, running, smVars, conn, linked, garbled, queueVars,
                   sendQueue, link, toServer, unasked, held, sentNow>>

\* The payload did not come in time: its header is lost.
PayloadTimeout ==
    /\ "reader" \in tasks /\ header # NoHeader
    /\ header' = NoHeader /\ garbled' = TRUE
    /\ UNCHANGED <<guiVars, threadVars, running, groupVars, smVars, conn, linked, queueVars,
                   sendQueue, pendVars, wireVars>>

\* Four bytes from the middle of a frame are taken for a header: their length may be
\* below four, or swallow any part of the stream, and their id may be one that is
\* waited for.
ReadGarbage ==
    /\ "reader" \in tasks /\ garbled /\ toClient # <<>>
    /\ \/ /\ TaskFails("reader")
          /\ UNCHANGED <<readVars, pendVars, toClient>>
       \/ \E k \in 1 .. Len(toClient) :
            /\ toClient' = SubSeq(toClient, k + 1, Len(toClient))
            /\ \/ garbled' = TRUE
               \/ garbled' = (toClient' # <<>> /\ Head(toClient').part = "payload")
            /\ \/ \E c \in Cmds : Deliver(c, Garbage)
               \/ UNCHANGED <<pendVars, groupVars>>
            /\ UNCHANGED header
    /\ UNCHANGED <<guiVars, threadVars, running, smVars, conn, linked, queueVars, sendQueue, link,
                   toServer, unasked, held, sentNow>>

\* End of stream or a broken connection: the handler awaits the result of stop,
\* which is None, and that ends the task with a TypeError.
ReaderBreaks ==
    /\ "reader" \in tasks
    /\ link = "reset" \/ (link = "eof" /\ toClient = <<>>)
    /\ TaskFails("reader")
    /\ UNCHANGED <<guiVars, threadVars, running, smVars, conn, linked, readVars, queueVars,
                   sendQueue, pendVars, wireVars>>

reader_loop == ReadHeader \/ ReadPayload \/ PayloadTimeout \/ ReadGarbage \/ ReaderBreaks
-----------------------------------------------------------------------------
(* The console and the network.                                            *)

Frame(r) == <<[part |-> "header", req |-> r], [part |-> "payload", req |-> r]>>

\* What the sender holds goes out first, to whatever connection there is by then, or is
\* given up.  The client takes the rest of a packet for what ReadGarbage reads.
ServerSendsHeld ==
    /\ link = "up" /\ held # NoHeader
    /\ held' = NoHeader
    /\ \/ UNCHANGED <<toClient, garbled>>
       \/ held # Rest /\ toClient' = toClient \o Frame(held) /\ UNCHANGED garbled
       \/ held = Rest /\ toClient' = Append(toClient, Frame(Unasked)[2]) /\ garbled' = TRUE
    /\ UNCHANGED <<guiVars, threadVars, running, groupVars, smVars, conn, linked, header,
                   queueVars, sendQueue, pendVars, link, toServer, unasked, sentNow>>

\* The response of a command is lost when the console's ring is full.
ServerAnswers ==
    /\ link = "up" /\ held = NoHeader /\ toServer # <<>>
    /\ toServer' = Tail(toServer)
    /\ toClient' \in {toClient, toClient \o Frame(Head(toServer))}
    /\ UNCHANGED <<guiVars, threadVars, running, groupVars, smVars, conn, linked, readVars,
                   queueVars, sendQueue, pendVars, link, unasked, held, sentNow>>

ServerSendsUnasked ==
    /\ link = "up" /\ held = NoHeader /\ unasked < MaxUnasked
    /\ unasked' = unasked + 1
    /\ toClient' = toClient \o Frame(Unasked)
    /\ UNCHANGED <<guiVars, threadVars, running, groupVars, smVars, conn, linked, readVars,
                   queueVars, sendQueue, pendVars, link, toServer, held, sentNow>>

\* The server closes, perhaps in the middle of an answer, or the connection breaks.
ServerCloses ==
    /\ link = "up"
    /\ \/ link' = "eof" /\ UNCHANGED toClient /\ SenderMayHold
       \/ /\ link' = "eof" /\ held = NoHeader /\ toServer # <<>>
          /\ toClient' = Append(toClient, Frame(Head(toServer))[1])
          /\ held' \in {NoHeader, Rest}
       \/ link' = "reset" /\ toClient' = <<>> /\ SenderMayHold
    /\ toServer' = <<>>
    /\ UNCHANGED <<guiVars, threadVars, running, groupVars, smVars, conn, linked, readVars,
                   queueVars, sendQueue, pendVars, unasked, sentNow>>
-----------------------------------------------------------------------------
User == QueueCommand \/ ParameterRaises \/ Start \/ Stop \/ StopRaises
Drain == DrainTest \/ DrainTake \/ DrainRaises
Thread == BeginLoop \/ init_async \/ CreateTasks \/ RunPosted \/ TaskGroupAborts \/ ThreadEnds
Console == ServerSendsHeld \/ ServerAnswers \/ ServerSendsUnasked \/ ServerCloses

ClientNext ==
    \/ User
    \/ Drain
    \/ JoinerEnds
    \/ Thread
    \/ \E t \in Tasks : SeesShutdown(t)
    \/ connection_loop
    \/ state_machine
    \/ writer_loop
    \/ reader_loop
    \/ Console

ClientSpec == ClientInit /\ [][ClientNext]_clientVars

\* The GUI finishes its callbacks, the joiner and the event loop run, and every
\* task that can go on does: its waits are bounded by timeouts.
ClientFairness ==
    /\ WF_clientVars(Drain) /\ WF_clientVars(JoinerEnds) /\ WF_clientVars(Thread)
    /\ \A t \in Tasks : WF_clientVars(SeesShutdown(t))
    /\ WF_clientVars(connection_loop) /\ WF_clientVars(state_machine)
    /\ WF_clientVars(writer_loop) /\ WF_clientVars(reader_loop)

ClientFairSpec == ClientSpec /\ ClientFairness
-----------------------------------------------------------------------------
(* Properties.                                                             *)

\* Types, with the bounds of the counters; a request is answered by a request or by garbage.
ClientTypeOK ==
    /\ gui \in {"idle", "draining", "taking"}
    /\ thread \in 0 .. MaxSessions /\ loopOf \in 0 .. MaxSessions /\ started \in 0 .. MaxSessions
    /\ joining \subseteq Sessions /\ live \subseteq Sessions
    /\ stage \in {"none", "starting", "looped", "inited", "up"}
    /\ posted \in BOOLEAN /\ running \in BOOLEAN /\ shutdown \in {"unset", "clear", "set"}
    /\ tasks \subseteq Tasks /\ failed \in BOOLEAN
    /\ sm \in {"poll", "wait", "late"} /\ current \in 0 .. MaxRequests
    /\ conn \in {"connecting", "connected", "backoff"} /\ linked \in BOOLEAN
    /\ header \in {NoHeader, Unasked} \cup Requests /\ garbled \in BOOLEAN
    /\ cmdQueue \in Seq(Requests) /\ sendQueue \in Seq(Requests)
    /\ queued \in 0 .. MaxRequests /\ cmdOf \in [Requests -> Cmds \cup {NoCmd}]
    /\ pending \in [Cmds -> 0 .. MaxRequests]
    /\ future \in [Requests -> {"none", "open", "done", "cancelled"}]
    /\ link \in {"down", "up", "eof", "reset"}
    /\ toServer \in Seq(Requests)
    /\ toClient \in Seq([part : {"header", "payload"}, req : {Unasked} \cup Requests])
    /\ unasked \in 0 .. MaxUnasked /\ held \in {NoHeader, Rest} \cup Requests
    /\ got \in [Requests -> {Garbage, 0} \cup Requests]
    /\ outcome \in [Requests -> {"none", "queued", "dropped", "waiting", "answered", "timeout",
                                 "cancelled"}]
    /\ sentNow \subseteq Requests /\ givenOld \subseteq Requests

\* While command processing runs, the only entry of pending is the request it waits
\* for: a reset, a timeout or an answer leaves nothing behind.
PendingIsCurrent ==
    "state_machine" \in tasks =>
        \A c \in Cmds : pending[c] # 0 =>
            /\ pending[c] = current /\ cmdOf[current] = c
            /\ sm \in {"wait", "late"}

\* Why answers may be one behind from request q on: it timed out, was given garbage, or was
\* cancelled with its session.
FallsBehind(q) == outcome[q] \in {"timeout", "cancelled"} \/ got[q] = Garbage

\* The answer a request is given is its own, or one of an earlier request of the same
\* command, after such a request timed out, was given garbage or was cancelled.  That of a
\* request that was cancelled comes from a connection of an earlier session: the console's
\* sender still held it when that connection ended.
AnswerIsOwnOrLate ==
    \A r \in Requests : got[r] > 0 /\ got[r] # r =>
        /\ got[r] < r
        /\ cmdOf[got[r]] = cmdOf[r]
        /\ outcome[got[r]] \in {"timeout", "answered", "cancelled"}
        /\ outcome[got[r]] = "cancelled" => r \in givenOld
        /\ \E q \in 1 .. got[r] : cmdOf[q] = cmdOf[r] /\ FallsBehind(q)

\* No answer is given to two requests, and answers are given in the order of the
\* requests they belong to.
AnswersKeepOrder ==
    \A r, q \in Requests : r < q /\ got[r] > 0 /\ got[q] > 0 => got[r] < got[q]

\* Once the event loop has been told to shut down, the session's thread ends.
StopEndsSession == posted ~> live = {}

\* A request that was taken from the queue is answered, times out or is cancelled.
RequestResolved ==
    \A r \in Requests : outcome[r] = "waiting" ~> outcome[r] # "waiting"
=============================================================================
