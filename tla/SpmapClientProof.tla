--------------------------- MODULE SpmapClientProof ---------------------------
(***************************************************************************)
(* Theorems about the PC client, for any commands, any number of requests, *)
(* of sessions and of packets the console sends unasked.                   *)
(***************************************************************************)
EXTENDS SpmapClient, SequenceTheorems, TLAPS

(* Types, in parts: the session and its thread, the tasks, the queues and  *)
(* the stream of answers, which hold requests that were made, the requests.*)

Made == 1 .. queued
Parts == [part : {"header", "payload"}, req : {Unasked} \cup Made]

SessionTypeOK ==
    /\ gui \in {"idle", "draining", "taking"}
    /\ thread \in 0 .. MaxSessions /\ loopOf \in 0 .. MaxSessions /\ started \in 0 .. MaxSessions
    /\ joining \subseteq Sessions /\ live \subseteq Sessions
    /\ stage \in {"none", "starting", "looped", "inited", "up"}
    /\ posted \in BOOLEAN /\ running \in BOOLEAN /\ shutdown \in {"unset", "clear", "set"}
    /\ tasks \subseteq Tasks /\ failed \in BOOLEAN

TaskTypeOK ==
    /\ sm \in {"poll", "wait", "late"} /\ current \in 0 .. MaxRequests
    /\ conn \in {"connecting", "connected", "backoff"} /\ linked \in BOOLEAN
    /\ link \in {"down", "up", "eof", "reset"}
    /\ queued \in 0 .. MaxRequests /\ unasked \in 0 .. MaxUnasked
    /\ garbled \in BOOLEAN

QueueInv ==
    /\ cmdQueue \in Seq(Made) /\ sendQueue \in Seq(Made) /\ toServer \in Seq(Made)

StreamInv ==
    /\ header \in {NoHeader, Unasked} \cup Made /\ toClient \in Seq(Parts)

RequestTypeOK ==
    /\ cmdOf \in [Requests -> Cmds \cup {NoCmd}] /\ pending \in [Cmds -> 0 .. MaxRequests]
    /\ future \in [Requests -> {"none", "open", "done", "cancelled"}]
    /\ got \in [Requests -> {Garbage, 0} \cup Requests]
    /\ outcome \in [Requests -> {"none", "queued", "dropped", "waiting", "answered", "timeout",
                                 "cancelled"}]

HeldTypeOK == held \in {NoHeader, Rest} \cup Made
HistoryTypeOK == sentNow \subseteq Requests /\ givenOld \subseteq Requests

MadeInv ==
    /\ \A r \in Made : cmdOf[r] \in Cmds
    /\ current \in 0 .. queued

PartsInv == SessionTypeOK /\ TaskTypeOK /\ QueueInv /\ StreamInv /\ RequestTypeOK /\ MadeInv
              /\ HeldTypeOK /\ HistoryTypeOK

LEMMA PartsGiveType == PartsInv => ClientTypeOK
<1> SUFFICES ASSUME PartsInv PROVE ClientTypeOK
  OBVIOUS
<1> USE ClientAssumption
<1>1. Made \subseteq Requests
  BY DEF PartsInv, TaskTypeOK, Made, Requests
<1>2. cmdQueue \in Seq(Requests) /\ sendQueue \in Seq(Requests) /\ toServer \in Seq(Requests)
  BY <1>1, SeqMonotonic DEF PartsInv, QueueInv
<1>3. Parts \subseteq [part : {"header", "payload"}, req : {Unasked} \cup Requests]
  BY <1>1 DEF Parts
<1>4. toClient \in Seq([part : {"header", "payload"}, req : {Unasked} \cup Requests])
  BY <1>3, SeqMonotonic DEF PartsInv, StreamInv
<1>5. header \in {NoHeader, Unasked} \cup Requests
  BY <1>1 DEF PartsInv, StreamInv
<1>6. held \in {NoHeader, Rest} \cup Requests
  BY <1>1 DEF PartsInv, HeldTypeOK
<1> QED BY <1>2, <1>4, <1>5, <1>6 DEF PartsInv, ClientTypeOK, SessionTypeOK, TaskTypeOK,
   RequestTypeOK, HistoryTypeOK

\* A packet is a header and a payload.
LEMMA FrameIsParts ==
    ASSUME NEW r \in {Unasked} \cup Made
    PROVE  Frame(r) \in Seq(Parts) /\ Frame(r)[1] \in Parts
BY DEF Frame, Parts

\* connection_loop's finally leaves the queue as it is or empties it, and the same goes
\* for the entries of pending.
LEMMA CloseConnectionResets ==
    ASSUME CloseConnection
    PROVE  /\ sendQueue' \in {sendQueue, <<>>}
           /\ pending' \in {pending, NoPending}
           /\ \/ future' = future
              \/ future' = [r \in Requests |->
                              IF (\E c \in Cmds : pending[c] = r) /\ future[r] = "open"
                              THEN "cancelled" ELSE future[r]]
BY DEF CloseConnection, reset_connection_state, CancelPending

LEMMA DeliverTypes ==
    ASSUME RequestTypeOK, NEW c, NEW answer \in {Garbage} \cup Requests, Deliver(c, answer)
    PROVE  /\ pending' \in [Cmds -> 0 .. MaxRequests]
           /\ future' \in [Requests -> {"none", "open", "done", "cancelled"}]
           /\ got' \in [Requests -> {Garbage, 0} \cup Requests]
<1>1. pending' = [pending EXCEPT ![c] = 0] /\ 0 \in 0 .. MaxRequests
  BY ClientAssumption DEF Deliver
<1>2. pending' \in [Cmds -> 0 .. MaxRequests]
  BY <1>1 DEF RequestTypeOK
<1>3. future' = future \/ future' = [future EXCEPT ![pending[c]] = "done"]
  BY DEF Deliver
<1>4. got' = got \/ got' = [got EXCEPT ![pending[c]] = answer]
  BY DEF Deliver
<1> QED BY <1>2, <1>3, <1>4 DEF RequestTypeOK

LEMMA SessionTypeStep ==
    ASSUME SessionTypeOK, ClientNext
    PROVE  SessionTypeOK'
<1> USE ClientAssumption DEF SessionTypeOK, guiVars, threadVars, groupVars, smVars,
   readVars, queueVars, pendVars, wireVars, Sessions, Tasks
<1>1. CASE RestartProgram
  <2>1. (gui \in {"idle", "draining", "taking"})'
    BY <1>1 DEF RestartProgram, NoPending
  <2>2. (thread \in 0 .. MaxSessions)'
    BY <1>1 DEF RestartProgram, NoPending
  <2>3. (loopOf \in 0 .. MaxSessions)'
    BY <1>1 DEF RestartProgram, NoPending
  <2>4. (started \in 0 .. MaxSessions)'
    BY <1>1 DEF RestartProgram, NoPending
  <2>5. (joining \subseteq Sessions)'
    BY <1>1 DEF RestartProgram, NoPending
  <2>6. (live \subseteq Sessions)'
    BY <1>1 DEF RestartProgram, NoPending
  <2>7. (stage \in {"none", "starting", "looped", "inited", "up"})'
    BY <1>1 DEF RestartProgram, NoPending
  <2>8. (posted \in BOOLEAN)'
    BY <1>1 DEF RestartProgram, NoPending
  <2>9. (running \in BOOLEAN)'
    BY <1>1 DEF RestartProgram, NoPending
  <2>10. (shutdown \in {"unset", "clear", "set"})'
    BY <1>1 DEF RestartProgram, NoPending
  <2>11. (tasks \subseteq Tasks)'
    BY <1>1 DEF RestartProgram, NoPending
  <2>12. (failed \in BOOLEAN)'
    BY <1>1 DEF RestartProgram, NoPending
  <2> QED BY <2>1, <2>2, <2>3, <2>4, <2>5, <2>6, <2>7, <2>8, <2>9, <2>10, <2>11, <2>12
<1>2. CASE QueueCommand
  BY <1>2 DEF QueueCommand
<1>3. CASE Start
  <2>1. (gui \in {"idle", "draining", "taking"})'
    BY <1>3 DEF Start
  <2>2. (thread \in 0 .. MaxSessions)'
    BY <1>3 DEF Start
  <2>3. (loopOf \in 0 .. MaxSessions)'
    BY <1>3 DEF Start
  <2>4. (started \in 0 .. MaxSessions)'
    BY <1>3 DEF Start
  <2>5. (joining \subseteq Sessions)'
    BY <1>3 DEF Start
  <2>6. (live \subseteq Sessions)'
    BY <1>3 DEF Start
  <2>7. (stage \in {"none", "starting", "looped", "inited", "up"})'
    BY <1>3 DEF Start
  <2>8. (posted \in BOOLEAN)'
    BY <1>3 DEF Start
  <2>9. (running \in BOOLEAN)'
    BY <1>3 DEF Start
  <2>10. (shutdown \in {"unset", "clear", "set"})'
    BY <1>3 DEF Start
  <2>11. (tasks \subseteq Tasks)'
    BY <1>3 DEF Start
  <2>12. (failed \in BOOLEAN)'
    BY <1>3 DEF Start
  <2> QED BY <2>1, <2>2, <2>3, <2>4, <2>5, <2>6, <2>7, <2>8, <2>9, <2>10, <2>11, <2>12
<1>4. CASE Stop
  <2>1. (gui \in {"idle", "draining", "taking"})'
    BY <1>4 DEF Stop
  <2>2. (thread \in 0 .. MaxSessions)'
    BY <1>4 DEF Stop
  <2>3. (loopOf \in 0 .. MaxSessions)'
    BY <1>4 DEF Stop
  <2>4. (started \in 0 .. MaxSessions)'
    BY <1>4 DEF Stop
  <2>5. (joining \subseteq Sessions)'
    BY <1>4 DEF Stop
  <2>6. (live \subseteq Sessions)'
    BY <1>4 DEF Stop
  <2>7. (stage \in {"none", "starting", "looped", "inited", "up"})'
    BY <1>4 DEF Stop
  <2>8. (posted \in BOOLEAN)'
    BY <1>4 DEF Stop
  <2>9. (running \in BOOLEAN)'
    BY <1>4 DEF Stop
  <2>10. (shutdown \in {"unset", "clear", "set"})'
    BY <1>4 DEF Stop
  <2>11. (tasks \subseteq Tasks)'
    BY <1>4 DEF Stop
  <2>12. (failed \in BOOLEAN)'
    BY <1>4 DEF Stop
  <2> QED BY <2>1, <2>2, <2>3, <2>4, <2>5, <2>6, <2>7, <2>8, <2>9, <2>10, <2>11, <2>12
<1>5. CASE DrainTest
  BY <1>5 DEF DrainTest
<1>6. CASE DrainTake
  BY <1>6 DEF DrainTake
<1>7. CASE JoinerEnds
  BY <1>7 DEF JoinerEnds
<1>8. CASE BeginLoop
  BY <1>8 DEF BeginLoop
<1>9. CASE init_async
  BY <1>9 DEF init_async, NoPending
<1>10. CASE CreateTasks
  BY <1>10 DEF CreateTasks
<1>11. CASE RunPosted
  BY <1>11 DEF RunPosted
<1>12. CASE TaskGroupAborts
  BY <1>12 DEF TaskGroupAborts, CloseConnection, reset_connection_state, CancelPending,
     NoPending
<1>13. CASE ThreadEnds
  BY <1>13 DEF ThreadEnds
<1>14. ASSUME NEW t \in Tasks, SeesShutdown(t) PROVE SessionTypeOK'
  BY <1>14 DEF SeesShutdown, TaskEnds
<1>15. CASE Connected
  BY <1>15 DEF Connected
<1>16. CASE ConnectionRefused
  BY <1>16 DEF ConnectionRefused
<1>17. CASE Reconnect
  BY <1>17 DEF Reconnect, CloseConnection, reset_connection_state, CancelPending,
     NoPending, TaskEnds
<1>18. CASE Disconnect
  BY <1>18 DEF Disconnect, CloseConnection, reset_connection_state, CancelPending,
     NoPending, TaskEnds, TaskFails
<1>19. CASE send_command
  BY <1>19 DEF send_command
<1>20. CASE Answered
  BY <1>20 DEF Answered
<1>21. CASE TimeoutFires
  BY <1>21 DEF TimeoutFires
<1>22. CASE GiveUp
  BY <1>22 DEF GiveUp
<1>23. CASE AwaitCancelled
  BY <1>23 DEF AwaitCancelled, TaskEnds
<1>24. CASE writer_loop
  BY <1>24 DEF writer_loop, TaskFails
<1>25. CASE ReadHeader
  BY <1>25 DEF ReadHeader
<1>26. CASE ReadPayload
  BY <1>26 DEF ReadPayload, Deliver, TaskFails
<1>27. CASE PayloadTimeout
  BY <1>27 DEF PayloadTimeout
<1>28. CASE ReadGarbage
  BY <1>28 DEF ReadGarbage, Deliver, TaskFails, Garbage
<1>29. CASE ReaderBreaks
  BY <1>29 DEF ReaderBreaks, TaskFails
<1>30. CASE ServerAnswers
  BY <1>30 DEF ServerAnswers, Frame
<1>31. CASE ServerSendsUnasked
  BY <1>31 DEF ServerSendsUnasked, Frame
<1>32. CASE ServerCloses
  BY <1>32 DEF ServerCloses, Frame
<1>33. CASE ServerSendsHeld
  BY <1>33 DEF ServerSendsHeld
<1> QED BY <1>1, <1>2, <1>3, <1>4, <1>5, <1>6, <1>7, <1>8, <1>9, <1>10, <1>11, <1>12, <1>13,
   <1>14, <1>15, <1>16, <1>17, <1>18, <1>19, <1>20, <1>21, <1>22, <1>23, <1>24, <1>25,
   <1>26, <1>27, <1>28, <1>29, <1>30, <1>31, <1>32, <1>33
   DEF ClientNext, User, ParameterRaises, StopRaises, Drain, DrainRaises, Thread,
       connection_loop, state_machine, reader_loop, Console

LEMMA TaskTypeStep ==
    ASSUME TaskTypeOK, QueueInv, ClientNext
    PROVE  TaskTypeOK'
<1> USE ClientAssumption DEF TaskTypeOK, QueueInv, guiVars, threadVars, groupVars, smVars,
   readVars, queueVars, pendVars, wireVars, Made
<1>1. CASE RestartProgram
  <2>1. (sm \in {"poll", "wait", "late"})'
    BY <1>1 DEF RestartProgram, NoPending
  <2>2. (current \in 0 .. MaxRequests)'
    BY <1>1 DEF RestartProgram, NoPending
  <2>3. (conn \in {"connecting", "connected", "backoff"})'
    BY <1>1 DEF RestartProgram, NoPending
  <2>4. (linked \in BOOLEAN)'
    BY <1>1 DEF RestartProgram, NoPending
  <2>5. (link \in {"down", "up", "eof", "reset"})'
    BY <1>1 DEF RestartProgram, NoPending
  <2>6. (queued \in 0 .. MaxRequests)'
    BY <1>1 DEF RestartProgram, NoPending
  <2>7. (unasked \in 0 .. MaxUnasked)'
    BY <1>1 DEF RestartProgram, NoPending
  <2>8. (garbled \in BOOLEAN)'
    BY <1>1 DEF RestartProgram, NoPending
  <2> QED BY <2>1, <2>2, <2>3, <2>4, <2>5, <2>6, <2>7, <2>8
<1>2. CASE QueueCommand
  BY <1>2 DEF QueueCommand
<1>3. CASE Start
  BY <1>3 DEF Start
<1>4. CASE Stop
  BY <1>4 DEF Stop
<1>5. CASE DrainTest
  BY <1>5 DEF DrainTest
<1>6. CASE DrainTake
  BY <1>6 DEF DrainTake
<1>7. CASE JoinerEnds
  BY <1>7 DEF JoinerEnds
<1>8. CASE BeginLoop
  BY <1>8 DEF BeginLoop
<1>9. CASE init_async
  <2>1. (sm \in {"poll", "wait", "late"})'
    BY <1>9 DEF init_async, NoPending
  <2>2. (current \in 0 .. MaxRequests)'
    BY <1>9 DEF init_async, NoPending
  <2>3. (conn \in {"connecting", "connected", "backoff"})'
    BY <1>9 DEF init_async, NoPending
  <2>4. (linked \in BOOLEAN)'
    BY <1>9 DEF init_async, NoPending
  <2>5. (link \in {"down", "up", "eof", "reset"})'
    BY <1>9 DEF init_async, NoPending
  <2>6. (queued \in 0 .. MaxRequests)'
    BY <1>9 DEF init_async, NoPending
  <2>7. (unasked \in 0 .. MaxUnasked)'
    BY <1>9 DEF init_async, NoPending
  <2>8. (garbled \in BOOLEAN)'
    BY <1>9 DEF init_async, NoPending
  <2> QED BY <2>1, <2>2, <2>3, <2>4, <2>5, <2>6, <2>7, <2>8
<1>10. CASE CreateTasks
  BY <1>10 DEF CreateTasks
<1>11. CASE RunPosted
  BY <1>11 DEF RunPosted
<1>12. CASE TaskGroupAborts
  BY <1>12 DEF TaskGroupAborts, CloseConnection, reset_connection_state, CancelPending,
     NoPending
<1>13. CASE ThreadEnds
  <2>1. (sm \in {"poll", "wait", "late"})'
    BY <1>13 DEF ThreadEnds
  <2>2. (current \in 0 .. MaxRequests)'
    BY <1>13 DEF ThreadEnds
  <2>3. (conn \in {"connecting", "connected", "backoff"})'
    BY <1>13 DEF ThreadEnds
  <2>4. (linked \in BOOLEAN)'
    BY <1>13 DEF ThreadEnds
  <2>5. (link \in {"down", "up", "eof", "reset"})'
    BY <1>13 DEF ThreadEnds
  <2>6. (queued \in 0 .. MaxRequests)'
    BY <1>13 DEF ThreadEnds
  <2>7. (unasked \in 0 .. MaxUnasked)'
    BY <1>13 DEF ThreadEnds
  <2>8. (garbled \in BOOLEAN)'
    BY <1>13 DEF ThreadEnds
  <2> QED BY <2>1, <2>2, <2>3, <2>4, <2>5, <2>6, <2>7, <2>8
<1>14. ASSUME NEW t \in Tasks, SeesShutdown(t) PROVE TaskTypeOK'
  BY <1>14 DEF SeesShutdown, TaskEnds
<1>15. CASE Connected
  BY <1>15 DEF Connected
<1>16. CASE ConnectionRefused
  BY <1>16 DEF ConnectionRefused
<1>17. CASE Reconnect
  BY <1>17 DEF Reconnect, CloseConnection, reset_connection_state, CancelPending,
     NoPending, TaskEnds
<1>18. CASE Disconnect
  BY <1>18 DEF Disconnect, CloseConnection, reset_connection_state, CancelPending,
     NoPending, TaskEnds, TaskFails
<1>19. CASE send_command
  BY <1>19 DEF send_command
<1>20. CASE Answered
  BY <1>20 DEF Answered
<1>21. CASE TimeoutFires
  BY <1>21 DEF TimeoutFires
<1>22. CASE GiveUp
  BY <1>22 DEF GiveUp
<1>23. CASE AwaitCancelled
  BY <1>23 DEF AwaitCancelled, TaskEnds
<1>24. CASE writer_loop
  BY <1>24 DEF writer_loop, TaskFails
<1>25. CASE ReadHeader
  BY <1>25 DEF ReadHeader
<1>26. CASE ReadPayload
  BY <1>26 DEF ReadPayload, Deliver, TaskFails
<1>27. CASE PayloadTimeout
  BY <1>27 DEF PayloadTimeout
<1>28. CASE ReadGarbage
  BY <1>28 DEF ReadGarbage, Deliver, TaskFails, Garbage
<1>29. CASE ReaderBreaks
  BY <1>29 DEF ReaderBreaks, TaskFails
<1>30. CASE ServerAnswers
  BY <1>30 DEF ServerAnswers, Frame
<1>31. CASE ServerSendsUnasked
  BY <1>31 DEF ServerSendsUnasked, Frame
<1>32. CASE ServerCloses
  BY <1>32 DEF ServerCloses, Frame
<1>33. CASE ServerSendsHeld
  BY <1>33 DEF ServerSendsHeld
<1> QED BY <1>1, <1>2, <1>3, <1>4, <1>5, <1>6, <1>7, <1>8, <1>9, <1>10, <1>11, <1>12, <1>13,
   <1>14, <1>15, <1>16, <1>17, <1>18, <1>19, <1>20, <1>21, <1>22, <1>23, <1>24, <1>25,
   <1>26, <1>27, <1>28, <1>29, <1>30, <1>31, <1>32, <1>33
   DEF ClientNext, User, ParameterRaises, StopRaises, Drain, DrainRaises, Thread,
       connection_loop, state_machine, reader_loop, Console

LEMMA QueueStep ==
    ASSUME QueueInv, TaskTypeOK, ClientNext
    PROVE  QueueInv'
<1> USE ClientAssumption DEF QueueInv, TaskTypeOK, guiVars, threadVars, groupVars, smVars,
   readVars, queueVars, pendVars, wireVars, Made
<1>1. CASE RestartProgram
  BY <1>1 DEF RestartProgram, NoPending
<1>2. CASE QueueCommand
  <2>1. /\ queued' = queued + 1 /\ cmdQueue' = Append(cmdQueue, queued + 1)
        /\ UNCHANGED <<sendQueue, toServer>>
    BY <1>2 DEF QueueCommand
  <2>2. Made \subseteq Made' /\ queued + 1 \in Made'
    BY <2>1
  <2>3. cmdQueue \in Seq(Made') /\ sendQueue \in Seq(Made') /\ toServer \in Seq(Made')
    BY <2>2, SeqMonotonic
  <2>4. cmdQueue' \in Seq(Made')
    BY <2>1, <2>2, <2>3, AppendProperties
  <2> QED BY <2>1, <2>3, <2>4
<1>3. CASE Start
  BY <1>3 DEF Start
<1>4. CASE Stop
  BY <1>4 DEF Stop
<1>5. CASE DrainTest
  BY <1>5 DEF DrainTest
<1>6. CASE DrainTake
  BY <1>6 DEF DrainTake
<1>7. CASE JoinerEnds
  BY <1>7 DEF JoinerEnds
<1>8. CASE BeginLoop
  BY <1>8 DEF BeginLoop
<1>9. CASE init_async
  BY <1>9 DEF init_async, NoPending
<1>10. CASE CreateTasks
  BY <1>10 DEF CreateTasks
<1>11. CASE RunPosted
  BY <1>11 DEF RunPosted
<1>12. CASE TaskGroupAborts
  <2>1. sendQueue' \in {sendQueue, <<>>}
    BY <1>12, CloseConnectionResets DEF TaskGroupAborts
  <2>2. UNCHANGED <<cmdQueue, queued>> /\ (toServer' = toServer \/ toServer' = <<>>)
    BY <1>12 DEF TaskGroupAborts
  <2>3. <<>> \in Seq(Made)
    BY EmptySeq
  <2> QED BY <2>1, <2>2, <2>3
<1>13. CASE ThreadEnds
  BY <1>13 DEF ThreadEnds
<1>14. ASSUME NEW t \in Tasks, SeesShutdown(t) PROVE QueueInv'
  BY <1>14 DEF SeesShutdown, TaskEnds
<1>15. CASE Connected
  BY <1>15 DEF Connected
<1>16. CASE ConnectionRefused
  BY <1>16 DEF ConnectionRefused
<1>17. CASE Reconnect
  <2>1. sendQueue' \in {sendQueue, <<>>}
    BY <1>17, CloseConnectionResets DEF Reconnect
  <2>2. UNCHANGED <<cmdQueue, queued>> /\ (toServer' = toServer \/ toServer' = <<>>)
    BY <1>17 DEF Reconnect
  <2>3. <<>> \in Seq(Made)
    BY EmptySeq
  <2> QED BY <2>1, <2>2, <2>3
<1>18. CASE Disconnect
  <2>1. sendQueue' \in {sendQueue, <<>>}
    BY <1>18, CloseConnectionResets DEF Disconnect
  <2>2. UNCHANGED <<cmdQueue, queued>> /\ (toServer' = toServer \/ toServer' = <<>>)
    BY <1>18 DEF Disconnect
  <2>3. <<>> \in Seq(Made)
    BY EmptySeq
  <2> QED BY <2>1, <2>2, <2>3
<1>19. CASE send_command
  BY <1>19 DEF send_command
<1>20. CASE Answered
  BY <1>20 DEF Answered
<1>21. CASE TimeoutFires
  BY <1>21 DEF TimeoutFires
<1>22. CASE GiveUp
  BY <1>22 DEF GiveUp
<1>23. CASE AwaitCancelled
  BY <1>23 DEF AwaitCancelled, TaskEnds
<1>24. CASE writer_loop
  <2>1. Head(sendQueue) \in Made /\ Tail(sendQueue) \in Seq(Made)
    BY <1>24 DEF writer_loop
  <2>2. toServer' = toServer \/ toServer' = Append(toServer, Head(sendQueue))
    BY <1>24 DEF writer_loop
  <2>3. Append(toServer, Head(sendQueue)) \in Seq(Made)
    BY <2>1, AppendProperties
  <2>4. toServer' \in Seq(Made)
    BY <2>2, <2>3
  <2> QED BY <1>24, <2>1, <2>4 DEF writer_loop
<1>25. CASE ReadHeader
  BY <1>25 DEF ReadHeader
<1>26. CASE ReadPayload
  BY <1>26 DEF ReadPayload, Deliver, TaskFails
<1>27. CASE PayloadTimeout
  BY <1>27 DEF PayloadTimeout
<1>28. CASE ReadGarbage
  BY <1>28 DEF ReadGarbage, Deliver, TaskFails, Garbage
<1>29. CASE ReaderBreaks
  BY <1>29 DEF ReaderBreaks, TaskFails
<1>30. CASE ServerAnswers
  BY <1>30 DEF ServerAnswers, Frame
<1>31. CASE ServerSendsUnasked
  BY <1>31 DEF ServerSendsUnasked, Frame
<1>32. CASE ServerCloses
  BY <1>32 DEF ServerCloses, Frame
<1>33. CASE ServerSendsHeld
  BY <1>33 DEF ServerSendsHeld
<1> QED BY <1>1, <1>2, <1>3, <1>4, <1>5, <1>6, <1>7, <1>8, <1>9, <1>10, <1>11, <1>12, <1>13,
   <1>14, <1>15, <1>16, <1>17, <1>18, <1>19, <1>20, <1>21, <1>22, <1>23, <1>24, <1>25,
   <1>26, <1>27, <1>28, <1>29, <1>30, <1>31, <1>32, <1>33
   DEF ClientNext, User, ParameterRaises, StopRaises, Drain, DrainRaises, Thread,
       connection_loop, state_machine, reader_loop, Console

LEMMA StreamStep ==
    ASSUME StreamInv, HeldTypeOK, QueueInv, TaskTypeOK, ClientNext
    PROVE  StreamInv'
<1> USE ClientAssumption DEF StreamInv, QueueInv, TaskTypeOK, guiVars, threadVars,
   groupVars, smVars, readVars, queueVars, pendVars, wireVars, Made, Parts
<1>1. CASE RestartProgram
  BY <1>1 DEF RestartProgram, NoPending, NoHeader
<1>2. CASE QueueCommand
  <2>1. Made \subseteq Made' /\ UNCHANGED <<header, toClient>>
    BY <1>2 DEF QueueCommand, Made
  <2>2. Parts \subseteq Parts'
    BY <2>1 DEF Parts
  <2>3. toClient \in Seq(Parts')
    BY <2>2, SeqMonotonic
  <2> QED BY <2>1, <2>3
<1>3. CASE Start
  BY <1>3 DEF Start
<1>4. CASE Stop
  BY <1>4 DEF Stop
<1>5. CASE DrainTest
  BY <1>5 DEF DrainTest
<1>6. CASE DrainTake
  BY <1>6 DEF DrainTake
<1>7. CASE JoinerEnds
  BY <1>7 DEF JoinerEnds
<1>8. CASE BeginLoop
  BY <1>8 DEF BeginLoop
<1>9. CASE init_async
  BY <1>9 DEF init_async, NoPending, NoHeader
<1>10. CASE CreateTasks
  BY <1>10 DEF CreateTasks
<1>11. CASE RunPosted
  BY <1>11 DEF RunPosted
<1>12. CASE TaskGroupAborts
  BY <1>12 DEF TaskGroupAborts, CloseConnection, reset_connection_state, CancelPending,
     NoPending
<1>13. CASE ThreadEnds
  BY <1>13 DEF ThreadEnds, NoHeader
<1>14. ASSUME NEW t \in Tasks, SeesShutdown(t) PROVE StreamInv'
  BY <1>14 DEF SeesShutdown, TaskEnds
<1>15. CASE Connected
  BY <1>15 DEF Connected
<1>16. CASE ConnectionRefused
  BY <1>16 DEF ConnectionRefused
<1>17. CASE Reconnect
  BY <1>17 DEF Reconnect, CloseConnection, reset_connection_state, CancelPending,
     NoPending, TaskEnds
<1>18. CASE Disconnect
  BY <1>18 DEF Disconnect, CloseConnection, reset_connection_state, CancelPending,
     NoPending, TaskEnds, TaskFails
<1>19. CASE send_command
  BY <1>19 DEF send_command
<1>20. CASE Answered
  BY <1>20 DEF Answered
<1>21. CASE TimeoutFires
  BY <1>21 DEF TimeoutFires
<1>22. CASE GiveUp
  BY <1>22 DEF GiveUp
<1>23. CASE AwaitCancelled
  BY <1>23 DEF AwaitCancelled, TaskEnds
<1>24. CASE writer_loop
  BY <1>24 DEF writer_loop, TaskFails
<1>25. CASE ReadHeader
  <2>1. Head(toClient) \in Parts /\ Tail(toClient) \in Seq(Parts)
    BY <1>25, HeadTailProperties DEF ReadHeader
  <2>2. Head(toClient).req \in {Unasked} \cup Made
    BY <2>1 DEF Parts
  <2> QED BY <1>25, <2>1, <2>2 DEF ReadHeader
<1>26. CASE ReadPayload
  BY <1>26 DEF ReadPayload, Deliver, TaskFails, NoHeader
<1>27. CASE PayloadTimeout
  BY <1>27 DEF PayloadTimeout, NoHeader
<1>28. CASE ReadGarbage
  <2>1. header' = header
    BY <1>28 DEF ReadGarbage
  <2>2. ASSUME NEW k \in 1 .. Len(toClient), toClient' = SubSeq(toClient, k + 1, Len(toClient))
        PROVE  toClient' \in Seq(Parts)
    <3>1. \A i \in k + 1 .. Len(toClient) : toClient[i] \in Parts
      <4> SUFFICES ASSUME NEW i \in k + 1 .. Len(toClient) PROVE toClient[i] \in Parts
        OBVIOUS
      <4>1. i \in 1 .. Len(toClient)
        BY LenProperties
      <4> QED BY <4>1, ElementOfSeq
    <3>2. k + 1 \in Int /\ Len(toClient) \in Int
      BY LenProperties
    <3> QED BY <2>2, <3>1, <3>2, SubSeqProperties
  <2> QED BY <1>28, <2>1, <2>2 DEF ReadGarbage
<1>29. CASE ReaderBreaks
  BY <1>29 DEF ReaderBreaks, TaskFails
<1>30. CASE ServerAnswers
  <2>1. Head(toServer) \in Made
    BY <1>30 DEF ServerAnswers
  <2>2. toClient \o Frame(Head(toServer)) \in Seq(Parts)
    BY <2>1, FrameIsParts, ConcatProperties
  <2> QED BY <1>30, <2>2 DEF ServerAnswers
<1>31. CASE ServerSendsUnasked
  <2>1. toClient \o Frame(Unasked) \in Seq(Parts)
    BY FrameIsParts, ConcatProperties
  <2> QED BY <1>31, <2>1 DEF ServerSendsUnasked
<1>32. CASE ServerCloses
  <2>1. toServer # <<>> => Frame(Head(toServer))[1] \in Parts
    BY FrameIsParts
  <2>2. toServer # <<>> => Append(toClient, Frame(Head(toServer))[1]) \in Seq(Parts)
    BY <2>1, AppendProperties
  <2>3. <<>> \in Seq(Parts)
    BY EmptySeq
  <2> QED BY <1>32, <2>2, <2>3 DEF ServerCloses
<1>33. CASE ServerSendsHeld
  <2>1. held # Rest => toClient \o Frame(held) \in Seq(Parts)
    <3> SUFFICES ASSUME held # Rest PROVE toClient \o Frame(held) \in Seq(Parts)
      OBVIOUS
    <3>1. held \in {Unasked} \cup Made
      BY <1>33 DEF ServerSendsHeld, HeldTypeOK
    <3> QED BY <3>1, FrameIsParts, ConcatProperties
  <2>2. Append(toClient, Frame(Unasked)[2]) \in Seq(Parts)
    <3>1. Frame(Unasked)[2] \in Parts
      BY DEF Frame, Parts
    <3> QED BY <3>1, AppendProperties
  <2> QED BY <1>33, <2>1, <2>2 DEF ServerSendsHeld
<1> QED BY <1>1, <1>2, <1>3, <1>4, <1>5, <1>6, <1>7, <1>8, <1>9, <1>10, <1>11, <1>12, <1>13,
   <1>14, <1>15, <1>16, <1>17, <1>18, <1>19, <1>20, <1>21, <1>22, <1>23, <1>24, <1>25,
   <1>26, <1>27, <1>28, <1>29, <1>30, <1>31, <1>32, <1>33
   DEF ClientNext, User, ParameterRaises, StopRaises, Drain, DrainRaises, Thread,
       connection_loop, state_machine, reader_loop, Console

LEMMA RequestTypeStep ==
    ASSUME RequestTypeOK, StreamInv, TaskTypeOK, QueueInv, ClientNext
    PROVE  RequestTypeOK'
<1> USE ClientAssumption DEF RequestTypeOK, StreamInv, TaskTypeOK, QueueInv, guiVars,
   threadVars, groupVars, smVars, readVars, queueVars, pendVars, wireVars, Requests,
   Garbage, Made
<1>1. CASE RestartProgram
  BY <1>1 DEF RestartProgram, NoPending
<1>2. CASE QueueCommand
  BY <1>2 DEF QueueCommand
<1>3. CASE Start
  BY <1>3 DEF Start
<1>4. CASE Stop
  BY <1>4 DEF Stop
<1>5. CASE DrainTest
  BY <1>5 DEF DrainTest
<1>6. CASE DrainTake
  BY <1>6 DEF DrainTake
<1>7. CASE JoinerEnds
  BY <1>7 DEF JoinerEnds
<1>8. CASE BeginLoop
  BY <1>8 DEF BeginLoop
<1>9. CASE init_async
  BY <1>9 DEF init_async, NoPending
<1>10. CASE CreateTasks
  BY <1>10 DEF CreateTasks
<1>11. CASE RunPosted
  BY <1>11 DEF RunPosted
<1>12. CASE TaskGroupAborts
  <2>1. pending' \in {pending, NoPending} /\ NoPending \in [Cmds -> 0 .. MaxRequests]
    BY <1>12, CloseConnectionResets DEF TaskGroupAborts, NoPending
  <2>2. future' \in [Requests -> {"none", "open", "done", "cancelled"}]
    BY <1>12, CloseConnectionResets DEF TaskGroupAborts
  <2>3. cmdOf' = cmdOf /\ got' = got
    BY <1>12 DEF TaskGroupAborts
  <2>4. outcome' \in [Requests -> {"none", "queued", "dropped", "waiting", "answered", "timeout",
                                   "cancelled"}]
    BY <1>12 DEF TaskGroupAborts
  <2> QED BY <2>1, <2>2, <2>3, <2>4
<1>13. CASE ThreadEnds
  BY <1>13 DEF ThreadEnds
<1>14. ASSUME NEW t \in Tasks, SeesShutdown(t) PROVE RequestTypeOK'
  BY <1>14 DEF SeesShutdown, TaskEnds
<1>15. CASE Connected
  BY <1>15 DEF Connected
<1>16. CASE ConnectionRefused
  BY <1>16 DEF ConnectionRefused
<1>17. CASE Reconnect
  <2>1. pending' \in {pending, NoPending} /\ NoPending \in [Cmds -> 0 .. MaxRequests]
    BY <1>17, CloseConnectionResets DEF Reconnect, NoPending
  <2>2. future' \in [Requests -> {"none", "open", "done", "cancelled"}]
    BY <1>17, CloseConnectionResets DEF Reconnect
  <2>3. cmdOf' = cmdOf /\ got' = got
    BY <1>17 DEF Reconnect
  <2>4. outcome' \in [Requests -> {"none", "queued", "dropped", "waiting", "answered", "timeout",
                                   "cancelled"}]
    BY <1>17 DEF Reconnect
  <2> QED BY <2>1, <2>2, <2>3, <2>4
<1>18. CASE Disconnect
  <2>1. pending' \in {pending, NoPending} /\ NoPending \in [Cmds -> 0 .. MaxRequests]
    BY <1>18, CloseConnectionResets DEF Disconnect, NoPending
  <2>2. future' \in [Requests -> {"none", "open", "done", "cancelled"}]
    BY <1>18, CloseConnectionResets DEF Disconnect
  <2>3. cmdOf' = cmdOf /\ got' = got
    BY <1>18 DEF Disconnect
  <2>4. outcome' \in [Requests -> {"none", "queued", "dropped", "waiting", "answered", "timeout",
                                   "cancelled"}]
    BY <1>18 DEF Disconnect
  <2> QED BY <2>1, <2>2, <2>3, <2>4
<1>19. CASE send_command
  <2>1. Head(cmdQueue) \in Requests /\ Head(cmdQueue) \in 0 .. MaxRequests
    <3>1. Head(cmdQueue) \in Made
      BY <1>19, HeadTailProperties DEF send_command
    <3> QED BY <3>1
  <2>2. pending' = [pending EXCEPT ![cmdOf[Head(cmdQueue)]] = Head(cmdQueue)]
    BY <1>19 DEF send_command
  <2>3. pending' \in [Cmds -> 0 .. MaxRequests]
    BY <2>1, <2>2
  <2>4. /\ future' = [future EXCEPT ![Head(cmdQueue)] = "open"]
        /\ outcome' = [outcome EXCEPT ![Head(cmdQueue)] = "waiting"]
        /\ UNCHANGED <<cmdOf, got>>
    BY <1>19 DEF send_command
  <2> QED BY <2>3, <2>4
<1>20. CASE Answered
  BY <1>20 DEF Answered
<1>21. CASE TimeoutFires
  BY <1>21 DEF TimeoutFires
<1>22. CASE GiveUp
  <2>1. pending' = [pending EXCEPT ![cmdOf[current]] = 0] /\ 0 \in 0 .. MaxRequests
    BY <1>22 DEF GiveUp
  <2>2. pending' \in [Cmds -> 0 .. MaxRequests]
    BY <2>1
  <2>3. outcome' = [outcome EXCEPT ![current] = "timeout"] /\ UNCHANGED <<cmdOf, future, got>>
    BY <1>22 DEF GiveUp
  <2> QED BY <2>2, <2>3
<1>23. CASE AwaitCancelled
  BY <1>23 DEF AwaitCancelled, TaskEnds
<1>24. CASE writer_loop
  BY <1>24 DEF writer_loop, TaskFails
<1>25. CASE ReadHeader
  BY <1>25 DEF ReadHeader
<1>26. CASE ReadPayload
  <2>1. \/ UNCHANGED <<pending, future, got>>
        \/ header \in Requests /\ Deliver(cmdOf[header], header)
    BY <1>26 DEF ReadPayload, StreamInv, NoHeader, Unasked
  <2>2. /\ pending' \in [Cmds -> 0 .. MaxRequests]
        /\ future' \in [Requests -> {"none", "open", "done", "cancelled"}]
        /\ got' \in [Requests -> {Garbage, 0} \cup Requests]
    BY <2>1, DeliverTypes
  <2> QED BY <1>26, <2>2 DEF ReadPayload
<1>27. CASE PayloadTimeout
  BY <1>27 DEF PayloadTimeout
<1>28. CASE ReadGarbage
  <2>1. UNCHANGED <<pending, future, got>> \/ \E c \in Cmds : Deliver(c, Garbage)
    BY <1>28 DEF ReadGarbage
  <2>2. /\ pending' \in [Cmds -> 0 .. MaxRequests]
        /\ future' \in [Requests -> {"none", "open", "done", "cancelled"}]
        /\ got' \in [Requests -> {Garbage, 0} \cup Requests]
    BY <2>1, DeliverTypes
  <2> QED BY <1>28, <2>2 DEF ReadGarbage
<1>29. CASE ReaderBreaks
  BY <1>29 DEF ReaderBreaks, TaskFails
<1>30. CASE ServerAnswers
  BY <1>30 DEF ServerAnswers, Frame
<1>31. CASE ServerSendsUnasked
  BY <1>31 DEF ServerSendsUnasked, Frame
<1>32. CASE ServerCloses
  BY <1>32 DEF ServerCloses, Frame
<1>33. CASE ServerSendsHeld
  BY <1>33 DEF ServerSendsHeld
<1> QED BY <1>1, <1>2, <1>3, <1>4, <1>5, <1>6, <1>7, <1>8, <1>9, <1>10, <1>11, <1>12, <1>13,
   <1>14, <1>15, <1>16, <1>17, <1>18, <1>19, <1>20, <1>21, <1>22, <1>23, <1>24, <1>25,
   <1>26, <1>27, <1>28, <1>29, <1>30, <1>31, <1>32, <1>33
   DEF ClientNext, User, ParameterRaises, StopRaises, Drain, DrainRaises, Thread,
       connection_loop, state_machine, reader_loop, Console

LEMMA MadeStep ==
    ASSUME MadeInv, TaskTypeOK, QueueInv, RequestTypeOK, ClientNext
    PROVE  MadeInv'
<1> USE ClientAssumption DEF MadeInv, TaskTypeOK, QueueInv, RequestTypeOK, guiVars,
   threadVars, groupVars, smVars, readVars, queueVars, pendVars, wireVars, Made, Requests
<1>1. CASE RestartProgram
  BY <1>1 DEF RestartProgram, NoPending
<1>2. CASE QueueCommand
  <2>1. PICK c \in Cmds : cmdOf' = [cmdOf EXCEPT ![queued + 1] = c]
    BY <1>2 DEF QueueCommand
  <2>2. queued' = queued + 1 /\ current' = current /\ queued + 1 \in Requests
    BY <1>2 DEF QueueCommand
  <2>3. \A r \in 1 .. queued + 1 : cmdOf'[r] \in Cmds
    BY <2>1, <2>2
  <2> QED BY <2>2, <2>3
<1>3. CASE Start
  BY <1>3 DEF Start
<1>4. CASE Stop
  BY <1>4 DEF Stop
<1>5. CASE DrainTest
  BY <1>5 DEF DrainTest
<1>6. CASE DrainTake
  BY <1>6 DEF DrainTake
<1>7. CASE JoinerEnds
  BY <1>7 DEF JoinerEnds
<1>8. CASE BeginLoop
  BY <1>8 DEF BeginLoop
<1>9. CASE init_async
  BY <1>9 DEF init_async, NoPending
<1>10. CASE CreateTasks
  BY <1>10 DEF CreateTasks
<1>11. CASE RunPosted
  BY <1>11 DEF RunPosted
<1>12. CASE TaskGroupAborts
  BY <1>12 DEF TaskGroupAborts, CloseConnection, reset_connection_state, CancelPending,
     NoPending
<1>13. CASE ThreadEnds
  BY <1>13 DEF ThreadEnds
<1>14. ASSUME NEW t \in Tasks, SeesShutdown(t) PROVE MadeInv'
  BY <1>14 DEF SeesShutdown, TaskEnds
<1>15. CASE Connected
  BY <1>15 DEF Connected
<1>16. CASE ConnectionRefused
  BY <1>16 DEF ConnectionRefused
<1>17. CASE Reconnect
  BY <1>17 DEF Reconnect, CloseConnection, reset_connection_state, CancelPending,
     NoPending, TaskEnds
<1>18. CASE Disconnect
  BY <1>18 DEF Disconnect, CloseConnection, reset_connection_state, CancelPending,
     NoPending, TaskEnds, TaskFails
<1>19. CASE send_command
  <2>1. Head(cmdQueue) \in Made
    BY <1>19, HeadTailProperties DEF send_command
  <2> QED BY <1>19, <2>1 DEF send_command
<1>20. CASE Answered
  BY <1>20 DEF Answered
<1>21. CASE TimeoutFires
  BY <1>21 DEF TimeoutFires
<1>22. CASE GiveUp
  BY <1>22 DEF GiveUp
<1>23. CASE AwaitCancelled
  BY <1>23 DEF AwaitCancelled, TaskEnds
<1>24. CASE writer_loop
  BY <1>24 DEF writer_loop, TaskFails
<1>25. CASE ReadHeader
  BY <1>25 DEF ReadHeader
<1>26. CASE ReadPayload
  BY <1>26 DEF ReadPayload, Deliver, TaskFails
<1>27. CASE PayloadTimeout
  BY <1>27 DEF PayloadTimeout
<1>28. CASE ReadGarbage
  BY <1>28 DEF ReadGarbage, Deliver, TaskFails, Garbage
<1>29. CASE ReaderBreaks
  BY <1>29 DEF ReaderBreaks, TaskFails
<1>30. CASE ServerAnswers
  BY <1>30 DEF ServerAnswers, Frame
<1>31. CASE ServerSendsUnasked
  BY <1>31 DEF ServerSendsUnasked, Frame
<1>32. CASE ServerCloses
  BY <1>32 DEF ServerCloses, Frame
<1>33. CASE ServerSendsHeld
  BY <1>33 DEF ServerSendsHeld
<1> QED BY <1>1, <1>2, <1>3, <1>4, <1>5, <1>6, <1>7, <1>8, <1>9, <1>10, <1>11, <1>12, <1>13,
   <1>14, <1>15, <1>16, <1>17, <1>18, <1>19, <1>20, <1>21, <1>22, <1>23, <1>24, <1>25,
   <1>26, <1>27, <1>28, <1>29, <1>30, <1>31, <1>32, <1>33
   DEF ClientNext, User, ParameterRaises, StopRaises, Drain, DrainRaises, Thread,
       connection_loop, state_machine, reader_loop, Console

LEMMA MayHoldTypes ==
    ASSUME HeldTypeOK, QueueInv, SenderMayHold
    PROVE  held' \in {NoHeader, Rest} \cup Made
<1>1. \A i \in 1 .. Len(toServer) : toServer[i] \in Made
  BY ElementOfSeq DEF QueueInv
<1> QED BY <1>1 DEF SenderMayHold, HeldTypeOK

LEMMA HeldTypeStep ==
    ASSUME HeldTypeOK, QueueInv, TaskTypeOK, ClientNext
    PROVE  HeldTypeOK'
<1> USE ClientAssumption DEF guiVars, threadVars, groupVars, smVars, readVars, queueVars, pendVars,
   wireVars
<1> USE DEF HeldTypeOK, Made
<1>1. CASE RestartProgram
  BY <1>1, MayHoldTypes DEF RestartProgram
<1>2. CASE QueueCommand
  <2>1. held' = held /\ Made \subseteq Made'
    BY <1>2 DEF QueueCommand, TaskTypeOK
  <2> QED BY <2>1
<1>3. CASE Start
  BY <1>3 DEF Start
<1>4. CASE Stop
  BY <1>4 DEF Stop
<1>5. CASE DrainTest
  BY <1>5 DEF DrainTest
<1>6. CASE DrainTake
  BY <1>6 DEF DrainTake
<1>7. CASE JoinerEnds
  BY <1>7 DEF JoinerEnds
<1>8. CASE BeginLoop
  BY <1>8 DEF BeginLoop
<1>9. CASE init_async
  BY <1>9 DEF init_async
<1>10. CASE CreateTasks
  BY <1>10 DEF CreateTasks
<1>11. CASE RunPosted
  BY <1>11 DEF RunPosted
<1>12. CASE TaskGroupAborts
  BY <1>12 DEF TaskGroupAborts, CloseConnection, reset_connection_state, CancelPending
<1>13. CASE ThreadEnds
  BY <1>13, MayHoldTypes DEF ThreadEnds
<1>14. ASSUME NEW t \in Tasks, SeesShutdown(t) PROVE HeldTypeOK'
  BY <1>14 DEF SeesShutdown, TaskEnds
<1>15. CASE Connected
  BY <1>15 DEF Connected
<1>16. CASE ConnectionRefused
  BY <1>16 DEF ConnectionRefused
<1>17. CASE Reconnect
  BY <1>17 DEF Reconnect, CloseConnection, reset_connection_state, CancelPending, TaskEnds
<1>18. CASE Disconnect
  BY <1>18 DEF Disconnect, CloseConnection, reset_connection_state, CancelPending, TaskEnds,
     TaskFails
<1>19. CASE send_command
  BY <1>19 DEF send_command
<1>20. CASE Answered
  BY <1>20 DEF Answered
<1>21. CASE TimeoutFires
  BY <1>21 DEF TimeoutFires
<1>22. CASE GiveUp
  BY <1>22 DEF GiveUp
<1>23. CASE AwaitCancelled
  BY <1>23 DEF AwaitCancelled, TaskEnds
<1>24. CASE writer_loop
  BY <1>24 DEF writer_loop, TaskFails
<1>25. CASE ReadHeader
  BY <1>25 DEF ReadHeader
<1>26. CASE ReadPayload
  BY <1>26 DEF ReadPayload, Deliver, TaskFails
<1>27. CASE PayloadTimeout
  BY <1>27 DEF PayloadTimeout
<1>28. CASE ReadGarbage
  BY <1>28 DEF ReadGarbage, Deliver, TaskFails
<1>29. CASE ReaderBreaks
  BY <1>29 DEF ReaderBreaks, TaskFails
<1>30. CASE ServerAnswers
  BY <1>30 DEF ServerAnswers
<1>31. CASE ServerSendsUnasked
  BY <1>31 DEF ServerSendsUnasked
<1>32. CASE ServerCloses
  BY <1>32, MayHoldTypes DEF ServerCloses
<1>33. CASE ServerSendsHeld
  BY <1>33 DEF ServerSendsHeld
<1> QED BY <1>1, <1>2, <1>3, <1>4, <1>5, <1>6, <1>7, <1>8, <1>9, <1>10, <1>11, <1>12, <1>13,
   <1>14, <1>15, <1>16, <1>17, <1>18, <1>19, <1>20, <1>21, <1>22, <1>23, <1>24, <1>25,
   <1>26, <1>27, <1>28, <1>29, <1>30, <1>31, <1>32, <1>33
   DEF ClientNext, User, ParameterRaises, StopRaises, Drain, DrainRaises, Thread,
       connection_loop, state_machine, reader_loop, Console

LEMMA HistoryTypeStep ==
    ASSUME PartsInv, ClientNext
    PROVE  HistoryTypeOK'
<1> USE DEF guiVars, threadVars, groupVars, smVars, readVars, queueVars, pendVars,
   wireVars
<1>a. sentNow \subseteq Requests /\ givenOld \subseteq Requests
  BY DEF PartsInv, HistoryTypeOK
<1>b. ASSUME NEW c \in Cmds, NEW answer, Deliver(c, answer), sentNow' = sentNow
      PROVE  HistoryTypeOK'
  <2>1. pending[c] # 0 => pending[c] \in Requests
    BY ClientAssumption DEF PartsInv, RequestTypeOK, Requests
  <2> QED BY <1>a, <1>b, <2>1 DEF Deliver, HistoryTypeOK
<1> USE DEF HistoryTypeOK
<1>1. CASE RestartProgram
  BY <1>a, <1>1 DEF RestartProgram
<1>2. CASE QueueCommand
  BY <1>a, <1>2 DEF QueueCommand
<1>3. CASE Start
  BY <1>a, <1>3 DEF Start
<1>4. CASE Stop
  BY <1>a, <1>4 DEF Stop
<1>5. CASE DrainTest
  BY <1>a, <1>5 DEF DrainTest
<1>6. CASE DrainTake
  BY <1>a, <1>6 DEF DrainTake
<1>7. CASE JoinerEnds
  BY <1>a, <1>7 DEF JoinerEnds
<1>8. CASE BeginLoop
  BY <1>a, <1>8 DEF BeginLoop
<1>9. CASE init_async
  BY <1>a, <1>9 DEF init_async
<1>10. CASE CreateTasks
  BY <1>a, <1>10 DEF CreateTasks
<1>11. CASE RunPosted
  BY <1>a, <1>11 DEF RunPosted
<1>12. CASE TaskGroupAborts
  BY <1>a, <1>12 DEF TaskGroupAborts, CloseConnection, reset_connection_state, CancelPending
<1>13. CASE ThreadEnds
  BY <1>a, <1>13 DEF ThreadEnds
<1>14. ASSUME NEW t \in Tasks, SeesShutdown(t) PROVE HistoryTypeOK'
  BY <1>a, <1>14 DEF SeesShutdown, TaskEnds
<1>15. CASE Connected
  BY <1>a, <1>15 DEF Connected
<1>16. CASE ConnectionRefused
  BY <1>a, <1>16 DEF ConnectionRefused
<1>17. CASE Reconnect
  BY <1>a, <1>17 DEF Reconnect, CloseConnection, reset_connection_state, CancelPending,
     TaskEnds
<1>18. CASE Disconnect
  BY <1>a, <1>18 DEF Disconnect, CloseConnection, reset_connection_state, CancelPending,
     TaskEnds, TaskFails
<1>19. CASE send_command
  BY <1>a, <1>19 DEF send_command
<1>20. CASE Answered
  BY <1>a, <1>20 DEF Answered
<1>21. CASE TimeoutFires
  BY <1>a, <1>21 DEF TimeoutFires
<1>22. CASE GiveUp
  BY <1>a, <1>22 DEF GiveUp
<1>23. CASE AwaitCancelled
  BY <1>a, <1>23 DEF AwaitCancelled, TaskEnds
<1>24. CASE writer_loop
  <2>1. Head(sendQueue) \in Requests
    <3>1. Head(sendQueue) \in Made
      BY <1>24, HeadTailProperties DEF writer_loop, PartsInv, QueueInv
    <3> QED BY <3>1, ClientAssumption DEF Made, Requests, PartsInv, TaskTypeOK
  <2> QED BY <1>a, <1>24, <2>1 DEF writer_loop
<1>25. CASE ReadHeader
  BY <1>a, <1>25 DEF ReadHeader
<1>26. CASE ReadPayload
  <2>1. sentNow' = sentNow /\ (UNCHANGED givenOld \/ Deliver(cmdOf[header], header))
    BY <1>26 DEF ReadPayload
  <2>2. header \in Made \/ UNCHANGED givenOld
    BY <1>26 DEF ReadPayload, PartsInv, StreamInv
  <2>3. header \in Made => cmdOf[header] \in Cmds
    BY DEF PartsInv, MadeInv
  <2> QED BY <1>a, <1>b, <2>1, <2>2, <2>3
<1>27. CASE PayloadTimeout
  BY <1>a, <1>27 DEF PayloadTimeout
<1>28. CASE ReadGarbage
  <2>1. sentNow' = sentNow /\ (UNCHANGED givenOld \/ \E c \in Cmds : Deliver(c, Garbage))
    BY <1>28 DEF ReadGarbage
  <2> QED BY <1>a, <1>b, <2>1
<1>29. CASE ReaderBreaks
  BY <1>a, <1>29 DEF ReaderBreaks, TaskFails
<1>30. CASE ServerAnswers
  BY <1>a, <1>30 DEF ServerAnswers
<1>31. CASE ServerSendsUnasked
  BY <1>a, <1>31 DEF ServerSendsUnasked
<1>32. CASE ServerCloses
  BY <1>a, <1>32 DEF ServerCloses
<1>33. CASE ServerSendsHeld
  BY <1>a, <1>33 DEF ServerSendsHeld
<1> QED BY <1>1, <1>2, <1>3, <1>4, <1>5, <1>6, <1>7, <1>8, <1>9, <1>10, <1>11, <1>12, <1>13,
   <1>14, <1>15, <1>16, <1>17, <1>18, <1>19, <1>20, <1>21, <1>22, <1>23, <1>24, <1>25,
   <1>26, <1>27, <1>28, <1>29, <1>30, <1>31, <1>32, <1>33
   DEF ClientNext, User, ParameterRaises, StopRaises, Drain, DrainRaises, Thread,
       connection_loop, state_machine, reader_loop, Console

LEMMA PartsStep ==
    ASSUME PartsInv, ClientNext
    PROVE  PartsInv'
BY SessionTypeStep, TaskTypeStep, QueueStep, StreamStep, RequestTypeStep, MadeStep,
   HeldTypeStep, HistoryTypeStep DEF PartsInv

-----------------------------------------------------------------------------
\* One session at a time: the controller knows the thread that is alive, the joiner waits
\* for no other, and a session has tasks only once they are created.
ThreadInv ==
    /\ live \subseteq {started} /\ joining \subseteq {started}
    /\ live = {} <=> stage = "none"
    /\ live # {} => thread = started
    /\ stage # "up" => tasks = {}

\* An answer leaves no entry in pending.
PendInv ==
    /\ stage = "inited" => sm = "poll" /\ pending = NoPending
    /\ "state_machine" \in tasks /\ sm = "wait" =>
         /\ current # 0
         /\ future[current] = "done" => \A c \in Cmds : pending[c] = 0
    /\ PendingIsCurrent

\* An answer takes an entry out of pending, and if it is that of the request send_command
\* waits for there is no other.
LEMMA DeliverKeepsPend ==
    ASSUME ClientTypeOK, ThreadInv, PendInv, NEW c \in Cmds, NEW answer, Deliver(c, answer),
           tasks # {}, tasks' \subseteq tasks,
           UNCHANGED <<stage, cmdQueue, queued, cmdOf, sm, current>>
    PROVE  PendInv'
<1>1. pending' = [pending EXCEPT ![c] = 0] /\ pending \in [Cmds -> 0 .. MaxRequests]
  BY DEF Deliver, ClientTypeOK
<1>2. \A d \in Cmds : pending'[d] # 0 => pending'[d] = pending[d] /\ d # c
  BY <1>1
<1>3. stage # "inited"
  BY DEF ThreadInv
<1>4. ASSUME "state_machine" \in tasks, sm = "wait", future'[current] = "done",
             NEW d \in Cmds, pending'[d] # 0
      PROVE  FALSE
  <2>1. pending[d] = current /\ cmdOf[current] = d /\ d # c
    BY <1>2, <1>4 DEF PendInv, PendingIsCurrent
  <2>2. current # 0 /\ (future[current] = "done" => pending[d] = 0)
    BY <1>4 DEF PendInv, ClientTypeOK
  <2>3. future[current] # "done"
    BY <1>2, <1>4, <2>2
  <2>4. future' = [future EXCEPT ![pending[c]] = "done"]
    BY <2>3, <1>4 DEF Deliver
  <2>5. pending[c] = current
    BY <2>3, <2>4, <1>4 DEF ClientTypeOK
  <2>6. cmdOf[current] = c
    BY <2>2, <2>5, <1>4 DEF PendInv, PendingIsCurrent
  <2> QED BY <2>1, <2>6
<1>5. PendingIsCurrent'
  BY <1>2 DEF PendInv, PendingIsCurrent
<1> QED BY <1>3, <1>4, <1>5 DEF PendInv

LEMMA ThreadStep ==
    ASSUME ClientTypeOK, ThreadInv, StartWaitsForJoiner, ClientNext
    PROVE  ThreadInv'
<1> USE ClientAssumption
<1> USE DEF ClientTypeOK, ThreadInv, guiVars, threadVars, groupVars, smVars, readVars,
   queueVars, pendVars, wireVars, Sessions, Tasks
<1>1. CASE RestartProgram
  BY <1>1 DEF RestartProgram, NoPending
<1>2. CASE QueueCommand
  BY <1>2 DEF QueueCommand
<1>3. CASE Start
  BY <1>3 DEF Start
<1>4. CASE Stop
  BY <1>4 DEF Stop
<1>5. CASE DrainTest
  BY <1>5 DEF DrainTest
<1>6. CASE DrainTake
  BY <1>6 DEF DrainTake
<1>7. CASE JoinerEnds
  BY <1>7 DEF JoinerEnds
<1>8. CASE BeginLoop
  BY <1>8 DEF BeginLoop
<1>9. CASE init_async
  BY <1>9 DEF init_async, NoPending
<1>10. CASE CreateTasks
  BY <1>10 DEF CreateTasks
<1>11. CASE RunPosted
  BY <1>11 DEF RunPosted
<1>12. CASE TaskGroupAborts
  BY <1>12 DEF TaskGroupAborts, CloseConnection, reset_connection_state, CancelPending,
     NoPending
<1>13. CASE ThreadEnds
  BY <1>13 DEF ThreadEnds
<1>14. ASSUME NEW t \in Tasks, SeesShutdown(t) PROVE ThreadInv'
  BY <1>14 DEF SeesShutdown, TaskEnds
<1>15. CASE Connected
  BY <1>15 DEF Connected
<1>16. CASE ConnectionRefused
  BY <1>16 DEF ConnectionRefused
<1>17. CASE Reconnect
  BY <1>17 DEF Reconnect, CloseConnection, reset_connection_state, CancelPending,
     NoPending, TaskEnds
<1>18. CASE Disconnect
  BY <1>18 DEF Disconnect, CloseConnection, reset_connection_state, CancelPending,
     NoPending, TaskEnds, TaskFails
<1>19. CASE send_command
  BY <1>19 DEF send_command
<1>20. CASE Answered
  BY <1>20 DEF Answered
<1>21. CASE TimeoutFires
  BY <1>21 DEF TimeoutFires
<1>22. CASE GiveUp
  BY <1>22 DEF GiveUp
<1>23. CASE AwaitCancelled
  BY <1>23 DEF AwaitCancelled, TaskEnds
<1>24. CASE writer_loop
  BY <1>24 DEF writer_loop, TaskFails
<1>25. CASE ReadHeader
  BY <1>25 DEF ReadHeader
<1>26. CASE ReadPayload
  BY <1>26 DEF ReadPayload, Deliver, TaskFails
<1>27. CASE PayloadTimeout
  BY <1>27 DEF PayloadTimeout
<1>28. CASE ReadGarbage
  BY <1>28 DEF ReadGarbage, Deliver, TaskFails, Garbage
<1>29. CASE ReaderBreaks
  BY <1>29 DEF ReaderBreaks, TaskFails
<1>30. CASE ServerAnswers
  BY <1>30 DEF ServerAnswers, Frame
<1>31. CASE ServerSendsUnasked
  BY <1>31 DEF ServerSendsUnasked, Frame
<1>32. CASE ServerCloses
  BY <1>32 DEF ServerCloses, Frame
<1>33. CASE ServerSendsHeld
  BY <1>33 DEF ServerSendsHeld
<1> QED BY <1>1, <1>2, <1>3, <1>4, <1>5, <1>6, <1>7, <1>8, <1>9, <1>10, <1>11, <1>12, <1>13,
   <1>14, <1>15, <1>16, <1>17, <1>18, <1>19, <1>20, <1>21, <1>22, <1>23, <1>24, <1>25,
   <1>26, <1>27, <1>28, <1>29, <1>30, <1>31, <1>32, <1>33
   DEF ClientNext, User, ParameterRaises, StopRaises, Drain, DrainRaises, Thread,
       connection_loop, state_machine, reader_loop, Console

LEMMA PendStep ==
    ASSUME StreamInv, MadeInv, ClientTypeOK, ThreadInv, PendInv, StartWaitsForJoiner, ClientNext
    PROVE  PendInv'
<1> USE ClientAssumption
<1> USE DEF MadeInv, ClientTypeOK, ThreadInv, PendInv, guiVars, threadVars, groupVars,
   smVars, readVars, queueVars, pendVars, wireVars, Made, Requests, Tasks, NoPending,
   PendingIsCurrent
<1>1. CASE RestartProgram
  BY <1>1 DEF RestartProgram, NoPending
<1>2. CASE QueueCommand
  BY <1>2 DEF QueueCommand
<1>3. CASE Start
  BY <1>3 DEF Start
<1>4. CASE Stop
  BY <1>4 DEF Stop
<1>5. CASE DrainTest
  BY <1>5 DEF DrainTest
<1>6. CASE DrainTake
  BY <1>6 DEF DrainTake
<1>7. CASE JoinerEnds
  BY <1>7 DEF JoinerEnds
<1>8. CASE BeginLoop
  BY <1>8 DEF BeginLoop
<1>9. CASE init_async
  BY <1>9 DEF init_async, NoPending
<1>10. CASE CreateTasks
  BY <1>10 DEF CreateTasks
<1>11. CASE RunPosted
  BY <1>11 DEF RunPosted
<1>12. CASE TaskGroupAborts
  BY <1>12 DEF TaskGroupAborts, CloseConnection, reset_connection_state, CancelPending,
     NoPending
<1>13. CASE ThreadEnds
  BY <1>13 DEF ThreadEnds
<1>14. ASSUME NEW t \in Tasks, SeesShutdown(t) PROVE PendInv'
  BY <1>14 DEF SeesShutdown, TaskEnds
<1>15. CASE Connected
  BY <1>15 DEF Connected
<1>16. CASE ConnectionRefused
  BY <1>16 DEF ConnectionRefused
<1>17. CASE Reconnect
  BY <1>17 DEF Reconnect, CloseConnection, reset_connection_state, CancelPending,
     NoPending, TaskEnds
<1>18. CASE Disconnect
  BY <1>18 DEF Disconnect, CloseConnection, reset_connection_state, CancelPending,
     NoPending, TaskEnds, TaskFails
<1>19. CASE send_command
  BY <1>19 DEF send_command
<1>20. CASE Answered
  BY <1>20 DEF Answered
<1>21. CASE TimeoutFires
  BY <1>21 DEF TimeoutFires
<1>22. CASE GiveUp
  BY <1>22 DEF GiveUp
<1>23. CASE AwaitCancelled
  BY <1>23 DEF AwaitCancelled, TaskEnds
<1>24. CASE writer_loop
  BY <1>24 DEF writer_loop, TaskFails
<1>25. CASE ReadHeader
  BY <1>25 DEF ReadHeader
<1>26. CASE ReadPayload
  <2>1. CASE header = Unasked
    BY <1>26, <2>1 DEF ReadPayload
  <2>2. CASE header # Unasked
    <3>1. Deliver(cmdOf[header], header)
      BY <1>26, <2>2 DEF ReadPayload
    <3>2. cmdOf[header] \in Cmds
      BY <1>26, <2>2 DEF ReadPayload, StreamInv
    <3>3. tasks # {} /\ tasks' \subseteq tasks
          /\ UNCHANGED <<stage, cmdQueue, queued, cmdOf, sm, current>>
      BY <1>26, <2>2 DEF ReadPayload, Deliver, TaskFails
    <3> QED BY <3>1, <3>2, <3>3, DeliverKeepsPend
  <2> QED BY <2>1, <2>2
<1>27. CASE PayloadTimeout
  BY <1>27 DEF PayloadTimeout
<1>28. CASE ReadGarbage
  <2>1. ASSUME NEW c \in Cmds, Deliver(c, Garbage) PROVE PendInv'
    <3>1. tasks # {} /\ tasks' \subseteq tasks
          /\ UNCHANGED <<stage, cmdQueue, queued, cmdOf, sm, current>>
      BY <1>28, <2>1 DEF ReadGarbage, Deliver, TaskFails
    <3> QED BY <2>1, <3>1, DeliverKeepsPend
  <2>2. CASE UNCHANGED pendVars /\ tasks' \subseteq tasks
    BY <1>28, <2>2 DEF ReadGarbage
  <2>3. (\E c \in Cmds : Deliver(c, Garbage)) \/ (UNCHANGED pendVars /\ tasks' \subseteq tasks)
    BY <1>28 DEF ReadGarbage, TaskFails
  <2> QED BY <2>1, <2>2, <2>3
<1>29. CASE ReaderBreaks
  BY <1>29 DEF ReaderBreaks, TaskFails
<1>30. CASE ServerAnswers
  BY <1>30 DEF ServerAnswers, Frame
<1>31. CASE ServerSendsUnasked
  BY <1>31 DEF ServerSendsUnasked, Frame
<1>32. CASE ServerCloses
  BY <1>32 DEF ServerCloses, Frame
<1>33. CASE ServerSendsHeld
  BY <1>33 DEF ServerSendsHeld
<1> QED BY <1>1, <1>2, <1>3, <1>4, <1>5, <1>6, <1>7, <1>8, <1>9, <1>10, <1>11, <1>12, <1>13,
   <1>14, <1>15, <1>16, <1>17, <1>18, <1>19, <1>20, <1>21, <1>22, <1>23, <1>24, <1>25,
   <1>26, <1>27, <1>28, <1>29, <1>30, <1>31, <1>32, <1>33
   DEF ClientNext, User, ParameterRaises, StopRaises, Drain, DrainRaises, Thread,
       connection_loop, state_machine, reader_loop, Console

-----------------------------------------------------------------------------
(* The line of requests: from the queue of the user's commands to the      *)
(* writer's, to the console, back to the reader, and to the futures.       *)

\* The requests in a queue, and those whose header is on its way to the client.
InQueue(s) == {s[i] : i \in 1 .. Len(s)}
Headers(s) == {s[i].req : i \in {j \in 1 .. Len(s) : s[j].part = "header"}} \ {Unasked}
Increasing(s) == \A i, j \in 1 .. Len(s) : i < j => s[i] < s[j]
HeadersIncrease(s) ==
    \A i, j \in 1 .. Len(s) :
      i < j /\ s[i].part = "header" /\ s[j].part = "header" /\ s[j].req # Unasked
        => s[i].req < s[j].req

Sent == InQueue(sendQueue) \cup InQueue(toServer) \cup Headers(toClient)
Flying == Sent \cup ({header} \cap Requests)
Afloat == Flying \cup ({held} \cap Requests)
Taken(r) == future[r] # "none"

\* Once a request was taken, command processing leaves no entry behind when it ends or
\* is about to: nobody is given an answer any more.
QuietInv ==
    /\ "state_machine" \notin tasks /\ tasks # {} => pending = NoPending
    /\ "state_machine" \in tasks /\ sm = "wait" /\ future[current] = "cancelled"
         => pending = NoPending

\* Requests are taken in the order they were queued in, and command processing waits for
\* the last one that was taken.
TakenInv ==
    /\ \A r \in Requests : Taken(r) => r <= queued
    /\ Increasing(cmdQueue)
    /\ \A x \in InQueue(cmdQueue) : ~Taken(x) /\ \A r \in Requests : Taken(r) => r < x
    /\ "state_machine" \in tasks /\ sm # "poll" => /\ current # 0
                                                   /\ \A r \in Requests : Taken(r) => r <= current

\* What was taken stands in line: the queue of the writer behind what is on its way to the
\* console, that behind the answers on their way back, those behind the header the reader
\* holds, and all of it behind the answers that were given.
LineInv ==
    /\ Increasing(sendQueue) /\ Increasing(toServer) /\ HeadersIncrease(toClient)
    /\ \A x \in Flying : Taken(x) /\ \A r \in Requests : got[r] < x
    /\ \A r \in Requests : got[r] \in Requests => Taken(got[r])
    /\ \A x \in Sent : header < x
    /\ \A x \in InQueue(sendQueue), y \in InQueue(toServer) : y < x
    /\ \A x \in InQueue(sendQueue) \cup InQueue(toServer), y \in Headers(toClient) : y < x

\* What the console's sender still holds for an earlier connection stands between.
HeldInv ==
    held \in Requests =>
      /\ Taken(held) /\ header < held /\ \A r \in Requests : got[r] < held
      /\ \A x \in Headers(toClient) : x < held
      /\ \A x \in InQueue(toServer) \cup InQueue(sendQueue) : held < x

\* What the futures and the outcomes say of each other.
Ended(r) == outcome[r] \in {"answered", "timeout", "cancelled"}
AnswerInv ==
    /\ \A r \in Requests : got[r] # 0 <=> future[r] = "done"
    /\ \A r \in Requests : outcome[r] = "answered" => future[r] = "done"
    /\ \A r \in Requests : Ended(r) \/ outcome[r] = "waiting" => Taken(r)

\* While a session processes commands, all that is in flight, but the request it waits for,
\* was answered, timed out, or was cancelled with an earlier session, whose connection it
\* comes from.
Resolved(r) == outcome[r] \in {"answered", "timeout"}
Leftover(r) == outcome[r] = "cancelled" /\ r \notin sentNow /\ r \notin InQueue(sendQueue)
Settled(r) == Resolved(r) \/ Leftover(r)
ResolvedInv ==
    /\ stage # "up" => sentNow = {}
    /\ stage = "inited" => \A x \in Afloat : Settled(x)
    /\ "state_machine" \in tasks =>
         /\ sm # "poll" => outcome[current] = "waiting" /\ Taken(current)
         /\ \A x \in Afloat : x # current \/ sm = "poll" => Settled(x)

\* A request that was taken has ended unless command processing waits for it.
GoneInv ==
    \A r \in Requests : Taken(r) =>
        Ended(r) \/ ("state_machine" \in tasks /\ sm # "poll" /\ r = current)
-----------------------------------------------------------------------------
(* What taking from a queue and adding to one does to the order in it.     *)

LEMMA TailKeepsOrder ==
    ASSUME NEW s \in Seq(Nat), s # <<>>, Increasing(s)
    PROVE  /\ Head(s) \in InQueue(s) /\ InQueue(Tail(s)) \subseteq InQueue(s)
           /\ Increasing(Tail(s))
           /\ \A x \in InQueue(Tail(s)) : Head(s) < x
<1>1. /\ Len(s) \in Nat \ {0} /\ Head(s) = s[1] /\ Tail(s) \in Seq(Nat)
      /\ Len(Tail(s)) = Len(s) - 1 /\ \A i \in 1 .. Len(Tail(s)) : Tail(s)[i] = s[i + 1]
  BY HeadTailProperties, EmptySeq, LenProperties
<1> HIDE DEF Increasing, InQueue
<1>2. \A i \in 1 .. Len(Tail(s)) : i + 1 \in 1 .. Len(s)
  BY <1>1
<1>3. Head(s) \in InQueue(s) /\ InQueue(Tail(s)) \subseteq InQueue(s)
  BY <1>1, <1>2 DEF InQueue
<1>4. Increasing(Tail(s))
  BY <1>1, <1>2 DEF Increasing
<1>5. \A x \in InQueue(Tail(s)) : Head(s) < x
  BY <1>1, <1>2 DEF Increasing, InQueue
<1> QED BY <1>3, <1>4, <1>5

LEMMA AppendKeepsOrder ==
    ASSUME NEW s \in Seq(Nat), NEW e \in Nat, Increasing(s), \A x \in InQueue(s) : x < e
    PROVE  InQueue(Append(s, e)) = InQueue(s) \cup {e} /\ Increasing(Append(s, e))
<1>1. /\ Len(Append(s, e)) = Len(s) + 1 /\ Len(s) \in Nat
      /\ \A i \in 1 .. Len(s) : Append(s, e)[i] = s[i]
      /\ Append(s, e)[Len(s) + 1] = e
  BY AppendProperties, LenProperties
<1>2. InQueue(Append(s, e)) = InQueue(s) \cup {e}
  <2>1. 1 .. Len(s) + 1 = 1 .. Len(s) \cup {Len(s) + 1}
    BY <1>1
  <2> QED BY <1>1, <2>1 DEF InQueue
<1>3. Increasing(Append(s, e))
  BY <1>1 DEF Increasing, InQueue
<1> QED BY <1>2, <1>3

AllParts == [part : {"header", "payload"}, req : {Unasked} \cup Requests]

LEMMA SuffixKeepsOrder ==
    ASSUME NEW s \in Seq(AllParts), NEW k \in 1 .. Len(s), HeadersIncrease(s)
    PROVE  /\ Headers(SubSeq(s, k + 1, Len(s))) \subseteq Headers(s)
           /\ HeadersIncrease(SubSeq(s, k + 1, Len(s)))
           /\ k = 1 /\ Head(s).part = "header" =>
                /\ Head(s).req \in {Unasked} \cup Headers(s)
                /\ \A x \in Headers(SubSeq(s, k + 1, Len(s))) : Head(s).req < x
<1> DEFINE t == SubSeq(s, k + 1, Len(s))
<1>1. Len(s) \in Nat /\ Len(t) = Len(s) - k /\ \A i \in 1 .. Len(t) : t[i] = s[i + k]
  <2>1. \A i \in k + 1 .. Len(s) : s[i] \in AllParts
    BY LenProperties, ElementOfSeq
  <2> QED BY <2>1, SubSeqProperties, LenProperties
<1>2. \A i \in 1 .. Len(t) : i + k \in 1 .. Len(s)
  BY <1>1
<1>3. Head(s) = s[1] /\ 1 \in 1 .. Len(s)
  BY <1>1
<1> HIDE DEF t
<1>4. Headers(t) \subseteq Headers(s)
  BY <1>1, <1>2 DEF Headers
<1>5. HeadersIncrease(t)
  BY <1>1, <1>2 DEF HeadersIncrease
<1>6. ASSUME k = 1, Head(s).part = "header"
      PROVE  /\ Head(s).req \in {Unasked} \cup Headers(s)
             /\ \A x \in Headers(t) : Head(s).req < x
  <2>1. Head(s).req \in {Unasked} \cup Headers(s)
    BY <1>3, <1>6 DEF Headers
  <2>2. ASSUME NEW x \in Headers(t) PROVE Head(s).req < x
    <3>1. PICK i \in 1 .. Len(t) : t[i].part = "header" /\ t[i].req = x
      BY DEF Headers
    <3>2. x # Unasked
      BY DEF Headers
    <3>3. s[i + 1] = t[i] /\ i + 1 \in 1 .. Len(s) /\ 1 < i + 1
      BY <1>1, <1>2, <1>6
    <3> QED BY <1>3, <1>6, <3>1, <3>2, <3>3 DEF HeadersIncrease
  <2> QED BY <2>1, <2>2
<1> QED BY <1>4, <1>5, <1>6 DEF t

LEMMA PartKeepsOrder ==
    ASSUME NEW s \in Seq(AllParts), NEW p \in AllParts, HeadersIncrease(s),
           p.part = "header" /\ p.req # Unasked => \A x \in Headers(s) : x < p.req
    PROVE  /\ Headers(Append(s, p)) \subseteq
                Headers(s) \cup (IF p.part = "header" THEN {p.req} \ {Unasked} ELSE {})
           /\ HeadersIncrease(Append(s, p))
<1> DEFINE t == Append(s, p)
<1>1. /\ Len(t) = Len(s) + 1 /\ Len(s) \in Nat
      /\ \A i \in 1 .. Len(s) : t[i] = s[i]
      /\ t[Len(s) + 1] = p
  BY AppendProperties, LenProperties
<1>2. \A i \in 1 .. Len(t) : i \in 1 .. Len(s) \/ i = Len(s) + 1
  BY <1>1
<1> HIDE DEF t
<1>3. ASSUME NEW x \in Headers(t)
      PROVE  x \in Headers(s) \cup (IF p.part = "header" THEN {p.req} \ {Unasked} ELSE {})
  <2>1. PICK i \in 1 .. Len(t) : t[i].part = "header" /\ t[i].req = x /\ x # Unasked
    BY DEF Headers
  <2>2. CASE i \in 1 .. Len(s)
    BY <1>1, <2>1, <2>2 DEF Headers
  <2>3. CASE i = Len(s) + 1
    BY <1>1, <2>1, <2>3
  <2> QED BY <1>2, <2>2, <2>3
<1>4. ASSUME NEW i \in 1 .. Len(t), NEW j \in 1 .. Len(t), i < j, t[i].part = "header",
             t[j].part = "header", t[j].req # Unasked
      PROVE  t[i].req < t[j].req
  <2>1. i \in 1 .. Len(s) /\ t[i] = s[i]
    BY <1>1, <1>2, <1>4
  <2>2. CASE j \in 1 .. Len(s)
    BY <1>1, <1>4, <2>1, <2>2 DEF HeadersIncrease
  <2>3. CASE j = Len(s) + 1
    <3>1. t[j] = p
      BY <1>1, <2>3
    <3>2. CASE s[i].req = Unasked
      BY <1>4, <2>1, <3>1, <3>2 DEF AllParts, Unasked, Requests
    <3>3. CASE s[i].req # Unasked
      <4>1. s[i].req \in Headers(s)
        BY <1>4, <2>1, <3>3 DEF Headers
      <4> QED BY <1>4, <2>1, <3>1, <4>1
    <3> QED BY <3>2, <3>3
  <2> QED BY <1>2, <2>2, <2>3
<1> QED BY <1>3, <1>4 DEF HeadersIncrease, t

\* An answer joins the line with its header, its payload or both.
LEMMA FrameKeepsOrder ==
    ASSUME NEW s \in Seq(AllParts), NEW r \in {Unasked} \cup Requests, HeadersIncrease(s),
           r # Unasked => \A x \in Headers(s) : x < r
    PROVE  /\ Headers(s \o Frame(r)) \subseteq Headers(s) \cup ({r} \ {Unasked})
           /\ HeadersIncrease(s \o Frame(r))
           /\ Headers(Append(s, Frame(r)[1])) \subseteq Headers(s) \cup ({r} \ {Unasked})
           /\ HeadersIncrease(Append(s, Frame(r)[1]))
<1> DEFINE h == [part |-> "header", req |-> r]
           p == [part |-> "payload", req |-> r]
<1>1. h \in AllParts /\ p \in AllParts
  BY DEF AllParts
<1>2. Frame(r)[1] = h /\ s \o Frame(r) = Append(Append(s, h), p)
  BY <1>1 DEF Frame
<1>3. Append(s, h) \in Seq(AllParts)
  BY <1>1, AppendProperties
<1>4. /\ Headers(Append(s, h)) \subseteq Headers(s) \cup ({r} \ {Unasked})
      /\ HeadersIncrease(Append(s, h))
  BY <1>1, PartKeepsOrder
<1>5. /\ Headers(Append(Append(s, h), p)) \subseteq Headers(Append(s, h))
      /\ HeadersIncrease(Append(Append(s, h), p))
  BY <1>1, <1>3, <1>4, PartKeepsOrder
<1> QED BY <1>2, <1>4, <1>5

-----------------------------------------------------------------------------
(* The line of requests, step by step.                                     *)

LEMMA LineTypes ==
    ASSUME PartsInv
    PROVE  /\ Requests \subseteq Nat \ {0} /\ Made \subseteq Requests
           /\ cmdQueue \in Seq(Nat) /\ sendQueue \in Seq(Nat) /\ toServer \in Seq(Nat)
           /\ InQueue(cmdQueue) \subseteq Made /\ InQueue(sendQueue) \subseteq Requests
           /\ InQueue(toServer) \subseteq Requests
           /\ toClient \in Seq(AllParts) /\ Headers(toClient) \subseteq Requests
           /\ header \in {NoHeader, Unasked} \cup Requests
           /\ RequestTypeOK /\ TaskTypeOK
<1> USE ClientAssumption
<1>1. Requests \subseteq Nat \ {0} /\ Made \subseteq Requests
  BY DEF PartsInv, TaskTypeOK, Made, Requests
<1>2. cmdQueue \in Seq(Nat) /\ sendQueue \in Seq(Nat) /\ toServer \in Seq(Nat)
  BY <1>1, SeqMonotonic DEF PartsInv, QueueInv
<1>3. /\ InQueue(cmdQueue) \subseteq Made /\ InQueue(sendQueue) \subseteq Requests
      /\ InQueue(toServer) \subseteq Requests
  <2>1. ASSUME NEW s \in Seq(Made) PROVE InQueue(s) \subseteq Made
    BY ElementOfSeq DEF InQueue
  <2> QED BY <1>1, <2>1 DEF PartsInv, QueueInv
<1>4. Parts \subseteq AllParts
  BY <1>1 DEF Parts, AllParts
<1>5. toClient \in Seq(AllParts)
  BY <1>4, SeqMonotonic DEF PartsInv, StreamInv
<1>6. Headers(toClient) \subseteq Requests
  <2>1. \A i \in 1 .. Len(toClient) : toClient[i] \in AllParts
    BY <1>5, ElementOfSeq
  <2> QED BY <2>1 DEF Headers, AllParts
<1> QED BY <1>1, <1>2, <1>3, <1>5, <1>6 DEF PartsInv, StreamInv

LEMMA EmptyInOrder ==
    /\ InQueue(<<>>) = {} /\ Increasing(<<>>)
    /\ Headers(<<>>) = {} /\ HeadersIncrease(<<>>)
BY DEF InQueue, Increasing, Headers, HeadersIncrease

\* What only loses from the line leaves it in order.
LEMMA LineShrinks ==
    ASSUME PartsInv, LineInv, HeldInv, got' = got,
           \A r \in Requests : Taken(r) => Taken(r)',
           sendQueue' \in {sendQueue, <<>>}, toServer' \in {toServer, <<>>},
           toClient' \in {toClient, <<>>}, header' \in {header, NoHeader},
           \/ held' \in {held, NoHeader, Rest}
           \/ held' \in InQueue(toServer) /\ toServer' = <<>>
    PROVE  LineInv' /\ HeldInv' /\ Afloat' \subseteq Afloat
<1>1. /\ InQueue(sendQueue') \subseteq InQueue(sendQueue) /\ Increasing(sendQueue')
      /\ InQueue(toServer') \subseteq InQueue(toServer) /\ Increasing(toServer')
      /\ Headers(toClient') \subseteq Headers(toClient) /\ HeadersIncrease(toClient')
  BY EmptyInOrder DEF LineInv
<1>2. Sent' \subseteq Sent /\ Flying' \subseteq Flying
  BY <1>1 DEF Sent, Flying, NoHeader, Requests
<1>3. Flying \subseteq Requests /\ Sent \subseteq Requests /\ Requests \subseteq Nat \ {0}
  BY LineTypes DEF Sent, Flying
<1>4. \A x \in Flying' : Taken(x)' /\ \A r \in Requests : got'[r] < x
  BY <1>2, <1>3 DEF LineInv
<1>5. \A x \in Sent' : header' < x
  BY <1>2, <1>3 DEF LineInv, NoHeader
<1>6. LineInv'
  BY <1>1, <1>2, <1>4, <1>5 DEF LineInv
<1>7. NoHeader \notin Requests /\ Rest \notin Requests
  BY <1>3 DEF NoHeader, Rest
<1>8. Afloat' \subseteq Afloat
  BY <1>2, <1>7 DEF Afloat, Flying, Sent
<1>9. CASE held' = held
  <2>1. HeldInv'
    <3> SUFFICES ASSUME held \in Requests
                 PROVE  /\ future'[held] # "none" /\ header' < held
                        /\ \A r \in Requests : got'[r] < held
                        /\ \A x \in Headers(toClient') : x < held
                        /\ \A x \in InQueue(toServer') \cup InQueue(sendQueue') : held < x
      BY <1>9 DEF HeldInv, Taken
    <3>1. future'[held] # "none" /\ \A r \in Requests : got'[r] < held
      BY DEF HeldInv, Taken
    <3>2. header' < held
      BY <1>3 DEF HeldInv, NoHeader
    <3> QED BY <1>1, <3>1, <3>2 DEF HeldInv
  <2> QED BY <1>6, <1>8, <2>1
<1>10. CASE held' \in {NoHeader, Rest}
  BY <1>6, <1>7, <1>8, <1>10 DEF HeldInv, Taken
<1>11. CASE held' \in InQueue(toServer) /\ toServer' = <<>>
  <2>1. held' \in Sent /\ held' \in Flying /\ InQueue(toServer') = {}
    BY <1>11, EmptyInOrder DEF Sent, Flying
  <2>2. future'[held'] # "none" /\ \A r \in Requests : got'[r] < held'
    BY <1>3, <2>1 DEF LineInv, Taken
  <2>3. header' < held'
    BY <1>3, <2>1 DEF LineInv, NoHeader
  <2>4. /\ \A x \in Headers(toClient') : x < held'
        /\ \A x \in InQueue(toServer') \cup InQueue(sendQueue') : held' < x
    BY <1>1, <1>11, <2>1 DEF LineInv
  <2> QED BY <1>6, <1>8, <2>2, <2>3, <2>4 DEF HeldInv, Taken
<1> QED BY <1>6, <1>8, <1>9, <1>10, <1>11

\* What the sender holds keeps its place while others move before and behind it.
LEMMA HeldKept ==
    ASSUME PartsInv, HeldInv, held' = held, Flying' \subseteq Flying,
           \A r \in Requests : Taken(r) => Taken(r)',
           \A r \in Requests : got'[r] \in {got[r], Garbage, header},
           header' \in {header, NoHeader, Unasked} \cup Headers(toClient),
           Headers(toClient') \subseteq Headers(toClient),
           InQueue(toServer') \subseteq InQueue(toServer) \cup InQueue(sendQueue),
           InQueue(sendQueue') \subseteq InQueue(sendQueue)
    PROVE  HeldInv' /\ Afloat' \subseteq Afloat
<1>1. Requests \subseteq Nat \ {0}
  BY LineTypes
<1>2. ASSUME held \in Requests
      PROVE  /\ Taken(held)' /\ header' < held /\ \A r \in Requests : got'[r] < held
             /\ \A x \in Headers(toClient') : x < held
             /\ \A x \in InQueue(toServer') \cup InQueue(sendQueue') : held < x
  <2>1. Taken(held)' /\ header' < held
    BY <1>1, <1>2 DEF HeldInv, NoHeader, Unasked
  <2>2. \A r \in Requests : got'[r] < held
    BY <1>1, <1>2 DEF HeldInv, Garbage
  <2> QED BY <1>2, <2>1, <2>2 DEF HeldInv
<1> QED BY <1>2 DEF HeldInv, Taken, Afloat

\* A future changes from none when its request is taken, and from open for ever.
LEMMA FutureStep ==
    ASSUME PartsInv, TakenInv, ClientNext
    PROVE  /\ \A r \in Requests : Taken(r) => Taken(r)'
           /\ \A r \in Requests : future[r] = "done" => future'[r] = "done"
           /\ \/ \A r \in Requests : Taken(r)' => Taken(r)
              \/ send_command
<1> USE ClientAssumption
<1> USE DEF Taken, guiVars, threadVars, groupVars, smVars, readVars, queueVars, pendVars,
   wireVars
<1>0. future \in [Requests -> {"none", "open", "done", "cancelled"}]
  BY DEF PartsInv, RequestTypeOK
<1> DEFINE Kept == /\ \A r \in Requests : Taken(r) => Taken(r)'
                   /\ \A r \in Requests : future[r] = "done" => future'[r] = "done"
                   /\ (\A r \in Requests : Taken(r)' => Taken(r)) \/ send_command
<1>1. CASE RestartProgram
  BY <1>1, <1>0 DEF RestartProgram
<1>2. CASE QueueCommand
  BY <1>2 DEF QueueCommand
<1>3. CASE Start
  BY <1>3 DEF Start
<1>4. CASE Stop
  BY <1>4 DEF Stop
<1>5. CASE DrainTest
  BY <1>5 DEF DrainTest
<1>6. CASE DrainTake
  BY <1>6 DEF DrainTake
<1>7. CASE JoinerEnds
  BY <1>7 DEF JoinerEnds
<1>8. CASE BeginLoop
  BY <1>8 DEF BeginLoop
<1>9. CASE init_async
  BY <1>9 DEF init_async
<1>10. CASE CreateTasks
  BY <1>10 DEF CreateTasks
<1>11. CASE RunPosted
  BY <1>11 DEF RunPosted
<1>12. CASE TaskGroupAborts
  BY <1>12, <1>0 DEF TaskGroupAborts, CloseConnection, reset_connection_state, CancelPending
<1>13. CASE ThreadEnds
  BY <1>13 DEF ThreadEnds
<1>14. ASSUME NEW t \in Tasks, SeesShutdown(t) PROVE Kept
  BY <1>14 DEF SeesShutdown, TaskEnds
<1>15. CASE Connected
  BY <1>15 DEF Connected
<1>16. CASE ConnectionRefused
  BY <1>16 DEF ConnectionRefused
<1>17. CASE Reconnect
  BY <1>17, <1>0 DEF Reconnect, CloseConnection, reset_connection_state, CancelPending, TaskEnds
<1>18. CASE Disconnect
  BY <1>18, <1>0 DEF Disconnect, CloseConnection, reset_connection_state, CancelPending,
     TaskEnds, TaskFails
<1>19. CASE send_command
  <2>1. Head(cmdQueue) \in InQueue(cmdQueue)
    BY <1>19, LineTypes, TailKeepsOrder DEF send_command, TakenInv
  <2>2. future[Head(cmdQueue)] = "none"
    BY <2>1 DEF TakenInv
  <2>3. future' = [future EXCEPT ![Head(cmdQueue)] = "open"]
    BY <1>19 DEF send_command
  <2> QED BY <1>0, <1>19, <2>2, <2>3
<1>20. CASE Answered
  BY <1>20 DEF Answered
<1>21. CASE TimeoutFires
  BY <1>21, <1>0 DEF TimeoutFires
<1>22. CASE GiveUp
  BY <1>22 DEF GiveUp
<1>23. CASE AwaitCancelled
  BY <1>23 DEF AwaitCancelled, TaskEnds
<1>24. CASE writer_loop
  BY <1>24 DEF writer_loop, TaskFails
<1>25. CASE ReadHeader
  BY <1>25 DEF ReadHeader
<1>26. CASE ReadPayload
  BY <1>26, <1>0 DEF ReadPayload, Deliver, TaskFails
<1>27. CASE PayloadTimeout
  BY <1>27 DEF PayloadTimeout
<1>28. CASE ReadGarbage
  BY <1>28, <1>0 DEF ReadGarbage, Deliver, TaskFails
<1>29. CASE ReaderBreaks
  BY <1>29 DEF ReaderBreaks, TaskFails
<1>30. CASE ServerAnswers
  BY <1>30 DEF ServerAnswers
<1>31. CASE ServerSendsUnasked
  BY <1>31 DEF ServerSendsUnasked
<1>32. CASE ServerCloses
  BY <1>32 DEF ServerCloses
<1>33. CASE ServerSendsHeld
  BY <1>33 DEF ServerSendsHeld
<1> QED BY <1>1, <1>2, <1>3, <1>4, <1>5, <1>6, <1>7, <1>8, <1>9, <1>10, <1>11, <1>12, <1>13,
   <1>14, <1>15, <1>16, <1>17, <1>18, <1>19, <1>20, <1>21, <1>22, <1>23, <1>24, <1>25, <1>26,
   <1>27, <1>28, <1>29, <1>30, <1>31, <1>32, <1>33
   DEF ClientNext, User, ParameterRaises, StopRaises, Drain, DrainRaises, Thread,
       connection_loop, state_machine, reader_loop, Console

LEMMA SendSteps ==
    ASSUME PartsInv, TakenInv, LineInv, HeldInv, send_command
    PROVE  LineInv' /\ HeldInv' /\ Afloat' \subseteq Afloat \cup {Head(cmdQueue)}
<1> DEFINE r == Head(cmdQueue)
<1>1. r \in InQueue(cmdQueue) /\ r \in Requests
  BY LineTypes, TailKeepsOrder DEF send_command, TakenInv
<1>2. future' = [future EXCEPT ![r] = "open"] /\ sendQueue' = Append(sendQueue, r)
  BY DEF send_command
<1>3. UNCHANGED <<toServer, toClient, header, got, held>>
  BY DEF send_command, readVars, wireVars
<1>4. Flying \subseteq Requests /\ Requests \subseteq Nat \ {0} /\ sendQueue \in Seq(Nat)
      /\ InQueue(sendQueue) \subseteq Flying
  BY LineTypes DEF Sent, Flying
<1>5. \A x \in Flying : x < r
  BY <1>1, <1>4 DEF TakenInv, LineInv
<1>6. InQueue(sendQueue') = InQueue(sendQueue) \cup {r} /\ Increasing(sendQueue')
  BY <1>1, <1>2, <1>4, <1>5, AppendKeepsOrder DEF LineInv
<1> HIDE DEF r
<1>7. Sent' = Sent \cup {r} /\ Flying' = Flying \cup {r}
  BY <1>3, <1>6 DEF Sent, Flying
<1>8. \A x \in Requests : Taken(x) \/ x = r => Taken(x)'
  BY <1>1, <1>2 DEF Taken, PartsInv, RequestTypeOK
<1>9. \A q \in Requests : got[q] < r
  <2>1. \A q \in Requests : got[q] \in {Garbage, 0} \cup Requests
    BY DEF PartsInv, RequestTypeOK
  <2>2. \A q \in Requests : got[q] \in Requests => got[q] < r
    BY <1>1 DEF LineInv, TakenInv
  <2> QED BY <1>1, <1>4, <2>1, <2>2 DEF Garbage
<1>10. header < r
  <2>1. CASE header \in Requests
    BY <1>5, <2>1 DEF Flying
  <2>2. CASE header \notin Requests
    BY <1>1, <1>4, <2>2, LineTypes DEF NoHeader, Unasked
  <2> QED BY <2>1, <2>2
<1>11. \A x \in Flying' : Taken(x)' /\ \A q \in Requests : got'[q] < x
  BY <1>1, <1>3, <1>4, <1>7, <1>8, <1>9 DEF LineInv
<1>12. \A q \in Requests : got'[q] \in Requests => future'[got'[q]] # "none"
  BY <1>3, <1>8 DEF LineInv, Taken
<1>13. \A x \in Sent' : header' < x
  BY <1>3, <1>7, <1>10 DEF LineInv
<1>14. /\ \A x \in InQueue(sendQueue'), y \in InQueue(toServer') : y < x
       /\ \A x \in InQueue(sendQueue') \cup InQueue(toServer'), y \in Headers(toClient') : y < x
  BY <1>3, <1>5, <1>6 DEF LineInv, Flying, Sent
<1>15. LineInv'
  BY <1>3, <1>6, <1>7, <1>11, <1>12, <1>13, <1>14 DEF LineInv, Taken
<1>16. held \in Requests => held < r
  BY <1>1 DEF HeldInv, TakenInv
<1>17. HeldInv'
  BY <1>3, <1>6, <1>8, <1>16 DEF HeldInv, Taken
<1>18. Afloat' \subseteq Afloat \cup {r}
  BY <1>3, <1>7 DEF Afloat
<1> QED BY <1>15, <1>17, <1>18 DEF r

LEMMA WriterSteps ==
    ASSUME PartsInv, LineInv, HeldInv, writer_loop
    PROVE  LineInv' /\ HeldInv' /\ Afloat' \subseteq Afloat
<1> DEFINE r == Head(sendQueue)
<1>1. /\ sendQueue' = Tail(sendQueue) /\ sendQueue # <<>>
      /\ toServer' \in {toServer, Append(toServer, r)}
      /\ UNCHANGED <<toClient, header, got, future, held>>
  BY DEF writer_loop, readVars, pendVars
<1>2. /\ r \in InQueue(sendQueue) /\ InQueue(sendQueue') \subseteq InQueue(sendQueue)
      /\ Increasing(sendQueue') /\ \A x \in InQueue(sendQueue') : r < x
  BY <1>1, LineTypes, TailKeepsOrder DEF LineInv
<1>3. r \in Nat /\ toServer \in Seq(Nat)
  BY <1>2, LineTypes
<1>4. InQueue(toServer') \subseteq InQueue(toServer) \cup {r} /\ Increasing(toServer')
  BY <1>1, <1>2, <1>3, AppendKeepsOrder DEF LineInv
<1> HIDE DEF r
<1>5. Sent' \subseteq Sent /\ Flying' \subseteq Flying
  BY <1>1, <1>2, <1>4 DEF Sent, Flying
<1>6. \A x \in Flying' : Taken(x)' /\ \A q \in Requests : got'[q] < x
  BY <1>1, <1>5 DEF LineInv, Taken
<1>7. \A q \in Requests : got'[q] \in Requests => future'[got'[q]] # "none"
  BY <1>1 DEF LineInv, Taken
<1>8. \A x \in Sent' : header' < x
  BY <1>1, <1>5 DEF LineInv
<1>9. /\ \A x \in InQueue(sendQueue'), y \in InQueue(toServer') : y < x
      /\ \A x \in InQueue(sendQueue') \cup InQueue(toServer'), y \in Headers(toClient') : y < x
  BY <1>1, <1>2, <1>4 DEF LineInv
<1>10. LineInv'
  BY <1>1, <1>2, <1>4, <1>5, <1>6, <1>7, <1>8, <1>9 DEF LineInv, Taken
<1>11. InQueue(toServer') \subseteq InQueue(toServer) \cup InQueue(sendQueue)
  BY <1>2, <1>4
<1>12. (\A q \in Requests : Taken(q) => Taken(q)') /\ Headers(toClient') = Headers(toClient)
  BY <1>1 DEF Taken
<1> QED BY <1>1, <1>2, <1>5, <1>10, <1>11, <1>12, HeldKept

\* Reading takes parts from the front of the stream; an answer given out is the one whose
\* header was held, or garbage.
LEMMA ReadSteps ==
    ASSUME PartsInv, LineInv, HeldInv, NEW k \in 1 .. Len(toClient),
           toClient' = SubSeq(toClient, k + 1, Len(toClient)),
           UNCHANGED <<sendQueue, toServer, held>>,
           \A r \in Requests : Taken(r) => Taken(r)',
           \A r \in Requests : got'[r] # got[r] =>
             got'[r] = Garbage \/ (got'[r] = header /\ header' = NoHeader),
           \/ header' \in {header, NoHeader}
           \/ /\ k = 1 /\ Head(toClient).part = "header" /\ header' = Head(toClient).req
              /\ header = NoHeader
    PROVE  LineInv' /\ HeldInv' /\ Afloat' \subseteq Afloat
<1>1. /\ Headers(toClient') \subseteq Headers(toClient) /\ HeadersIncrease(toClient')
      /\ k = 1 /\ Head(toClient).part = "header" =>
           /\ Head(toClient).req \in {Unasked} \cup Headers(toClient)
           /\ \A x \in Headers(toClient') : Head(toClient).req < x
  BY LineTypes, SuffixKeepsOrder DEF LineInv
<1>2. /\ InQueue(sendQueue') = InQueue(sendQueue) /\ InQueue(toServer') = InQueue(toServer)
      /\ Increasing(sendQueue') /\ Increasing(toServer')
  BY DEF LineInv
<1>3. /\ Sent \subseteq Flying /\ Flying \subseteq Requests /\ Requests \subseteq Nat \ {0}
      /\ NoHeader \notin Requests /\ Unasked \notin Requests /\ Garbage \notin Requests
  BY LineTypes DEF Sent, Flying, NoHeader, Unasked, Garbage
<1>4. Sent' \subseteq Sent
  BY <1>1, <1>2 DEF Sent
<1>5. header' \in {header, NoHeader, Unasked} \cup Headers(toClient)
  BY <1>1
<1>6. Flying' \subseteq Flying
  BY <1>3, <1>4, <1>5 DEF Sent, Flying
<1>7. \A x \in Sent' : header' < x
  <2>1. CASE header' \in {header, NoHeader}
    BY <1>3, <1>4, <2>1 DEF LineInv, NoHeader
  <2>2. CASE header' = Head(toClient).req /\ k = 1 /\ Head(toClient).part = "header"
    <3>1. \A x \in Headers(toClient') : header' < x
      BY <1>1, <2>2
    <3>2. CASE header' = Unasked
      BY <1>3, <1>4, <3>2 DEF Unasked
    <3>3. CASE header' \in Headers(toClient)
      BY <1>2, <3>1, <3>3 DEF LineInv, Sent
    <3> QED BY <1>1, <2>2, <3>2, <3>3
  <2> QED BY <2>1, <2>2
<1>8. \A x \in Flying', q \in Requests : got'[q] < x
  <2> SUFFICES ASSUME NEW x \in Flying', NEW q \in Requests PROVE got'[q] < x
    OBVIOUS
  <2>1. x \in Flying /\ x \in Nat \ {0}
    BY <1>3, <1>6
  <2>2. CASE got'[q] = got[q]
    BY <2>1, <2>2 DEF LineInv
  <2>3. CASE got'[q] = Garbage
    BY <2>1, <2>3 DEF Garbage
  <2>4. CASE got'[q] = header /\ header' = NoHeader
    <3>1. x \in Sent
      BY <1>3, <1>4, <2>4 DEF Flying
    <3> QED BY <2>4, <3>1 DEF LineInv
  <2> QED BY <2>2, <2>3, <2>4
<1>9. \A q \in Requests : got'[q] \in Requests => future'[got'[q]] # "none"
  <2> SUFFICES ASSUME NEW q \in Requests, got'[q] \in Requests PROVE future'[got'[q]] # "none"
    OBVIOUS
  <2>1. CASE got'[q] = got[q]
    BY <2>1 DEF LineInv, Taken
  <2>2. CASE got'[q] # got[q]
    BY <1>3, <2>2 DEF LineInv, Flying, Taken
  <2> QED BY <2>1, <2>2
<1>10. \A x \in Flying' : Taken(x)'
  BY <1>3, <1>6 DEF LineInv
<1>11. /\ \A x \in InQueue(sendQueue'), y \in InQueue(toServer') : y < x
       /\ \A x \in InQueue(sendQueue') \cup InQueue(toServer'), y \in Headers(toClient') : y < x
  BY <1>1, <1>2 DEF LineInv
<1>12. LineInv'
  BY <1>1, <1>2, <1>6, <1>7, <1>8, <1>9, <1>10, <1>11 DEF LineInv, Taken
<1>13. \A r \in Requests : got'[r] \in {got[r], Garbage, header}
  OBVIOUS
<1> QED BY <1>1, <1>2, <1>5, <1>6, <1>12, <1>13, HeldKept

\* The console answers the first request of those that have reached it, or sends a packet
\* of its own.
LEMMA ConsoleSteps ==
    ASSUME PartsInv, LineInv, NEW r \in {Unasked} \cup Requests,
           r # Unasked => r \in InQueue(toServer),
           toClient' \in {toClient, toClient \o Frame(r), Append(toClient, Frame(r)[1])},
           \/ toServer' \in {toServer, <<>>} /\ (r = Unasked \/ toServer' = <<>>)
           \/ toServer # <<>> /\ r = Head(toServer) /\ toServer' = Tail(toServer),
           UNCHANGED <<sendQueue, header, got, future>>
    PROVE  LineInv' /\ Flying' \subseteq Flying
<1>1. /\ Sent \subseteq Flying /\ Flying \subseteq Requests /\ Requests \subseteq Nat \ {0}
      /\ Unasked \notin Requests
  BY LineTypes DEF Sent, Flying, Unasked
<1>2. r # Unasked => r \in Sent /\ \A x \in Headers(toClient) : x < r
  BY DEF Sent, LineInv
<1>3. Headers(toClient') \subseteq Headers(toClient) \cup ({r} \ {Unasked})
      /\ HeadersIncrease(toClient')
  <2>1. toClient \in Seq(AllParts) /\ HeadersIncrease(toClient)
    BY LineTypes DEF LineInv
  <2>2. /\ Headers(toClient \o Frame(r)) \subseteq Headers(toClient) \cup ({r} \ {Unasked})
        /\ HeadersIncrease(toClient \o Frame(r))
        /\ Headers(Append(toClient, Frame(r)[1])) \subseteq Headers(toClient) \cup ({r} \ {Unasked})
        /\ HeadersIncrease(Append(toClient, Frame(r)[1]))
    BY <1>2, <2>1, FrameKeepsOrder
  <2> QED BY <2>1, <2>2
<1>4. /\ InQueue(toServer') \subseteq InQueue(toServer) /\ Increasing(toServer')
      /\ r # Unasked => \A x \in InQueue(toServer') : r < x
  <2>1. CASE toServer' \in {toServer, <<>>} /\ (r = Unasked \/ toServer' = <<>>)
    BY <2>1, EmptyInOrder DEF LineInv
  <2>2. CASE toServer # <<>> /\ r = Head(toServer) /\ toServer' = Tail(toServer)
    BY <2>2, LineTypes, TailKeepsOrder DEF LineInv
  <2> QED BY <2>1, <2>2
<1>5. Sent' \subseteq Sent /\ Flying' \subseteq Flying
  BY <1>2, <1>3, <1>4 DEF Sent, Flying
<1>6. \A x \in Flying' : Taken(x)' /\ \A q \in Requests : got'[q] < x
  BY <1>5 DEF LineInv, Taken
<1>7. \A q \in Requests : got'[q] \in Requests => future'[got'[q]] # "none"
  BY DEF LineInv, Taken
<1>8. \A x \in Sent' : header' < x
  BY <1>5 DEF LineInv
<1>9. \A x \in InQueue(sendQueue'), y \in InQueue(toServer') : y < x
  BY <1>4 DEF LineInv
<1>10. \A x \in InQueue(sendQueue') \cup InQueue(toServer'), y \in Headers(toClient') : y < x
  <2> SUFFICES ASSUME NEW x \in InQueue(sendQueue') \cup InQueue(toServer'),
                      NEW y \in Headers(toClient') PROVE y < x
    OBVIOUS
  <2>1. x \in InQueue(sendQueue) \cup InQueue(toServer)
    BY <1>4
  <2>2. CASE y \in Headers(toClient)
    BY <2>1, <2>2 DEF LineInv
  <2>3. CASE y = r /\ r # Unasked
    BY <1>4, <2>3 DEF LineInv
  <2> QED BY <1>3, <2>2, <2>3
<1> QED BY <1>3, <1>4, <1>5, <1>6, <1>7, <1>8, <1>9, <1>10 DEF LineInv, Taken

LEMMA MayHoldInLine ==
    ASSUME SenderMayHold
    PROVE  held' \in {held, NoHeader, Rest} \cup InQueue(toServer)
BY DEF SenderMayHold, InQueue

LEMMA NothingHeld ==
    ASSUME held' \in {NoHeader, Rest}, Flying' \subseteq Flying
    PROVE  HeldInv' /\ Afloat' \subseteq Afloat
<1>1. held' \notin Requests
  BY ClientAssumption DEF NoHeader, Rest, Requests
<1> QED BY <1>1 DEF HeldInv, Afloat

\* What the sender held goes out before anything of the connection it goes to.
LEMMA HeldSteps ==
    ASSUME PartsInv, LineInv, HeldInv, ServerSendsHeld
    PROVE  LineInv' /\ HeldInv' /\ Afloat' \subseteq Afloat
<1>1. /\ UNCHANGED <<sendQueue, toServer, header, got, future>> /\ held # NoHeader
      /\ held' = NoHeader
      /\ \/ toClient' = toClient
         \/ held # Rest /\ toClient' = toClient \o Frame(held)
         \/ toClient' = Append(toClient, Frame(Unasked)[2])
  BY DEF ServerSendsHeld, pendVars
<1>2. /\ Requests \subseteq Nat \ {0} /\ toClient \in Seq(AllParts) /\ HeadersIncrease(toClient)
      /\ Unasked \notin Requests /\ NoHeader \notin Requests
  BY LineTypes DEF LineInv, Unasked, NoHeader
<1>3. held # Rest => held \in Requests
  BY <1>1, LineTypes DEF PartsInv, HeldTypeOK
<1>4. /\ Headers(toClient') \subseteq Headers(toClient) \cup ({held} \cap Requests)
      /\ HeadersIncrease(toClient')
  <2>1. CASE toClient' = toClient
    BY <1>2, <2>1
  <2>2. CASE held # Rest /\ toClient' = toClient \o Frame(held)
    <3>1. held \in Requests /\ \A x \in Headers(toClient) : x < held
      BY <1>3, <2>2 DEF HeldInv
    <3>2. /\ Headers(toClient \o Frame(held)) \subseteq Headers(toClient) \cup ({held} \ {Unasked})
          /\ HeadersIncrease(toClient \o Frame(held))
      BY <1>2, <3>1, FrameKeepsOrder
    <3> QED BY <2>2, <3>1, <3>2
  <2>3. CASE toClient' = Append(toClient, Frame(Unasked)[2])
    <3>1. Frame(Unasked)[2] \in AllParts /\ Frame(Unasked)[2].part # "header"
      BY DEF Frame, AllParts
    <3>2. /\ Headers(Append(toClient, Frame(Unasked)[2])) \subseteq Headers(toClient)
          /\ HeadersIncrease(Append(toClient, Frame(Unasked)[2]))
      BY <1>2, <3>1, PartKeepsOrder
    <3> QED BY <2>3, <3>2
  <2> QED BY <1>1, <2>1, <2>2, <2>3
<1>5. Sent' \subseteq Sent \cup ({held} \cap Requests) /\ Flying' \subseteq Afloat
  BY <1>1, <1>4 DEF Sent, Flying, Afloat
<1>6. \A x \in Flying' : Taken(x)' /\ \A q \in Requests : got'[q] < x
  BY <1>1, <1>5 DEF LineInv, HeldInv, Taken, Afloat
<1>7. \A q \in Requests : got'[q] \in Requests => future'[got'[q]] # "none"
  BY <1>1 DEF LineInv, Taken
<1>8. \A x \in Sent' : header' < x
  BY <1>1, <1>5 DEF LineInv, HeldInv
<1>9. /\ \A x \in InQueue(sendQueue'), y \in InQueue(toServer') : y < x
      /\ \A x \in InQueue(sendQueue') \cup InQueue(toServer'), y \in Headers(toClient') : y < x
  BY <1>1, <1>4 DEF LineInv, HeldInv
<1>10. LineInv'
  BY <1>1, <1>4, <1>6, <1>7, <1>8, <1>9 DEF LineInv, Taken
<1>11. HeldInv' /\ Afloat' \subseteq Afloat
  BY <1>1, <1>2, <1>5 DEF HeldInv, Afloat
<1> QED BY <1>10, <1>11

LEMMA LineStep ==
    ASSUME PartsInv, TakenInv, LineInv, HeldInv, ClientNext
    PROVE  /\ LineInv' /\ HeldInv'
           /\ \/ Afloat' \subseteq Afloat
              \/ send_command /\ Afloat' \subseteq Afloat \cup {Head(cmdQueue)}
<1> USE DEF guiVars, threadVars, groupVars, smVars, readVars, queueVars, pendVars,
   wireVars
<1> DEFINE InLine == /\ LineInv' /\ HeldInv'
                     /\ \/ Afloat' \subseteq Afloat
                        \/ send_command /\ Afloat' \subseteq Afloat \cup {Head(cmdQueue)}
<1>0. \A r \in Requests : Taken(r) => Taken(r)'
  BY FutureStep
<1>1. CASE RestartProgram
  <2>1. /\ got' = got /\ sendQueue' \in {sendQueue, <<>>} /\ header' \in {header, NoHeader}
        /\ toServer' = <<>> /\ toClient' = <<>> /\ SenderMayHold
    BY <1>1 DEF RestartProgram
  <2> QED BY <1>0, <2>1, MayHoldInLine, LineShrinks
<1>2. CASE QueueCommand
  BY <1>2, <1>0, LineShrinks DEF QueueCommand
<1>3. CASE Start
  BY <1>3, <1>0, LineShrinks DEF Start
<1>4. CASE Stop
  BY <1>4, <1>0, LineShrinks DEF Stop
<1>5. CASE DrainTest
  BY <1>5, <1>0, LineShrinks DEF DrainTest
<1>6. CASE DrainTake
  BY <1>6, <1>0, LineShrinks DEF DrainTake
<1>7. CASE JoinerEnds
  BY <1>7, <1>0, LineShrinks DEF JoinerEnds
<1>8. CASE BeginLoop
  BY <1>8, <1>0, LineShrinks DEF BeginLoop
<1>9. CASE init_async
  BY <1>9, <1>0, LineShrinks DEF init_async
<1>10. CASE CreateTasks
  BY <1>10, <1>0, LineShrinks DEF CreateTasks
<1>11. CASE RunPosted
  BY <1>11, <1>0, LineShrinks DEF RunPosted
<1>12. CASE TaskGroupAborts
  <2>1. /\ got' = got /\ sendQueue' \in {sendQueue, <<>>} /\ header' = header
        /\ toServer' = toServer /\ toClient' = toClient /\ held' = held
    BY <1>12, CloseConnectionResets DEF TaskGroupAborts, readVars
  <2> QED BY <1>0, <2>1, LineShrinks
<1>13. CASE ThreadEnds
  <2>1. /\ got' = got /\ sendQueue' \in {sendQueue, <<>>} /\ header' \in {header, NoHeader}
        /\ toServer' = <<>> /\ toClient' = <<>> /\ SenderMayHold
    BY <1>13 DEF ThreadEnds
  <2> QED BY <1>0, <2>1, MayHoldInLine, LineShrinks
<1>14. ASSUME NEW t \in Tasks, SeesShutdown(t) PROVE InLine
  BY <1>14, <1>0, LineShrinks DEF SeesShutdown, TaskEnds
<1>15. CASE Connected
  BY <1>15, <1>0, LineShrinks DEF Connected
<1>16. CASE ConnectionRefused
  BY <1>16, <1>0, LineShrinks DEF ConnectionRefused
<1>17. CASE Reconnect
  <2>1. /\ got' = got /\ sendQueue' \in {sendQueue, <<>>} /\ header' = header
        /\ toServer' = toServer /\ toClient' = toClient /\ held' = held
    BY <1>17, CloseConnectionResets DEF Reconnect, readVars
  <2> QED BY <1>0, <2>1, LineShrinks
<1>18. CASE Disconnect
  <2>1. /\ got' = got /\ sendQueue' \in {sendQueue, <<>>} /\ header' = header
        /\ toServer' = toServer /\ toClient' = toClient /\ held' = held
    BY <1>18, CloseConnectionResets DEF Disconnect, readVars
  <2> QED BY <1>0, <2>1, LineShrinks
<1>19. CASE send_command
  BY <1>19, SendSteps
<1>20. CASE Answered
  BY <1>20, <1>0, LineShrinks DEF Answered
<1>21. CASE TimeoutFires
  BY <1>21, <1>0, LineShrinks DEF TimeoutFires
<1>22. CASE GiveUp
  BY <1>22, <1>0, LineShrinks DEF GiveUp
<1>23. CASE AwaitCancelled
  BY <1>23, <1>0, LineShrinks DEF AwaitCancelled, TaskEnds
<1>24. CASE writer_loop
  BY <1>24, WriterSteps
<1>25. CASE ReadHeader
  <2>1. toClient # <<>> /\ toClient' = Tail(toClient)
    BY <1>25 DEF ReadHeader
  <2>2. 1 \in 1 .. Len(toClient) /\ toClient' = SubSeq(toClient, 1 + 1, Len(toClient))
    BY <2>1, LineTypes, TailIsSubSeq, EmptySeq, LenProperties
  <2>3. /\ UNCHANGED <<sendQueue, toServer, got, held>> /\ header = NoHeader
        /\ Head(toClient).part = "header" /\ header' = Head(toClient).req
    BY <1>25 DEF ReadHeader, pendVars
  <2> QED BY <1>0, <2>2, <2>3, ReadSteps
<1>26. CASE ReadPayload
  <2>1. toClient # <<>> /\ toClient' = Tail(toClient)
    BY <1>26 DEF ReadPayload
  <2>2. 1 \in 1 .. Len(toClient) /\ toClient' = SubSeq(toClient, 1 + 1, Len(toClient))
    BY <2>1, LineTypes, TailIsSubSeq, EmptySeq, LenProperties
  <2>3. UNCHANGED <<sendQueue, toServer, held>> /\ header' = NoHeader
    BY <1>26 DEF ReadPayload
  <2>4. \A r \in Requests : got'[r] # got[r] => got'[r] = header
    BY <1>26 DEF ReadPayload, Deliver, pendVars, PartsInv, RequestTypeOK
  <2> QED BY <1>0, <2>2, <2>3, <2>4, ReadSteps
<1>27. CASE PayloadTimeout
  BY <1>27, <1>0, LineShrinks DEF PayloadTimeout
<1>28. CASE ReadGarbage
  <2>1. UNCHANGED <<sendQueue, toServer, header, held>>
    BY <1>28 DEF ReadGarbage, readVars
  <2>2. \A r \in Requests : got'[r] # got[r] => got'[r] = Garbage
    BY <1>28 DEF ReadGarbage, Deliver, pendVars, PartsInv, RequestTypeOK
  <2>3. CASE toClient' = toClient /\ got' = got
    BY <1>0, <2>1, <2>3, LineShrinks
  <2>4. ASSUME NEW k \in 1 .. Len(toClient), toClient' = SubSeq(toClient, k + 1, Len(toClient))
        PROVE  InLine
    BY <1>0, <2>1, <2>2, <2>4, ReadSteps
  <2>5. \/ toClient' = toClient /\ got' = got
        \/ \E k \in 1 .. Len(toClient) :
             toClient' = SubSeq(toClient, k + 1, Len(toClient))
    BY <1>28 DEF ReadGarbage
  <2> QED BY <2>3, <2>4, <2>5
<1>29. CASE ReaderBreaks
  BY <1>29, <1>0, LineShrinks DEF ReaderBreaks, TaskFails
<1>30. CASE ServerAnswers
  <2>1. Head(toServer) \in InQueue(toServer) /\ Head(toServer) \in Requests
    BY <1>30, LineTypes, TailKeepsOrder DEF ServerAnswers, LineInv
  <2>2. /\ toServer # <<>> /\ toServer' = Tail(toServer)
        /\ toClient' \in {toClient, toClient \o Frame(Head(toServer))}
        /\ UNCHANGED <<sendQueue, header, got, future>>
        /\ held' = NoHeader
    BY <1>30 DEF ServerAnswers, readVars, pendVars
  <2>3. LineInv' /\ Flying' \subseteq Flying
    BY <2>1, <2>2, ConsoleSteps
  <2> QED BY <2>2, <2>3, NothingHeld
<1>31. CASE ServerSendsUnasked
  <2>1. /\ toClient' = toClient \o Frame(Unasked) /\ held' = NoHeader
        /\ UNCHANGED <<toServer, sendQueue, header, got, future>>
    BY <1>31 DEF ServerSendsUnasked, readVars, pendVars
  <2>2. LineInv' /\ Flying' \subseteq Flying
    BY <2>1, ConsoleSteps
  <2> QED BY <2>1, <2>2, NothingHeld
<1>32. CASE ServerCloses
  <2>1. toServer' = <<>> /\ UNCHANGED <<sendQueue, header, got, future>>
    BY <1>32 DEF ServerCloses, readVars, pendVars
  <2>2. CASE toClient' \in {toClient, <<>>} /\ SenderMayHold
    BY <1>0, <2>1, <2>2, MayHoldInLine, LineShrinks
  <2>3. CASE /\ toServer # <<>> /\ toClient' = Append(toClient, Frame(Head(toServer))[1])
             /\ held' \in {NoHeader, Rest}
    <3>1. Head(toServer) \in InQueue(toServer) /\ Head(toServer) \in Requests
      BY <2>3, LineTypes, TailKeepsOrder DEF LineInv
    <3>2. LineInv' /\ Flying' \subseteq Flying
      BY <2>1, <2>3, <3>1, ConsoleSteps
    <3> QED BY <2>3, <3>2, NothingHeld
  <2> QED BY <1>32, <2>2, <2>3 DEF ServerCloses
<1>33. CASE ServerSendsHeld
  BY <1>33, HeldSteps
<1> QED BY <1>1, <1>2, <1>3, <1>4, <1>5, <1>6, <1>7, <1>8, <1>9, <1>10, <1>11, <1>12, <1>13,
   <1>14, <1>15, <1>16, <1>17, <1>18, <1>19, <1>20, <1>21, <1>22, <1>23, <1>24, <1>25, <1>26,
   <1>27, <1>28, <1>29, <1>30, <1>31, <1>32, <1>33
   DEF ClientNext, User, ParameterRaises, StopRaises, Drain, DrainRaises, Thread,
       connection_loop, state_machine, reader_loop, Console

\* Where no request is taken and none is queued, nothing of TakenInv can be lost but by a
\* queue that is emptied or command processing that goes on.
LEMMA TakenShrinks ==
    ASSUME PartsInv, TakenInv, queued' = queued, cmdQueue' \in {cmdQueue, <<>>},
           \A r \in Requests : Taken(r)' => Taken(r),
           "state_machine" \in tasks' /\ sm' # "poll" =>
             "state_machine" \in tasks /\ sm # "poll" /\ current' = current
    PROVE  TakenInv'
<1>1. Increasing(cmdQueue') /\ InQueue(cmdQueue') \subseteq InQueue(cmdQueue)
  BY EmptyInOrder DEF TakenInv
<1>2. InQueue(cmdQueue) \subseteq Requests
  BY LineTypes
<1>3. /\ \A r \in Requests : Taken(r)' => r <= queued'
      /\ \A x \in InQueue(cmdQueue') : ~Taken(x)' /\ \A r \in Requests : Taken(r)' => r < x
  BY <1>1, <1>2 DEF TakenInv
<1>4. "state_machine" \in tasks' /\ sm' # "poll" =>
        current' # 0 /\ \A r \in Requests : Taken(r)' => r <= current'
  BY DEF TakenInv
<1> QED BY <1>1, <1>3, <1>4 DEF TakenInv, Taken

LEMMA TakenStep ==
    ASSUME PartsInv, ThreadInv, PendInv, TakenInv, ClientNext
    PROVE  TakenInv'
<1> USE ClientAssumption
<1> USE DEF guiVars, threadVars, groupVars, smVars, readVars, queueVars, pendVars,
   wireVars
<1>0. /\ future \in [Requests -> {"none", "open", "done", "cancelled"}]
      /\ queued \in 0 .. MaxRequests
  BY DEF PartsInv, RequestTypeOK, TaskTypeOK
<1>1. CASE RestartProgram
  BY <1>0, <1>1, TakenShrinks DEF RestartProgram, Taken
<1>2. CASE QueueCommand
  <2>1. /\ queued' = queued + 1 /\ cmdQueue' = Append(cmdQueue, queued + 1)
        /\ UNCHANGED <<future, tasks, sm, current>> /\ queued < MaxRequests
    BY <1>2 DEF QueueCommand
  <2>2. queued + 1 \in Requests /\ cmdQueue \in Seq(Nat) /\ InQueue(cmdQueue) \subseteq Made
    BY <1>0, <2>1, LineTypes DEF Requests
  <2>3. \A x \in InQueue(cmdQueue) : x < queued + 1
    BY <1>0, <2>2 DEF Made
  <2>4. InQueue(cmdQueue') = InQueue(cmdQueue) \cup {queued + 1} /\ Increasing(cmdQueue')
    BY <1>0, <2>1, <2>2, <2>3, AppendKeepsOrder DEF TakenInv
  <2>5. \A r \in Requests : Taken(r)' => r < queued + 1 /\ Taken(r)
    BY <1>0, <2>1 DEF TakenInv, Taken, Requests
  <2>6. \A x \in InQueue(cmdQueue') : ~Taken(x)' /\ \A r \in Requests : Taken(r)' => r < x
    BY <2>1, <2>2, <2>4, <2>5 DEF TakenInv, Taken, Requests
  <2>7. \A r \in Requests : Taken(r)' => r <= queued'
    BY <1>0, <2>1, <2>5 DEF Requests
  <2> QED BY <2>1, <2>4, <2>6, <2>7 DEF TakenInv, Taken
<1>3. CASE Start
  BY <1>0, <1>3, TakenShrinks DEF Start, Taken
<1>4. CASE Stop
  BY <1>0, <1>4, TakenShrinks DEF Stop, Taken
<1>5. CASE DrainTest
  BY <1>0, <1>5, TakenShrinks DEF DrainTest, Taken
<1>6. CASE DrainTake
  <2>1. /\ cmdQueue # <<>> /\ cmdQueue' = Tail(cmdQueue)
        /\ UNCHANGED <<future, tasks, sm, current, queued>>
    BY <1>6 DEF DrainTake
  <2>2. Increasing(cmdQueue') /\ InQueue(cmdQueue') \subseteq InQueue(cmdQueue)
    BY <2>1, LineTypes, TailKeepsOrder DEF TakenInv
  <2> QED BY <2>1, <2>2 DEF TakenInv, Taken
<1>7. CASE JoinerEnds
  BY <1>0, <1>7, TakenShrinks DEF JoinerEnds, Taken
<1>8. CASE BeginLoop
  BY <1>0, <1>8, TakenShrinks DEF BeginLoop, Taken
<1>9. CASE init_async
  BY <1>0, <1>9, TakenShrinks DEF init_async, Taken
<1>10. CASE CreateTasks
  <2>1. \A r \in Requests : Taken(r)' => Taken(r)
    BY <1>0, <1>10 DEF CreateTasks, Taken
  <2>2. /\ queued' = queued /\ cmdQueue' \in {cmdQueue, <<>>}
        /\ "state_machine" \in tasks' /\ sm' # "poll" =>
             "state_machine" \in tasks /\ sm # "poll" /\ current' = current
    BY <1>10 DEF CreateTasks, PendInv
  <2> QED BY <2>1, <2>2, TakenShrinks
<1>11. CASE RunPosted
  BY <1>0, <1>11, TakenShrinks DEF RunPosted, Taken
<1>12. CASE TaskGroupAborts
  BY <1>0, <1>12, TakenShrinks DEF TaskGroupAborts, CloseConnection, reset_connection_state,
     CancelPending, Taken
<1>13. CASE ThreadEnds
  BY <1>0, <1>13, TakenShrinks DEF ThreadEnds, Taken
<1>14. ASSUME NEW t \in Tasks, SeesShutdown(t) PROVE TakenInv'
  BY <1>0, <1>14, TakenShrinks DEF SeesShutdown, TaskEnds, Taken
<1>15. CASE Connected
  BY <1>0, <1>15, TakenShrinks DEF Connected, Taken
<1>16. CASE ConnectionRefused
  BY <1>0, <1>16, TakenShrinks DEF ConnectionRefused, Taken
<1>17. CASE Reconnect
  BY <1>0, <1>17, TakenShrinks DEF Reconnect, CloseConnection, reset_connection_state,
     CancelPending, TaskEnds, Taken
<1>18. CASE Disconnect
  BY <1>0, <1>18, TakenShrinks DEF Disconnect, CloseConnection, reset_connection_state,
     CancelPending, TaskEnds, TaskFails, Taken
<1>19. CASE send_command
  <2> DEFINE r == Head(cmdQueue)
  <2>1. /\ cmdQueue # <<>> /\ cmdQueue' = Tail(cmdQueue) /\ current' = r
        /\ future' = [future EXCEPT ![r] = "open"] /\ UNCHANGED queued
    BY <1>19 DEF send_command
  <2>2. /\ r \in InQueue(cmdQueue) /\ InQueue(cmdQueue') \subseteq InQueue(cmdQueue)
        /\ Increasing(cmdQueue') /\ \A x \in InQueue(cmdQueue') : r < x
        /\ InQueue(cmdQueue) \subseteq Made /\ Made \subseteq Requests
        /\ Requests \subseteq Nat \ {0}
    BY <2>1, LineTypes, TailKeepsOrder DEF TakenInv
  <2> HIDE DEF r
  <2>3. \A q \in Requests : Taken(q)' => Taken(q) \/ q = r
    BY <1>0, <2>1 DEF Taken
  <2>4. ASSUME NEW q \in Requests, Taken(q)' PROVE q <= r /\ q \in Nat /\ r \in Nat
    <3>1. q \in Nat /\ r \in Nat
      BY <2>2
    <3>2. Taken(q) => q < r
      BY <2>2 DEF TakenInv
    <3> QED BY <2>3, <2>4, <3>1, <3>2
  <2>5. \A x \in InQueue(cmdQueue') : ~Taken(x)' /\ \A q \in Requests : Taken(q)' => q < x
    <3> SUFFICES ASSUME NEW x \in InQueue(cmdQueue')
                 PROVE  ~Taken(x)' /\ \A q \in Requests : Taken(q)' => q < x
      OBVIOUS
    <3>1. r < x /\ x \in Nat /\ r \in Nat /\ x \in Requests
      BY <2>2
    <3>2. \A q \in Requests : Taken(q)' => q < x
      BY <2>2, <2>4, <3>1
    <3>3. ~Taken(x)'
      BY <3>1, <3>2
    <3> QED BY <3>2, <3>3
  <2>6. r <= queued
    BY <1>0, <2>2 DEF Made
  <2>7. \A q \in Requests : Taken(q)' => q <= queued'
    BY <1>0, <2>1, <2>4, <2>6
  <2> QED BY <2>1, <2>2, <2>4, <2>5, <2>7 DEF TakenInv, Taken
<1>20. CASE Answered
  BY <1>0, <1>20, TakenShrinks DEF Answered, Taken
<1>21. CASE TimeoutFires
  BY <1>0, <1>21, TakenShrinks DEF TimeoutFires, Taken
<1>22. CASE GiveUp
  BY <1>0, <1>22, TakenShrinks DEF GiveUp, Taken
<1>23. CASE AwaitCancelled
  BY <1>0, <1>23, TakenShrinks DEF AwaitCancelled, TaskEnds, Taken
<1>24. CASE writer_loop
  BY <1>0, <1>24, TakenShrinks DEF writer_loop, TaskFails, Taken
<1>25. CASE ReadHeader
  BY <1>0, <1>25, TakenShrinks DEF ReadHeader, Taken
<1>26. CASE ReadPayload
  BY <1>0, <1>26, TakenShrinks DEF ReadPayload, Deliver, TaskFails, Taken
<1>27. CASE PayloadTimeout
  BY <1>0, <1>27, TakenShrinks DEF PayloadTimeout, Taken
<1>28. CASE ReadGarbage
  BY <1>0, <1>28, TakenShrinks DEF ReadGarbage, Deliver, TaskFails, Taken
<1>29. CASE ReaderBreaks
  BY <1>0, <1>29, TakenShrinks DEF ReaderBreaks, TaskFails, Taken
<1>30. CASE ServerAnswers
  BY <1>0, <1>30, TakenShrinks DEF ServerAnswers, Taken
<1>31. CASE ServerSendsUnasked
  BY <1>0, <1>31, TakenShrinks DEF ServerSendsUnasked, Taken
<1>32. CASE ServerCloses
  BY <1>0, <1>32, TakenShrinks DEF ServerCloses, Taken
<1>33. CASE ServerSendsHeld
  BY <1>0, <1>33, TakenShrinks DEF ServerSendsHeld, Taken
<1> QED BY <1>1, <1>2, <1>3, <1>4, <1>5, <1>6, <1>7, <1>8, <1>9, <1>10, <1>11, <1>12, <1>13,
   <1>14, <1>15, <1>16, <1>17, <1>18, <1>19, <1>20, <1>21, <1>22, <1>23, <1>24, <1>25, <1>26,
   <1>27, <1>28, <1>29, <1>30, <1>31, <1>32, <1>33
   DEF ClientNext, User, ParameterRaises, StopRaises, Drain, DrainRaises, Thread,
       connection_loop, state_machine, reader_loop, Console

LEMMA DeliverKeepsQuiet ==
    ASSUME ClientTypeOK, PendInv, QuietInv, NEW c, NEW answer, Deliver(c, answer),
           "reader" \in tasks, UNCHANGED <<sm, current>>
    PROVE  QuietInv'
<1>1. pending' = [pending EXCEPT ![c] = 0] /\ pending \in [Cmds -> 0 .. MaxRequests]
  BY DEF Deliver, ClientTypeOK
<1>2. pending = NoPending => pending' = NoPending
  BY <1>1 DEF NoPending
<1>3. tasks # {} /\ tasks' \subseteq tasks
      /\ ("state_machine" \in tasks' <=> "state_machine" \in tasks)
  BY DEF Deliver, TaskFails, groupVars
<1>4. "state_machine" \in tasks /\ sm = "wait" /\ future'[current] = "cancelled"
        => future[current] = "cancelled"
  <2>1. "state_machine" \in tasks /\ sm = "wait" => current \in Requests
    BY DEF PendInv, ClientTypeOK, Requests
  <2>2. \/ UNCHANGED future
        \/ pending[c] # 0 /\ future' = [future EXCEPT ![pending[c]] = "done"]
    BY DEF Deliver
  <2> QED BY <2>1, <2>2 DEF ClientTypeOK
<1> QED BY <1>2, <1>3, <1>4 DEF QuietInv

LEMMA QuietStep ==
    ASSUME PartsInv, ThreadInv, PendInv, QuietInv, StreamInv, MadeInv, ClientNext
    PROVE  QuietInv'
<1> USE ClientAssumption
<1>0. ClientTypeOK
  BY PartsGiveType
<1> USE <1>0 DEF ClientTypeOK, ThreadInv, PendInv, PendingIsCurrent, QuietInv, NoPending, Tasks,
   guiVars, threadVars, groupVars, smVars, readVars, queueVars, pendVars,
   wireVars
<1>1. CASE RestartProgram
  BY <1>1 DEF RestartProgram
<1>2. CASE QueueCommand
  BY <1>2 DEF QueueCommand
<1>3. CASE Start
  BY <1>3 DEF Start
<1>4. CASE Stop
  BY <1>4 DEF Stop
<1>5. CASE DrainTest
  BY <1>5 DEF DrainTest
<1>6. CASE DrainTake
  BY <1>6 DEF DrainTake
<1>7. CASE JoinerEnds
  BY <1>7 DEF JoinerEnds
<1>8. CASE BeginLoop
  BY <1>8 DEF BeginLoop
<1>9. CASE init_async
  BY <1>9 DEF init_async
<1>10. CASE CreateTasks
  BY <1>10 DEF CreateTasks
<1>11. CASE RunPosted
  BY <1>11 DEF RunPosted
<1>12. CASE TaskGroupAborts
  BY <1>12 DEF TaskGroupAborts, CloseConnection, reset_connection_state, CancelPending
<1>13. CASE ThreadEnds
  BY <1>13 DEF ThreadEnds
<1>14. ASSUME NEW t \in Tasks, SeesShutdown(t) PROVE QuietInv'
  BY <1>14 DEF SeesShutdown, TaskEnds
<1>15. CASE Connected
  BY <1>15 DEF Connected
<1>16. CASE ConnectionRefused
  BY <1>16 DEF ConnectionRefused
<1>17. CASE Reconnect
  BY <1>17 DEF Reconnect, CloseConnection, reset_connection_state, CancelPending, TaskEnds
<1>18. CASE Disconnect
  BY <1>18 DEF Disconnect, CloseConnection, reset_connection_state, CancelPending, TaskEnds,
     TaskFails
<1>19. CASE send_command
  BY <1>19 DEF send_command
<1>20. CASE Answered
  BY <1>20 DEF Answered
<1>21. CASE TimeoutFires
  BY <1>21 DEF TimeoutFires
<1>22. CASE GiveUp
  BY <1>22 DEF GiveUp
<1>23. CASE AwaitCancelled
  BY <1>23 DEF AwaitCancelled, TaskEnds
<1>24. CASE writer_loop
  BY <1>24 DEF writer_loop, TaskFails
<1>25. CASE ReadHeader
  BY <1>25 DEF ReadHeader
<1>26. CASE ReadPayload
  <2>1. UNCHANGED <<sm, current>> /\ "reader" \in tasks
    BY <1>26 DEF ReadPayload
  <2>2. UNCHANGED <<pendVars, groupVars>> \/ Deliver(cmdOf[header], header)
    BY <1>26 DEF ReadPayload
  <2>3. CASE UNCHANGED <<pendVars, groupVars>>
    BY <2>1, <2>3
  <2>4. CASE Deliver(cmdOf[header], header)
    BY <2>1, <2>4, DeliverKeepsQuiet
  <2> QED BY <2>2, <2>3, <2>4
<1>27. CASE PayloadTimeout
  BY <1>27 DEF PayloadTimeout
<1>28. CASE ReadGarbage
  <2>1. UNCHANGED <<sm, current>> /\ "reader" \in tasks
    BY <1>28 DEF ReadGarbage
  <2>2. \/ UNCHANGED pendVars /\ (UNCHANGED groupVars \/ TaskFails("reader"))
        \/ \E c \in Cmds : Deliver(c, Garbage)
    BY <1>28 DEF ReadGarbage
  <2>3. CASE UNCHANGED pendVars /\ (UNCHANGED groupVars \/ TaskFails("reader"))
    BY <2>1, <2>3 DEF TaskFails
  <2>4. ASSUME NEW c \in Cmds, Deliver(c, Garbage) PROVE QuietInv'
    BY <2>1, <2>4, DeliverKeepsQuiet
  <2> QED BY <2>2, <2>3, <2>4
<1>29. CASE ReaderBreaks
  BY <1>29 DEF ReaderBreaks, TaskFails
<1>30. CASE ServerAnswers
  BY <1>30 DEF ServerAnswers
<1>31. CASE ServerSendsUnasked
  BY <1>31 DEF ServerSendsUnasked
<1>32. CASE ServerCloses
  BY <1>32 DEF ServerCloses
<1>33. CASE ServerSendsHeld
  BY <1>33 DEF ServerSendsHeld
<1> QED BY <1>1, <1>2, <1>3, <1>4, <1>5, <1>6, <1>7, <1>8, <1>9, <1>10, <1>11, <1>12, <1>13,
   <1>14, <1>15, <1>16, <1>17, <1>18, <1>19, <1>20, <1>21, <1>22, <1>23, <1>24, <1>25, <1>26,
   <1>27, <1>28, <1>29, <1>30, <1>31, <1>32, <1>33
   DEF ClientNext, User, ParameterRaises, StopRaises, Drain, DrainRaises, Thread,
       connection_loop, state_machine, reader_loop, Console

\* What became of a request that was answered, timed out or was cancelled does not change.
LEMMA EndedStays ==
    ASSUME PartsInv, ThreadInv, TakenInv, AnswerInv, ResolvedInv, ClientNext
    PROVE  \A r \in Requests : Ended(r) => outcome'[r] = outcome[r]
<1> USE ClientAssumption
<1> USE DEF Ended, guiVars, threadVars, groupVars, smVars, readVars, queueVars, pendVars,
   wireVars
<1>0. /\ outcome \in [Requests -> {"none", "queued", "dropped", "waiting", "answered",
                                   "timeout", "cancelled"}]
      /\ queued \in 0 .. MaxRequests
  BY DEF PartsInv, RequestTypeOK, TaskTypeOK
<1> DEFINE Stays == \A r \in Requests : Ended(r) => outcome'[r] = outcome[r]
<1>1. CASE RestartProgram
  BY <1>1, <1>0 DEF RestartProgram
<1>2. CASE QueueCommand
  <2>1. queued + 1 \in Requests /\ ~Taken(queued + 1)
    BY <1>0, <1>2 DEF QueueCommand, TakenInv, Requests
  <2>2. outcome' = [outcome EXCEPT ![queued + 1] = "queued"]
    BY <1>2 DEF QueueCommand
  <2> QED BY <1>0, <2>1, <2>2 DEF AnswerInv
<1>3. CASE Start
  BY <1>3 DEF Start
<1>4. CASE Stop
  BY <1>4 DEF Stop
<1>5. CASE DrainTest
  BY <1>5 DEF DrainTest
<1>6. CASE DrainTake
  <2>1. Head(cmdQueue) \in InQueue(cmdQueue)
    BY <1>6, LineTypes, TailKeepsOrder DEF DrainTake, TakenInv
  <2>2. ~Taken(Head(cmdQueue))
    BY <2>1 DEF TakenInv
  <2>3. outcome' = [outcome EXCEPT ![Head(cmdQueue)] = "dropped"]
    BY <1>6 DEF DrainTake
  <2> QED BY <1>0, <2>2, <2>3 DEF AnswerInv
<1>7. CASE JoinerEnds
  BY <1>7 DEF JoinerEnds
<1>8. CASE BeginLoop
  BY <1>8 DEF BeginLoop
<1>9. CASE init_async
  BY <1>9 DEF init_async
<1>10. CASE CreateTasks
  BY <1>10 DEF CreateTasks
<1>11. CASE RunPosted
  BY <1>11 DEF RunPosted
<1>12. CASE TaskGroupAborts
  BY <1>0, <1>12 DEF TaskGroupAborts, CloseConnection, reset_connection_state, CancelPending,
     ResolvedInv
<1>13. CASE ThreadEnds
  BY <1>13 DEF ThreadEnds
<1>14. ASSUME NEW t \in Tasks, SeesShutdown(t) PROVE Stays
  BY <1>14 DEF SeesShutdown, TaskEnds
<1>15. CASE Connected
  BY <1>15 DEF Connected
<1>16. CASE ConnectionRefused
  BY <1>16 DEF ConnectionRefused
<1>17. CASE Reconnect
  BY <1>17 DEF Reconnect, CloseConnection, reset_connection_state, CancelPending, TaskEnds
<1>18. CASE Disconnect
  BY <1>18 DEF Disconnect, CloseConnection, reset_connection_state, CancelPending, TaskEnds,
     TaskFails
<1>19. CASE send_command
  <2>1. Head(cmdQueue) \in InQueue(cmdQueue)
    BY <1>19, LineTypes, TailKeepsOrder DEF send_command, TakenInv
  <2>2. ~Taken(Head(cmdQueue))
    BY <2>1 DEF TakenInv
  <2>3. outcome' = [outcome EXCEPT ![Head(cmdQueue)] = "waiting"]
    BY <1>19 DEF send_command
  <2> QED BY <1>0, <2>2, <2>3 DEF AnswerInv
<1>20. CASE Answered
  BY <1>0, <1>20 DEF Answered, ResolvedInv
<1>21. CASE TimeoutFires
  BY <1>21 DEF TimeoutFires
<1>22. CASE GiveUp
  BY <1>0, <1>22 DEF GiveUp, ResolvedInv
<1>23. CASE AwaitCancelled
  BY <1>0, <1>23 DEF AwaitCancelled, TaskEnds, ResolvedInv
<1>24. CASE writer_loop
  BY <1>24 DEF writer_loop, TaskFails
<1>25. CASE ReadHeader
  BY <1>25 DEF ReadHeader
<1>26. CASE ReadPayload
  BY <1>26 DEF ReadPayload, Deliver, TaskFails
<1>27. CASE PayloadTimeout
  BY <1>27 DEF PayloadTimeout
<1>28. CASE ReadGarbage
  BY <1>28 DEF ReadGarbage, Deliver, TaskFails
<1>29. CASE ReaderBreaks
  BY <1>29 DEF ReaderBreaks, TaskFails
<1>30. CASE ServerAnswers
  BY <1>30 DEF ServerAnswers
<1>31. CASE ServerSendsUnasked
  BY <1>31 DEF ServerSendsUnasked
<1>32. CASE ServerCloses
  BY <1>32 DEF ServerCloses
<1>33. CASE ServerSendsHeld
  BY <1>33 DEF ServerSendsHeld
<1> QED BY <1>1, <1>2, <1>3, <1>4, <1>5, <1>6, <1>7, <1>8, <1>9, <1>10, <1>11, <1>12, <1>13,
   <1>14, <1>15, <1>16, <1>17, <1>18, <1>19, <1>20, <1>21, <1>22, <1>23, <1>24, <1>25, <1>26,
   <1>27, <1>28, <1>29, <1>30, <1>31, <1>32, <1>33
   DEF ClientNext, User, ParameterRaises, StopRaises, Drain, DrainRaises, Thread,
       connection_loop, state_machine, reader_loop, Console

LEMMA AnswerStep ==
    ASSUME PartsInv, ThreadInv, TakenInv, AnswerInv, ResolvedInv, ClientNext
    PROVE  AnswerInv'
<1> USE ClientAssumption
<1> USE DEF guiVars, threadVars, groupVars, smVars, readVars, queueVars, pendVars,
   wireVars
<1>0. /\ outcome \in [Requests -> {"none", "queued", "dropped", "waiting", "answered",
                                   "timeout", "cancelled"}]
      /\ future \in [Requests -> {"none", "open", "done", "cancelled"}]
      /\ got \in [Requests -> {Garbage, 0} \cup Requests]
      /\ queued \in 0 .. MaxRequests /\ 0 \notin Requests
  BY DEF PartsInv, RequestTypeOK, TaskTypeOK, Requests
<1>a. /\ \A r \in Requests : Taken(r) => Taken(r)'
      /\ \A r \in Requests : future[r] = "done" => future'[r] = "done"
  BY FutureStep
<1> DEFINE Outcomes ==
      /\ \A r \in Requests : got'[r] # 0 <=> future'[r] = "done"
      /\ \A r \in Requests :
           outcome'[r] = "answered" => outcome[r] = "answered" \/ future[r] = "done"
      /\ \A r \in Requests : outcome'[r] \in {"timeout", "cancelled", "waiting"} =>
           outcome[r] \in {"timeout", "cancelled", "waiting"} \/ Taken(r) \/ Taken(r)'
<1> SUFFICES Outcomes
  BY <1>0, <1>a DEF AnswerInv, Taken, Ended
<1>1. CASE RestartProgram
  BY <1>0, <1>1 DEF RestartProgram, AnswerInv
<1>2. CASE QueueCommand
  BY <1>0, <1>2 DEF QueueCommand, AnswerInv
<1>3. CASE Start
  BY <1>0, <1>3 DEF Start, AnswerInv
<1>4. CASE Stop
  BY <1>0, <1>4 DEF Stop, AnswerInv
<1>5. CASE DrainTest
  BY <1>0, <1>5 DEF DrainTest, AnswerInv
<1>6. CASE DrainTake
  BY <1>0, <1>6 DEF DrainTake, AnswerInv
<1>7. CASE JoinerEnds
  BY <1>0, <1>7 DEF JoinerEnds, AnswerInv
<1>8. CASE BeginLoop
  BY <1>0, <1>8 DEF BeginLoop, AnswerInv
<1>9. CASE init_async
  BY <1>0, <1>9 DEF init_async, AnswerInv
<1>10. CASE CreateTasks
  BY <1>0, <1>10 DEF CreateTasks, AnswerInv
<1>11. CASE RunPosted
  BY <1>0, <1>11 DEF RunPosted, AnswerInv
<1>12. CASE TaskGroupAborts
  <2>1. \/ future' = future
        \/ future' = [r \in Requests |-> IF (\E c \in Cmds : pending[c] = r) /\ future[r] =
           "open"
                                         THEN "cancelled" ELSE future[r]]
    BY <1>12, CloseConnectionResets DEF TaskGroupAborts
  <2>2. /\ got' = got
        /\ \A r \in Requests : \/ outcome'[r] = outcome[r]
                               \/ outcome'[r] = "cancelled" /\ Taken(r)
    <3>1. "state_machine" \in tasks /\ sm # "poll" => Taken(current)
      BY DEF ResolvedInv
    <3>2. outcome' = outcome \/ (/\ "state_machine" \in tasks /\ sm # "poll"
                                /\ outcome' = [outcome EXCEPT ![current] = "cancelled"])
      BY <1>12 DEF TaskGroupAborts
    <3>3. got' = got
      BY <1>12 DEF TaskGroupAborts
    <3> QED BY <1>0, <3>1, <3>2, <3>3
  <2> QED BY <1>0, <2>1, <2>2 DEF AnswerInv
<1>13. CASE ThreadEnds
  BY <1>0, <1>13 DEF ThreadEnds, AnswerInv
<1>14. ASSUME NEW t \in Tasks, SeesShutdown(t) PROVE Outcomes
  BY <1>0, <1>14 DEF SeesShutdown, TaskEnds, AnswerInv
<1>15. CASE Connected
  BY <1>0, <1>15 DEF Connected, AnswerInv
<1>16. CASE ConnectionRefused
  BY <1>0, <1>16 DEF ConnectionRefused, AnswerInv
<1>17. CASE Reconnect
  <2>1. \/ future' = future
        \/ future' = [r \in Requests |-> IF (\E c \in Cmds : pending[c] = r) /\ future[r] =
           "open"
                                         THEN "cancelled" ELSE future[r]]
    BY <1>17, CloseConnectionResets DEF Reconnect
  <2>2. /\ got' = got
        /\ outcome' = outcome
    BY <1>0, <1>17 DEF Reconnect
  <2> QED BY <1>0, <2>1, <2>2 DEF AnswerInv
<1>18. CASE Disconnect
  <2>1. \/ future' = future
        \/ future' = [r \in Requests |-> IF (\E c \in Cmds : pending[c] = r) /\ future[r] =
           "open"
                                         THEN "cancelled" ELSE future[r]]
    BY <1>18, CloseConnectionResets DEF Disconnect
  <2>2. /\ got' = got
        /\ outcome' = outcome
    BY <1>0, <1>18 DEF Disconnect
  <2> QED BY <1>0, <2>1, <2>2 DEF AnswerInv
<1>19. CASE send_command
  <2>1. Head(cmdQueue) \in InQueue(cmdQueue)
    BY <1>19, LineTypes, TailKeepsOrder DEF send_command, TakenInv
  <2>2. ~Taken(Head(cmdQueue))
    BY <2>1 DEF TakenInv
  <2>3. /\ future' = [future EXCEPT ![Head(cmdQueue)] = "open"]
        /\ outcome' = [outcome EXCEPT ![Head(cmdQueue)] = "waiting"] /\ got' = got
    BY <1>19 DEF send_command
  <2>4. Head(cmdQueue) \in Requests
    BY <2>1, LineTypes
  <2> QED BY <1>0, <2>2, <2>3, <2>4 DEF AnswerInv, Taken
<1>20. CASE Answered
  BY <1>0, <1>20 DEF Answered, AnswerInv, ResolvedInv
<1>21. CASE TimeoutFires
  BY <1>0, <1>21 DEF TimeoutFires, AnswerInv
<1>22. CASE GiveUp
  BY <1>0, <1>22 DEF GiveUp, AnswerInv, ResolvedInv
<1>23. CASE AwaitCancelled
  BY <1>0, <1>23 DEF AwaitCancelled, TaskEnds, AnswerInv, ResolvedInv
<1>24. CASE writer_loop
  BY <1>0, <1>24 DEF writer_loop, TaskFails, AnswerInv
<1>25. CASE ReadHeader
  BY <1>0, <1>25 DEF ReadHeader, AnswerInv
<1>26. CASE ReadPayload
  <2>1. outcome' = outcome
    BY <1>26 DEF ReadPayload
  <2>2. UNCHANGED <<future, got>> \/ (header \in Requests /\ Deliver(cmdOf[header], header))
    BY <1>26, LineTypes DEF ReadPayload, NoHeader, Unasked
  <2> QED BY <1>0, <2>1, <2>2 DEF AnswerInv, Deliver
<1>27. CASE PayloadTimeout
  BY <1>0, <1>27 DEF PayloadTimeout, AnswerInv
<1>28. CASE ReadGarbage
  <2>1. outcome' = outcome
    BY <1>28 DEF ReadGarbage
  <2>2. UNCHANGED <<future, got>> \/ \E c \in Cmds : Deliver(c, Garbage)
    BY <1>28 DEF ReadGarbage
  <2> QED BY <1>0, <2>1, <2>2 DEF AnswerInv, Deliver, Garbage
<1>29. CASE ReaderBreaks
  BY <1>0, <1>29 DEF ReaderBreaks, TaskFails, AnswerInv
<1>30. CASE ServerAnswers
  BY <1>0, <1>30 DEF ServerAnswers, AnswerInv
<1>31. CASE ServerSendsUnasked
  BY <1>0, <1>31 DEF ServerSendsUnasked, AnswerInv
<1>32. CASE ServerCloses
  BY <1>0, <1>32 DEF ServerCloses, AnswerInv
<1>33. CASE ServerSendsHeld
  BY <1>0, <1>33 DEF ServerSendsHeld, AnswerInv
<1> QED BY <1>1, <1>2, <1>3, <1>4, <1>5, <1>6, <1>7, <1>8, <1>9, <1>10, <1>11, <1>12, <1>13,
   <1>14, <1>15, <1>16, <1>17, <1>18, <1>19, <1>20, <1>21, <1>22, <1>23, <1>24, <1>25, <1>26,
   <1>27, <1>28, <1>29, <1>30, <1>31, <1>32, <1>33
   DEF ClientNext, User, ParameterRaises, StopRaises, Drain, DrainRaises, Thread,
       connection_loop, state_machine, reader_loop, Console

\* A request that is taken is waited for, and command processing stops waiting only with
\* its end.
LEMMA GoneStep ==
    ASSUME PartsInv, ThreadInv, TakenInv, AnswerInv, ResolvedInv, GoneInv, ClientNext
    PROVE  GoneInv'
<1> USE DEF guiVars, threadVars, groupVars, smVars, readVars, queueVars, pendVars,
   wireVars
<1>0. /\ outcome \in [Requests -> {"none", "queued", "dropped", "waiting", "answered",
                                   "timeout", "cancelled"}]
      /\ queued \in 0 .. MaxRequests
  BY DEF PartsInv, RequestTypeOK, TaskTypeOK
<1>1a. \A r \in Requests : Ended(r) => Ended(r)'
  BY EndedStays DEF Ended
<1>1b. ~send_command => \A r \in Requests : Taken(r)' => Taken(r)
  BY FutureStep
<1> DEFINE Waits(r) == "state_machine" \in tasks /\ sm # "poll" /\ r = current
<1> SUFFICES ASSUME NEW r \in Requests, Taken(r)' PROVE Ended(r)' \/ Waits(r)'
  BY DEF GoneInv
<1> DEFINE Goal == Ended(r)' \/ Waits(r)'
<1>1c. Ended(r) \/ Waits(r) \/ send_command
  BY <1>1b DEF GoneInv
<1>1d. CASE Ended(r)
  BY <1>1a, <1>1d
<1>1e. CASE send_command
  <2>1. /\ current' = Head(cmdQueue) /\ sm' = "wait" /\ "state_machine" \in tasks' /\ sm = "poll"
        /\ future' = [future EXCEPT ![Head(cmdQueue)] = "open"]
    BY <1>1e DEF send_command
  <2>2. r = Head(cmdQueue) \/ Taken(r)
    BY <2>1 DEF Taken, PartsInv, RequestTypeOK
  <2> QED BY <1>1a, <2>1, <2>2 DEF GoneInv
<1>1f. ASSUME Waits(r), ~send_command PROVE Goal
  <2>0. "state_machine" \in tasks /\ sm # "poll" /\ r = current /\ outcome[r] = "waiting"
    BY <1>1f DEF ResolvedInv
  <2> HIDE DEF Waits
  <2>a. UNCHANGED <<sm, current>> /\ "state_machine" \in tasks' => Goal
    BY <2>0 DEF Waits
  <2>1. CASE RestartProgram
    BY <1>0, <2>0, <2>1 DEF RestartProgram, Ended
  <2>2. CASE QueueCommand
    BY <2>0, <2>a, <2>2 DEF QueueCommand
  <2>3. CASE Start
    BY <2>0, <2>a, <2>3 DEF Start
  <2>4. CASE Stop
    BY <2>0, <2>a, <2>4 DEF Stop
  <2>5. CASE DrainTest
    BY <2>0, <2>a, <2>5 DEF DrainTest
  <2>6. CASE DrainTake
    BY <2>0, <2>a, <2>6 DEF DrainTake
  <2>7. CASE JoinerEnds
    BY <2>0, <2>a, <2>7 DEF JoinerEnds
  <2>8. CASE BeginLoop
    BY <2>0, <2>a, <2>8 DEF BeginLoop
  <2>9. CASE init_async
    BY <2>0, <2>9 DEF init_async, ThreadInv
  <2>10. CASE CreateTasks
    BY <2>0, <2>10 DEF CreateTasks, ThreadInv
  <2>11. CASE RunPosted
    BY <2>0, <2>a, <2>11 DEF RunPosted
  <2>12. CASE TaskGroupAborts
    BY <1>0, <2>0, <2>12 DEF TaskGroupAborts, Ended
  <2>13. CASE ThreadEnds
    BY <2>0, <2>13 DEF ThreadEnds
  <2>14. ASSUME NEW t \in Tasks, SeesShutdown(t) PROVE Goal
    BY <2>0, <2>a, <2>14 DEF SeesShutdown, TaskEnds
  <2>15. CASE Connected
    BY <2>0, <2>a, <2>15 DEF Connected
  <2>16. CASE ConnectionRefused
    BY <2>0, <2>a, <2>16 DEF ConnectionRefused
  <2>17. CASE Reconnect
    BY <2>0, <2>a, <2>17 DEF Reconnect, TaskEnds
  <2>18. CASE Disconnect
    BY <2>0, <2>a, <2>18 DEF Disconnect, TaskEnds, TaskFails
  <2>19. CASE send_command
    BY <1>1f, <2>19
  <2>20. CASE Answered
    BY <1>0, <2>0, <2>20 DEF Answered, Ended
  <2>21. CASE TimeoutFires
    BY <2>0, <2>21 DEF TimeoutFires, Waits
  <2>22. CASE GiveUp
    BY <1>0, <2>0, <2>22 DEF GiveUp, Ended
  <2>23. CASE AwaitCancelled
    BY <1>0, <2>0, <2>23 DEF AwaitCancelled, Ended
  <2>24. CASE writer_loop
    BY <2>0, <2>a, <2>24 DEF writer_loop, TaskFails
  <2>25. CASE ReadHeader
    BY <2>0, <2>a, <2>25 DEF ReadHeader
  <2>26. CASE ReadPayload
    BY <2>0, <2>a, <2>26 DEF ReadPayload, Deliver, TaskFails
  <2>27. CASE PayloadTimeout
    BY <2>0, <2>a, <2>27 DEF PayloadTimeout
  <2>28. CASE ReadGarbage
    BY <2>0, <2>a, <2>28 DEF ReadGarbage, Deliver, TaskFails
  <2>29. CASE ReaderBreaks
    BY <2>0, <2>a, <2>29 DEF ReaderBreaks, TaskFails
  <2>30. CASE ServerAnswers
    BY <2>0, <2>a, <2>30 DEF ServerAnswers
  <2>31. CASE ServerSendsUnasked
    BY <2>0, <2>a, <2>31 DEF ServerSendsUnasked
  <2>32. CASE ServerCloses
    BY <2>0, <2>a, <2>32 DEF ServerCloses
  <2>33. CASE ServerSendsHeld
    BY <2>0, <2>a, <2>33 DEF ServerSendsHeld
  <2> QED BY <2>1, <2>2, <2>3, <2>4, <2>5, <2>6, <2>7, <2>8, <2>9, <2>10, <2>11, <2>12, <2>13,
     <2>14, <2>15, <2>16, <2>17, <2>18, <2>19, <2>20, <2>21, <2>22, <2>23, <2>24, <2>25,
     <2>26, <2>27, <2>28, <2>29, <2>30, <2>31, <2>32, <2>33
     DEF ClientNext, User, ParameterRaises, StopRaises, Drain, DrainRaises, Thread,
         connection_loop, state_machine, reader_loop, Console
<1> QED BY <1>1c, <1>1d, <1>1e, <1>1f DEF Waits

LEMMA HeadAndTail ==
    ASSUME NEW s \in Seq(Nat), s # <<>>
    PROVE  Head(s) \in InQueue(s) /\ InQueue(Tail(s)) \subseteq InQueue(s)
<1>1. /\ Len(s) \in Nat \ {0} /\ Head(s) = s[1]
      /\ Len(Tail(s)) = Len(s) - 1 /\ \A i \in 1 .. Len(Tail(s)) : Tail(s)[i] = s[i + 1]
  BY HeadTailProperties, EmptySeq, LenProperties
<1>2. \A i \in 1 .. Len(Tail(s)) : i + 1 \in 1 .. Len(s)
  BY <1>1
<1> QED BY <1>1, <1>2 DEF InQueue

LEMMA AppendAdds ==
    ASSUME NEW s \in Seq(Nat), NEW e \in Nat
    PROVE  InQueue(Append(s, e)) = InQueue(s) \cup {e}
<1>1. /\ Len(Append(s, e)) = Len(s) + 1 /\ Len(s) \in Nat
      /\ \A i \in 1 .. Len(s) : Append(s, e)[i] = s[i]
      /\ Append(s, e)[Len(s) + 1] = e
  BY AppendProperties, LenProperties
<1>2. 1 .. Len(s) + 1 = 1 .. Len(s) \cup {Len(s) + 1}
  BY <1>1
<1> QED BY <1>1, <1>2 DEF InQueue

\* What was written in this session came out of the writer's queue, and only command
\* processing adds to that.
LEMMA SentStep ==
    ASSUME PartsInv, ThreadInv, TakenInv, ResolvedInv, ClientNext
    PROVE  /\ sentNow' \subseteq sentNow \cup InQueue(sendQueue)
           /\ \/ InQueue(sendQueue') \subseteq InQueue(sendQueue)
              \/ /\ send_command
                 /\ InQueue(sendQueue') \subseteq InQueue(sendQueue) \cup {Head(cmdQueue)}
           /\ stage' # "up" => sentNow' = {}
<1> USE DEF guiVars, threadVars, groupVars, smVars, readVars, queueVars, pendVars,
   wireVars
<1> DEFINE Kept == /\ sentNow' \subseteq sentNow \cup InQueue(sendQueue)
                   /\ \/ InQueue(sendQueue') \subseteq InQueue(sendQueue)
                      \/ /\ send_command
                         /\ InQueue(sendQueue') \subseteq InQueue(sendQueue) \cup {Head(cmdQueue)}
                   /\ stage' # "up" => sentNow' = {}
<1>a. stage # "up" => sentNow = {} /\ tasks = {}
  BY DEF ResolvedInv, ThreadInv
<1>b. ASSUME sendQueue' \in {sendQueue, <<>>}, sentNow' \in {sentNow, {}},
             stage' # "up" => stage # "up" \/ sentNow' = {}
      PROVE  Kept
  BY <1>a, <1>b, EmptyInOrder
<1> SUFFICES Kept
  OBVIOUS
<1> HIDE DEF Kept
<1>1. CASE RestartProgram
  BY <1>b, <1>1 DEF RestartProgram
<1>2. CASE QueueCommand
  BY <1>b, <1>2 DEF QueueCommand
<1>3. CASE Start
  <2>1. live = {} /\ stage = "none"
    BY <1>3 DEF Start, ThreadInv
  <2>2. sendQueue' = sendQueue /\ sentNow' = sentNow
    BY <1>3 DEF Start
  <2> QED BY <1>a, <1>b, <2>1, <2>2
<1>4. CASE Stop
  BY <1>b, <1>4 DEF Stop
<1>5. CASE DrainTest
  BY <1>b, <1>5 DEF DrainTest
<1>6. CASE DrainTake
  BY <1>b, <1>6 DEF DrainTake
<1>7. CASE JoinerEnds
  BY <1>b, <1>7 DEF JoinerEnds
<1>8. CASE BeginLoop
  BY <1>b, <1>8 DEF BeginLoop
<1>9. CASE init_async
  BY <1>b, <1>9 DEF init_async
<1>10. CASE CreateTasks
  BY <1>b, <1>10 DEF CreateTasks
<1>11. CASE RunPosted
  BY <1>b, <1>11 DEF RunPosted
<1>12. CASE TaskGroupAborts
  BY <1>b, <1>12 DEF TaskGroupAborts, CloseConnection, reset_connection_state, CancelPending
<1>13. CASE ThreadEnds
  BY <1>b, <1>13 DEF ThreadEnds
<1>14. ASSUME NEW t \in Tasks, SeesShutdown(t) PROVE Kept
  BY <1>b, <1>14 DEF SeesShutdown, TaskEnds
<1>15. CASE Connected
  BY <1>b, <1>15 DEF Connected
<1>16. CASE ConnectionRefused
  BY <1>b, <1>16 DEF ConnectionRefused
<1>17. CASE Reconnect
  BY <1>b, <1>17 DEF Reconnect, CloseConnection, reset_connection_state, CancelPending,
     TaskEnds
<1>18. CASE Disconnect
  BY <1>b, <1>18 DEF Disconnect, CloseConnection, reset_connection_state, CancelPending,
     TaskEnds, TaskFails
<1>19. CASE send_command
  <2>1. /\ sendQueue' = Append(sendQueue, Head(cmdQueue)) /\ UNCHANGED <<stage, sentNow>>
    BY <1>19 DEF send_command
  <2>2. Head(cmdQueue) \in Nat
    BY <1>19, LineTypes, HeadTailProperties DEF send_command
  <2>3. InQueue(sendQueue') = InQueue(sendQueue) \cup {Head(cmdQueue)}
    BY <2>1, <2>2, LineTypes, AppendAdds
  <2> QED BY <1>a, <1>19, <2>1, <2>3 DEF Kept
<1>20. CASE Answered
  BY <1>b, <1>20 DEF Answered
<1>21. CASE TimeoutFires
  BY <1>b, <1>21 DEF TimeoutFires
<1>22. CASE GiveUp
  BY <1>b, <1>22 DEF GiveUp
<1>23. CASE AwaitCancelled
  BY <1>b, <1>23 DEF AwaitCancelled, TaskEnds
<1>24. CASE writer_loop
  <2>1. /\ sendQueue # <<>> /\ sendQueue' = Tail(sendQueue) /\ stage' = stage /\ tasks # {}
        /\ sentNow' = sentNow \cup {Head(sendQueue)}
    BY <1>24 DEF writer_loop
  <2>2. /\ Head(sendQueue) \in InQueue(sendQueue)
        /\ InQueue(Tail(sendQueue)) \subseteq InQueue(sendQueue)
    BY <2>1, LineTypes, HeadAndTail
  <2> QED BY <1>a, <2>1, <2>2 DEF Kept
<1>25. CASE ReadHeader
  BY <1>b, <1>25 DEF ReadHeader
<1>26. CASE ReadPayload
  BY <1>b, <1>26 DEF ReadPayload, Deliver, TaskFails
<1>27. CASE PayloadTimeout
  BY <1>b, <1>27 DEF PayloadTimeout
<1>28. CASE ReadGarbage
  BY <1>b, <1>28 DEF ReadGarbage, Deliver, TaskFails
<1>29. CASE ReaderBreaks
  BY <1>b, <1>29 DEF ReaderBreaks, TaskFails
<1>30. CASE ServerAnswers
  BY <1>b, <1>30 DEF ServerAnswers
<1>31. CASE ServerSendsUnasked
  BY <1>b, <1>31 DEF ServerSendsUnasked
<1>32. CASE ServerCloses
  BY <1>b, <1>32 DEF ServerCloses
<1>33. CASE ServerSendsHeld
  BY <1>b, <1>33 DEF ServerSendsHeld
<1> QED BY <1>1, <1>2, <1>3, <1>4, <1>5, <1>6, <1>7, <1>8, <1>9, <1>10, <1>11, <1>12, <1>13,
   <1>14, <1>15, <1>16, <1>17, <1>18, <1>19, <1>20, <1>21, <1>22, <1>23, <1>24, <1>25,
   <1>26, <1>27, <1>28, <1>29, <1>30, <1>31, <1>32, <1>33
   DEF Kept, ClientNext, User, ParameterRaises, StopRaises, Drain, DrainRaises, Thread,
       connection_loop, state_machine, reader_loop, Console

\* What has settled stays so: a request cancelled with its session is not written again.
LEMMA SettledStays ==
    ASSUME PartsInv, ThreadInv, TakenInv, AnswerInv, ResolvedInv, ClientNext,
           NEW x \in Requests, Settled(x)
    PROVE  Settled(x)'
<1>1. Ended(x) /\ Taken(x)
  BY DEF Settled, Resolved, Leftover, Ended, AnswerInv
<1>2. outcome'[x] = outcome[x]
  BY <1>1, EndedStays
<1>3. CASE Resolved(x)
  BY <1>2, <1>3 DEF Settled, Resolved
<1>4. CASE Leftover(x)
  <2>1. x \notin sentNow'
    BY <1>4, SentStep DEF Leftover
  <2>2. send_command => Head(cmdQueue) # x
    <3>1. send_command => Head(cmdQueue) \in InQueue(cmdQueue)
      BY LineTypes, TailKeepsOrder DEF send_command, TakenInv
    <3> QED BY <1>1, <3>1 DEF TakenInv
  <2>3. x \notin InQueue(sendQueue')
    BY <1>4, <2>2, SentStep DEF Leftover
  <2> QED BY <1>2, <1>4, <2>1, <2>3 DEF Settled, Leftover
<1> QED BY <1>3, <1>4 DEF Settled

\* Where command processing stays where it is, so does what it knows.
LEMMA ResolvedKept ==
    ASSUME ResolvedInv, Afloat \subseteq Requests, Afloat' \subseteq Afloat,
           stage' # "up" => sentNow' = {},
           \A x \in Requests : Settled(x) => Settled(x)',
           \A r \in Requests : Taken(r) => Taken(r)',
           tasks' \subseteq tasks, stage' = "inited" => stage = "inited",
           "state_machine" \in tasks' =>
             /\ sm # "poll" => /\ sm' # "poll" /\ current \in Requests
                               /\ outcome'[current] = outcome[current]
             /\ sm = "poll" => sm' = "poll"
             /\ current' = current
    PROVE  ResolvedInv'
<1>1. stage' = "inited" => \A x \in Afloat' : Settled(x)'
  BY DEF ResolvedInv
<1>2. ASSUME "state_machine" \in tasks', sm' # "poll"
      PROVE  outcome'[current'] = "waiting" /\ Taken(current)'
  BY <1>2 DEF ResolvedInv, Taken
<1>3. ASSUME "state_machine" \in tasks', NEW x \in Afloat', x # current' \/ sm' = "poll"
      PROVE  Settled(x)'
  <2>1. Settled(x) /\ x \in Requests
    BY <1>3 DEF ResolvedInv
  <2> QED BY <2>1
<1> QED BY <1>1, <1>2, <1>3 DEF ResolvedInv, Taken

LEMMA ResolvedStep ==
    ASSUME PartsInv, ThreadInv, PendInv, TakenInv, LineInv, HeldInv, AnswerInv, ResolvedInv,
           GoneInv, ClientNext
    PROVE  ResolvedInv'
<1> USE ClientAssumption
<1> USE DEF Tasks, guiVars, threadVars, groupVars, smVars, readVars, queueVars, pendVars,
   wireVars
<1>0. /\ outcome \in [Requests -> {"none", "queued", "dropped", "waiting", "answered",
                                   "timeout", "cancelled"}]
      /\ queued \in 0 .. MaxRequests /\ current \in 0 .. MaxRequests /\ 0 \notin Requests
      /\ Afloat \subseteq Requests
  BY LineTypes DEF PartsInv, RequestTypeOK, TaskTypeOK, Requests, Afloat, Flying, Sent
<1>a. /\ \A x \in Requests : Settled(x) => Settled(x)'
      /\ \A r \in Requests : Taken(r) => Taken(r)'
      /\ stage' # "up" => sentNow' = {}
  BY SettledStays, FutureStep, SentStep
<1>b. /\ ~send_command => Afloat' \subseteq Afloat
      /\ send_command => Afloat' \subseteq Afloat \cup {Head(cmdQueue)}
      /\ send_command => sm = "poll" /\ sm' = "wait"
  BY LineStep DEF send_command
<1>c. "state_machine" \in tasks /\ sm # "poll" => current \in Requests
  BY <1>0 DEF TakenInv, Requests
<1>1. CASE RestartProgram
  BY <1>0, <1>a, <1>b, <1>c, <1>1, ResolvedKept DEF RestartProgram
<1>2. CASE QueueCommand
  <2>1. queued + 1 \in Requests /\ ~Taken(queued + 1)
    BY <1>0, <1>2 DEF QueueCommand, TakenInv, Requests
  <2>2. outcome' = [outcome EXCEPT ![queued + 1] = "queued"]
    BY <1>2 DEF QueueCommand
  <2>3. "state_machine" \in tasks /\ sm # "poll" => outcome'[current] = outcome[current]
    BY <1>0, <1>c, <2>1, <2>2 DEF ResolvedInv
  <2>4. UNCHANGED <<tasks, stage, sm, current>>
    BY <1>2 DEF QueueCommand
  <2> QED BY <1>0, <1>a, <1>b, <1>c, <2>3, <2>4, ResolvedKept
<1>3. CASE Start
  BY <1>0, <1>a, <1>b, <1>c, <1>3, ResolvedKept DEF Start
<1>4. CASE Stop
  BY <1>0, <1>a, <1>b, <1>c, <1>4, ResolvedKept DEF Stop
<1>5. CASE DrainTest
  BY <1>0, <1>a, <1>b, <1>c, <1>5, ResolvedKept DEF DrainTest
<1>6. CASE DrainTake
  <2>1. Head(cmdQueue) \in InQueue(cmdQueue)
    BY <1>6, LineTypes, TailKeepsOrder DEF DrainTake, TakenInv
  <2>2. ~Taken(Head(cmdQueue))
    BY <2>1 DEF TakenInv
  <2>3. outcome' = [outcome EXCEPT ![Head(cmdQueue)] = "dropped"]
    BY <1>6 DEF DrainTake
  <2>4. "state_machine" \in tasks /\ sm # "poll" => outcome'[current] = outcome[current]
    BY <1>0, <1>c, <2>2, <2>3 DEF ResolvedInv
  <2>5. UNCHANGED <<tasks, stage, sm, current>>
    BY <1>6 DEF DrainTake
  <2> QED BY <1>0, <1>a, <1>b, <1>c, <2>4, <2>5, ResolvedKept
<1>7. CASE JoinerEnds
  BY <1>0, <1>a, <1>b, <1>c, <1>7, ResolvedKept DEF JoinerEnds
<1>8. CASE BeginLoop
  BY <1>0, <1>a, <1>b, <1>c, <1>8, ResolvedKept DEF BeginLoop
<1>9. CASE init_async
  <2>1. tasks = {} /\ tasks' = {} /\ sentNow' = {} /\ outcome' = outcome
    BY <1>9 DEF init_async, ThreadInv, ResolvedInv
  <2>2. InQueue(sendQueue') = {}
    BY <1>9, EmptyInOrder DEF init_async
  <2>3. ASSUME NEW x \in Afloat' PROVE Settled(x)'
    <3>1. x \in Requests /\ Taken(x)
      <4>1. x \in Afloat /\ x \in Requests
        BY <1>0, <1>b, <1>9, <2>3 DEF init_async, send_command
      <4> QED BY <4>1 DEF Afloat, LineInv, HeldInv
    <3>2. Ended(x)
      BY <2>1, <3>1 DEF GoneInv
    <3> QED BY <2>1, <2>2, <3>2 DEF Ended, Settled, Resolved, Leftover
  <2> QED BY <1>a, <2>1, <2>3 DEF ResolvedInv
<1>10. CASE CreateTasks
  <2>1. stage = "inited" /\ sm' = "poll" /\ stage' = "up" /\ Afloat' \subseteq Afloat
    BY <1>b, <1>10 DEF CreateTasks, PendInv, send_command
  <2>2. \A x \in Afloat' : Settled(x)'
    BY <1>0, <1>a, <2>1 DEF ResolvedInv
  <2> QED BY <2>1, <2>2 DEF ResolvedInv
<1>11. CASE RunPosted
  BY <1>0, <1>a, <1>b, <1>c, <1>11, ResolvedKept DEF RunPosted
<1>12. CASE TaskGroupAborts
  BY <1>0, <1>a, <1>b, <1>c, <1>12, ResolvedKept DEF TaskGroupAborts, CloseConnection,
     reset_connection_state, CancelPending
<1>13. CASE ThreadEnds
  <2>1. tasks' = {} /\ stage' = "none" /\ sentNow' = {}
    BY <1>13 DEF ThreadEnds
  <2> QED BY <2>1 DEF ResolvedInv
<1>14. ASSUME NEW t \in Tasks, SeesShutdown(t) PROVE ResolvedInv'
  BY <1>0, <1>a, <1>b, <1>c, <1>14, ResolvedKept DEF SeesShutdown, TaskEnds
<1>15. CASE Connected
  BY <1>0, <1>a, <1>b, <1>c, <1>15, ResolvedKept DEF Connected
<1>16. CASE ConnectionRefused
  BY <1>0, <1>a, <1>b, <1>c, <1>16, ResolvedKept DEF ConnectionRefused
<1>17. CASE Reconnect
  BY <1>0, <1>a, <1>b, <1>c, <1>17, ResolvedKept DEF Reconnect, CloseConnection,
     reset_connection_state, CancelPending, TaskEnds
<1>18. CASE Disconnect
  BY <1>0, <1>a, <1>b, <1>c, <1>18, ResolvedKept DEF Disconnect, CloseConnection,
     reset_connection_state, CancelPending, TaskEnds, TaskFails
<1>19. CASE send_command
  <2> DEFINE r == Head(cmdQueue)
  <2>1. r \in Requests
    BY <1>19, LineTypes, TailKeepsOrder DEF send_command, TakenInv
  <2>2. /\ current' = r /\ sm = "poll" /\ sm' = "wait" /\ tasks' = tasks /\ stage' = stage
        /\ outcome' = [outcome EXCEPT ![r] = "waiting"]
        /\ future' = [future EXCEPT ![r] = "open"] /\ "state_machine" \in tasks
    BY <1>19 DEF send_command
  <2>3. outcome'[r] = "waiting" /\ future'[r] # "none"
    BY <1>0, <2>1, <2>2 DEF PartsInv, RequestTypeOK
  <2>4. stage' # "inited"
    BY <2>2 DEF ThreadInv
  <2> HIDE DEF r
  <2>5. ASSUME NEW x \in Afloat', x # r PROVE Settled(x)'
    <3>1. x \in Afloat /\ x \in Requests
      BY <1>0, <1>b, <1>19, <2>5 DEF r
    <3>2. Settled(x)
      BY <2>2, <3>1 DEF ResolvedInv
    <3> QED BY <1>a, <3>1, <3>2
  <2> QED BY <1>a, <2>2, <2>3, <2>4, <2>5 DEF ResolvedInv, Taken
<1>20. CASE Answered
  <2>1. /\ "state_machine" \in tasks /\ sm # "poll" /\ sm' = "poll"
        /\ UNCHANGED <<tasks, stage, current>>
        /\ outcome' = [outcome EXCEPT ![current] = "answered"]
    BY <1>20 DEF Answered
  <2>2. ASSUME NEW x \in Afloat' PROVE Settled(x)'
    <3>1. x \in Afloat /\ x \in Requests
      BY <1>0, <1>b, <2>1
    <3>2. CASE x = current
      BY <1>0, <1>c, <2>1, <3>2 DEF Settled, Resolved
    <3>3. CASE x # current
      BY <1>a, <2>1, <3>1, <3>3 DEF ResolvedInv
    <3> QED BY <3>2, <3>3
  <2> QED BY <1>a, <2>1, <2>2 DEF ResolvedInv
<1>21. CASE TimeoutFires
  BY <1>0, <1>a, <1>b, <1>c, <1>21, ResolvedKept DEF TimeoutFires
<1>22. CASE GiveUp
  <2>1. /\ "state_machine" \in tasks /\ sm # "poll" /\ sm' = "poll"
        /\ UNCHANGED <<tasks, stage, current>>
        /\ outcome' = [outcome EXCEPT ![current] = "timeout"]
    BY <1>22 DEF GiveUp
  <2>2. ASSUME NEW x \in Afloat' PROVE Settled(x)'
    <3>1. x \in Afloat /\ x \in Requests
      BY <1>0, <1>b, <2>1
    <3>2. CASE x = current
      BY <1>0, <1>c, <2>1, <3>2 DEF Settled, Resolved
    <3>3. CASE x # current
      BY <1>a, <2>1, <3>1, <3>3 DEF ResolvedInv
    <3> QED BY <3>2, <3>3
  <2> QED BY <1>a, <2>1, <2>2 DEF ResolvedInv
<1>23. CASE AwaitCancelled
  BY <1>0, <1>a, <1>b, <1>c, <1>23, ResolvedKept DEF AwaitCancelled, TaskEnds
<1>24. CASE writer_loop
  BY <1>0, <1>a, <1>b, <1>c, <1>24, ResolvedKept DEF writer_loop, TaskFails
<1>25. CASE ReadHeader
  BY <1>0, <1>a, <1>b, <1>c, <1>25, ResolvedKept DEF ReadHeader
<1>26. CASE ReadPayload
  BY <1>0, <1>a, <1>b, <1>c, <1>26, ResolvedKept DEF ReadPayload, Deliver, TaskFails
<1>27. CASE PayloadTimeout
  BY <1>0, <1>a, <1>b, <1>c, <1>27, ResolvedKept DEF PayloadTimeout
<1>28. CASE ReadGarbage
  BY <1>0, <1>a, <1>b, <1>c, <1>28, ResolvedKept DEF ReadGarbage, Deliver, TaskFails
<1>29. CASE ReaderBreaks
  BY <1>0, <1>a, <1>b, <1>c, <1>29, ResolvedKept DEF ReaderBreaks, TaskFails
<1>30. CASE ServerAnswers
  BY <1>0, <1>a, <1>b, <1>c, <1>30, ResolvedKept DEF ServerAnswers
<1>31. CASE ServerSendsUnasked
  BY <1>0, <1>a, <1>b, <1>c, <1>31, ResolvedKept DEF ServerSendsUnasked
<1>32. CASE ServerCloses
  BY <1>0, <1>a, <1>b, <1>c, <1>32, ResolvedKept DEF ServerCloses
<1>33. CASE ServerSendsHeld
  BY <1>0, <1>a, <1>b, <1>c, <1>33, ResolvedKept DEF ServerSendsHeld
<1> QED BY <1>1, <1>2, <1>3, <1>4, <1>5, <1>6, <1>7, <1>8, <1>9, <1>10, <1>11, <1>12, <1>13,
   <1>14, <1>15, <1>16, <1>17, <1>18, <1>19, <1>20, <1>21, <1>22, <1>23, <1>24, <1>25, <1>26,
   <1>27, <1>28, <1>29, <1>30, <1>31, <1>32, <1>33
   DEF ClientNext, User, ParameterRaises, StopRaises, Drain, DrainRaises, Thread,
       connection_loop, state_machine, reader_loop, Console

\* Only reading gives an answer; it is given to one request, whose future was open.
LEMMA GivenWhenRead ==
    ASSUME PartsInv, ClientNext
    PROVE  /\ \A r \in Made : cmdOf'[r] = cmdOf[r]
           /\ got' = got \/ ReadPayload \/ ReadGarbage
           /\ givenOld \subseteq givenOld'
<1> USE ClientAssumption
<1> USE DEF guiVars, threadVars, groupVars, smVars, readVars, queueVars, pendVars,
   wireVars
<1> DEFINE Given == /\ \A r \in Made : cmdOf'[r] = cmdOf[r]
                    /\ got' = got \/ ReadPayload \/ ReadGarbage
                    /\ givenOld \subseteq givenOld'
<1>1. CASE RestartProgram
  BY <1>1 DEF RestartProgram
<1>2. CASE QueueCommand
  BY <1>2 DEF QueueCommand, Made, PartsInv, TaskTypeOK, RequestTypeOK
<1>3. CASE Start
  BY <1>3 DEF Start
<1>4. CASE Stop
  BY <1>4 DEF Stop
<1>5. CASE DrainTest
  BY <1>5 DEF DrainTest
<1>6. CASE DrainTake
  BY <1>6 DEF DrainTake
<1>7. CASE JoinerEnds
  BY <1>7 DEF JoinerEnds
<1>8. CASE BeginLoop
  BY <1>8 DEF BeginLoop
<1>9. CASE init_async
  BY <1>9 DEF init_async
<1>10. CASE CreateTasks
  BY <1>10 DEF CreateTasks
<1>11. CASE RunPosted
  BY <1>11 DEF RunPosted
<1>12. CASE TaskGroupAborts
  BY <1>12 DEF TaskGroupAborts, CloseConnection, reset_connection_state, CancelPending
<1>13. CASE ThreadEnds
  BY <1>13 DEF ThreadEnds
<1>14. ASSUME NEW t \in Tasks, SeesShutdown(t) PROVE Given
  BY <1>14 DEF SeesShutdown, TaskEnds
<1>15. CASE Connected
  BY <1>15 DEF Connected
<1>16. CASE ConnectionRefused
  BY <1>16 DEF ConnectionRefused
<1>17. CASE Reconnect
  BY <1>17 DEF Reconnect, CloseConnection, reset_connection_state, CancelPending, TaskEnds
<1>18. CASE Disconnect
  BY <1>18 DEF Disconnect, CloseConnection, reset_connection_state, CancelPending, TaskEnds,
     TaskFails
<1>19. CASE send_command
  BY <1>19 DEF send_command
<1>20. CASE Answered
  BY <1>20 DEF Answered
<1>21. CASE TimeoutFires
  BY <1>21 DEF TimeoutFires
<1>22. CASE GiveUp
  BY <1>22 DEF GiveUp
<1>23. CASE AwaitCancelled
  BY <1>23 DEF AwaitCancelled, TaskEnds
<1>24. CASE writer_loop
  BY <1>24 DEF writer_loop, TaskFails
<1>25. CASE ReadHeader
  BY <1>25 DEF ReadHeader
<1>26. CASE ReadPayload
  BY <1>26 DEF ReadPayload, Deliver, TaskFails
<1>27. CASE PayloadTimeout
  BY <1>27 DEF PayloadTimeout
<1>28. CASE ReadGarbage
  BY <1>28 DEF ReadGarbage, Deliver, TaskFails
<1>29. CASE ReaderBreaks
  BY <1>29 DEF ReaderBreaks, TaskFails
<1>30. CASE ServerAnswers
  BY <1>30 DEF ServerAnswers
<1>31. CASE ServerSendsUnasked
  BY <1>31 DEF ServerSendsUnasked
<1>32. CASE ServerCloses
  BY <1>32 DEF ServerCloses
<1>33. CASE ServerSendsHeld
  BY <1>33 DEF ServerSendsHeld
<1> QED BY <1>1, <1>2, <1>3, <1>4, <1>5, <1>6, <1>7, <1>8, <1>9, <1>10, <1>11, <1>12, <1>13,
   <1>14, <1>15, <1>16, <1>17, <1>18, <1>19, <1>20, <1>21, <1>22, <1>23, <1>24, <1>25, <1>26,
   <1>27, <1>28, <1>29, <1>30, <1>31, <1>32, <1>33
   DEF ClientNext, User, ParameterRaises, StopRaises, Drain, DrainRaises, Thread,
       connection_loop, state_machine, reader_loop, Console

LEMMA GivenToCurrent ==
    ASSUME PartsInv, PendInv, QuietInv, ClientNext, NEW r \in Requests, got'[r] # got[r]
    PROVE  /\ "state_machine" \in tasks /\ sm # "poll" /\ r = current
           /\ future[r] = "open" /\ outcome' = outcome /\ cmdOf' = cmdOf
           /\ \A q \in Requests : q # r => got'[q] = got[q]
           /\ \/ got'[r] = Garbage
              \/ /\ header \in Requests /\ got'[r] = header /\ cmdOf[r] = cmdOf[header]
                 /\ header \notin sentNow => r \in givenOld'
<1>0. /\ got \in [Requests -> {Garbage, 0} \cup Requests] /\ pending \in [Cmds -> 0 .. MaxRequests]
      /\ \A q \in Made : cmdOf[q] \in Cmds
  BY DEF PartsInv, RequestTypeOK, MadeInv
<1>1. ASSUME NEW c \in Cmds, NEW answer, Deliver(c, answer), "reader" \in tasks
      PROVE  /\ "state_machine" \in tasks /\ sm # "poll" /\ r = current /\ cmdOf[r] = c
             /\ future[r] = "open" /\ got'[r] = answer
             /\ answer # Garbage /\ answer \notin sentNow => r \in givenOld'
             /\ \A q \in Requests : q # r => got'[q] = got[q]
  <2>1. /\ pending[c] = r /\ future[r] = "open" /\ got' = [got EXCEPT ![r] = answer]
        /\ answer # Garbage /\ answer \notin sentNow => r \in givenOld'
    BY <1>0, <1>1 DEF Deliver
  <2>2. pending[c] # 0
    BY <2>1 DEF Requests
  <2>3. "state_machine" \in tasks
    BY <1>1, <2>2 DEF QuietInv, NoPending
  <2>4. r = current /\ cmdOf[r] = c /\ sm # "poll"
    BY <1>1, <2>1, <2>2, <2>3 DEF PendInv, PendingIsCurrent
  <2> QED BY <1>0, <2>1, <2>3, <2>4
<1>2. ReadPayload \/ ReadGarbage
  BY GivenWhenRead
<1>3. CASE ReadPayload
  <2>1. /\ "reader" \in tasks /\ header # NoHeader /\ UNCHANGED <<outcome, cmdOf>>
        /\ IF header = Unasked THEN UNCHANGED pendVars ELSE Deliver(cmdOf[header], header)
    BY <1>3 DEF ReadPayload, smVars, queueVars
  <2>2. header \in Made /\ header \in Requests /\ Deliver(cmdOf[header], header)
    BY <2>1, LineTypes DEF pendVars, PartsInv, StreamInv
  <2>3. cmdOf[header] \in Cmds /\ header # Garbage
    BY <1>0, <2>2, LineTypes DEF Garbage
  <2> QED BY <1>1, <2>1, <2>2, <2>3
<1>4. CASE ReadGarbage
  <2>1. /\ "reader" \in tasks /\ UNCHANGED <<outcome, cmdOf>>
        /\ UNCHANGED pendVars \/ \E c \in Cmds : Deliver(c, Garbage)
    BY <1>4 DEF ReadGarbage, smVars, queueVars
  <2>2. PICK c \in Cmds : Deliver(c, Garbage)
    BY <2>1 DEF pendVars
  <2> QED BY <1>1, <2>1, <2>2
<1> QED BY <1>2, <1>3, <1>4

LEMMA AnswerOrderStep ==
    ASSUME PartsInv, PendInv, QuietInv, TakenInv, LineInv, AnswerInv, AnswersKeepOrder, ClientNext
    PROVE  AnswersKeepOrder'
<1> SUFFICES ASSUME NEW r \in Requests, NEW q \in Requests, r < q, got'[r] > 0, got'[q] > 0
             PROVE  got'[r] < got'[q]
  BY DEF AnswersKeepOrder
<1>1. Requests \subseteq Nat \ {0} /\ got \in [Requests -> {Garbage, 0} \cup Requests]
  BY LineTypes DEF PartsInv, RequestTypeOK
<1>2. CASE got'[r] = got[r] /\ got'[q] = got[q]
  BY <1>2 DEF AnswersKeepOrder
<1>3. CASE got'[r] # got[r]
  <2>1. "state_machine" \in tasks /\ sm # "poll" /\ r = current /\ got'[q] = got[q]
    BY <1>1, <1>3, GivenToCurrent
  <2>2. Taken(q)
    BY <1>1, <2>1 DEF AnswerInv, Taken
  <2>3. q <= current
    BY <2>1, <2>2 DEF TakenInv
  <2> QED BY <1>1, <2>1, <2>3
<1>4. CASE got'[q] # got[q]
  <2>1. got'[q] = header /\ header \in Requests /\ got'[r] = got[r]
    BY <1>1, <1>4, GivenToCurrent DEF Garbage
  <2> QED BY <2>1 DEF LineInv, Flying
<1> QED BY <1>2, <1>3, <1>4

\* An answer that is given to another request than its own was too late for its own.
LEMMA LateStep ==
    ASSUME PartsInv, ThreadInv, PendInv, QuietInv, TakenInv, LineInv, AnswerInv, ResolvedInv,
           AnswerIsOwnOrLate, ClientNext
    PROVE  AnswerIsOwnOrLate'
<1> DEFINE Culprit(q, r) == cmdOf[q] = cmdOf[r] /\ FallsBehind(q)
<1> SUFFICES ASSUME NEW r \in Requests, got'[r] > 0, got'[r] # r
             PROVE  /\ got'[r] < r
                    /\ cmdOf'[got'[r]] = cmdOf'[r]
                    /\ outcome'[got'[r]] \in {"timeout", "answered", "cancelled"}
                    /\ outcome'[got'[r]] = "cancelled" => r \in givenOld'
                    /\ \E q \in 1 .. got'[r] :
                         /\ cmdOf'[q] = cmdOf'[r]
                         /\ outcome'[q] \in {"timeout", "cancelled"} \/ got'[q] = Garbage
  BY DEF AnswerIsOwnOrLate, FallsBehind
<1>1. /\ Requests \subseteq Nat \ {0} /\ got \in [Requests -> {Garbage, 0} \cup Requests]
      /\ Garbage = -1 /\ queued \in 0 .. MaxRequests /\ MaxRequests \in Nat
  BY ClientAssumption, LineTypes DEF PartsInv, RequestTypeOK, TaskTypeOK, Garbage
<1>2. \A q \in Requests : Ended(q) => outcome'[q] = outcome[q]
  BY EndedStays
<1>3. \A q \in Requests : got[q] # 0 => got'[q] = got[q]
  BY GivenToCurrent DEF AnswerInv
<1>4. \A q \in Requests : Taken(q) => q \in Made
  BY DEF TakenInv, Requests, Made, PartsInv, TaskTypeOK
<1>5. CASE got'[r] = got[r]
  <2> DEFINE h == got[r]
  <2>1. /\ h < r /\ cmdOf[h] = cmdOf[r] /\ Ended(h) /\ h \in Requests
        /\ outcome[h] = "cancelled" => r \in givenOld
    BY <1>1, <1>5 DEF AnswerIsOwnOrLate, Ended
  <2>2. PICK q \in 1 .. h : Culprit(q, r)
    BY <1>5 DEF AnswerIsOwnOrLate
  <2>3. r \in Made /\ \A x \in 1 .. r : x \in Made /\ x \in Requests
    <3>1. Taken(r)
      BY <1>1, <1>5 DEF AnswerInv, Taken
    <3> QED BY <1>1, <1>4, <3>1 DEF Made, Requests
  <2>4. h \in 1 .. r /\ q \in 1 .. r
    <3>0. h \in Nat \ {0} /\ r \in Nat \ {0}
      BY <1>1, <2>1
    <3>1. h \in Nat /\ h > 0 /\ r \in Nat /\ h < r
      BY <2>1, <3>0
    <3> HIDE DEF h
    <3>2. h \in 1 .. r
      BY <3>1
    <3>3. q \in Int /\ 1 <= q /\ q <= h
      BY <3>1
    <3> QED BY <3>1, <3>2, <3>3
  <2>5. /\ cmdOf'[h] = cmdOf[h] /\ cmdOf'[q] = cmdOf[q] /\ cmdOf'[r] = cmdOf[r]
        /\ givenOld \subseteq givenOld'
    BY <2>3, <2>4, GivenWhenRead
  <2>6. outcome'[q] \in {"timeout", "cancelled"} \/ got'[q] = Garbage
    <3>1. q \in Requests
      BY <2>3, <2>4
    <3>2. outcome[q] \in {"timeout", "cancelled"} => outcome'[q] = outcome[q]
      BY <1>2, <3>1 DEF Ended
    <3>3. got[q] = Garbage => got'[q] = Garbage
      BY <1>1, <1>3, <3>1
    <3> QED BY <2>2, <3>2, <3>3 DEF FallsBehind
  <2>7. outcome'[h] = outcome[h] /\ outcome[h] \in {"timeout", "answered", "cancelled"}
    BY <1>2, <2>1 DEF Ended
  <2>8. outcome'[h] = "cancelled" => r \in givenOld'
    BY <2>1, <2>5, <2>7
  <2> QED BY <1>5, <2>1, <2>2, <2>5, <2>6, <2>7, <2>8
<1>6. CASE got'[r] # got[r]
  <2>1. /\ "state_machine" \in tasks /\ sm # "poll" /\ r = current
        /\ outcome' = outcome /\ cmdOf' = cmdOf
        /\ header \in Requests /\ got'[r] = header /\ cmdOf[r] = cmdOf[header]
        /\ header \notin sentNow => r \in givenOld'
    BY <1>1, <1>6, GivenToCurrent
  <2>2. header \in Flying /\ Taken(header) /\ header \in Afloat
    BY <2>1 DEF Flying, LineInv, Afloat
  <2>3. header <= r
    BY <2>1, <2>2 DEF TakenInv
  <2>4. header < r
    BY <1>1, <2>1, <2>3
  <2>5. Settled(header)
    BY <2>1, <2>2 DEF ResolvedInv
  <2>5a. /\ outcome[header] \in {"timeout", "answered", "cancelled"}
         /\ outcome[header] = "cancelled" => r \in givenOld'
    BY <2>1, <2>5 DEF Settled, Resolved, Leftover
  <2>6. \E q \in 1 .. header : /\ cmdOf[q] = cmdOf[header]
                               /\ outcome[q] \in {"timeout", "cancelled"} \/ got'[q] = Garbage
    <3>0. header \in 1 .. header
      BY <1>1, <2>1
    <3>1. CASE outcome[header] \in {"timeout", "cancelled"}
      BY <3>0, <3>1
    <3>2. CASE outcome[header] = "answered"
      <4>1. got[header] # 0 /\ got'[header] = got[header]
        BY <1>3, <2>1, <3>2 DEF AnswerInv
      <4>2. CASE got[header] = Garbage
        BY <3>0, <4>1, <4>2
      <4>3. CASE got[header] \in Requests
        <5>1. got[header] < header /\ got[header] > 0
          <6>1. got[header] < header
            BY <2>1, <2>2 DEF LineInv
          <6>2. got[header] \in Nat \ {0}
            BY <1>1, <4>3
          <6> QED BY <6>1, <6>2
        <5>2. PICK q \in 1 .. got[header] : Culprit(q, header)
          BY <1>1, <2>1, <5>1 DEF AnswerIsOwnOrLate
        <5>3. q \in 1 .. header /\ q \in Requests
          BY <1>1, <2>1, <4>3, <5>1 DEF Requests
        <5>4. got[q] = Garbage => got'[q] = Garbage
          BY <1>1, <1>3, <5>3
        <5> QED BY <5>2, <5>3, <5>4 DEF FallsBehind
      <4> QED BY <1>1, <2>1, <4>1, <4>2, <4>3
    <3> QED BY <2>5a, <3>1, <3>2
  <2>7. \E q \in 1 .. got'[r] : /\ cmdOf'[q] = cmdOf'[r]
                                /\ outcome'[q] \in {"timeout", "cancelled"} \/ got'[q] = Garbage
    <3>1. PICK q \in 1 .. header :
             /\ cmdOf[q] = cmdOf[header]
             /\ outcome[q] \in {"timeout", "cancelled"} \/ got'[q] = Garbage
      BY <2>6
    <3> QED BY <2>1, <3>1
  <2>8. got'[r] < r /\ cmdOf'[got'[r]] = cmdOf'[r]
    BY <2>1, <2>4
  <2>9. /\ outcome'[got'[r]] \in {"timeout", "answered", "cancelled"}
        /\ outcome'[got'[r]] = "cancelled" => r \in givenOld'
    BY <2>1, <2>5a
  <2> QED BY <2>7, <2>8, <2>9
<1> QED BY <1>5, <1>6

-----------------------------------------------------------------------------
LEMMA InitInvs == ClientInit => PartsInv /\ ThreadInv /\ PendInv
<1> SUFFICES ASSUME ClientInit PROVE PartsInv /\ ThreadInv /\ PendInv
  OBVIOUS
<1> USE ClientAssumption DEF ClientInit, NoPending
<1>1. SessionTypeOK
  <2>1. gui \in {"idle", "draining", "taking"}
    OBVIOUS
  <2>2. thread \in 0 .. MaxSessions
    OBVIOUS
  <2>3. loopOf \in 0 .. MaxSessions
    OBVIOUS
  <2>4. started \in 0 .. MaxSessions
    OBVIOUS
  <2>5. joining \subseteq Sessions
    BY DEF Sessions
  <2>6. live \subseteq Sessions
    BY DEF Sessions
  <2>7. stage \in {"none", "starting", "looped", "inited", "up"}
    OBVIOUS
  <2>8. posted \in BOOLEAN
    OBVIOUS
  <2>9. running \in BOOLEAN
    OBVIOUS
  <2>10. shutdown \in {"unset", "clear", "set"}
    OBVIOUS
  <2>11. tasks \subseteq Tasks
    OBVIOUS
  <2>12. failed \in BOOLEAN
    OBVIOUS
  <2> QED BY <2>1, <2>2, <2>3, <2>4, <2>5, <2>6, <2>7, <2>8, <2>9, <2>10, <2>11, <2>12 DEF
     SessionTypeOK
<1>2. TaskTypeOK
  <2>1. sm \in {"poll", "wait", "late"}
    OBVIOUS
  <2>2. current \in 0 .. MaxRequests
    OBVIOUS
  <2>3. conn \in {"connecting", "connected", "backoff"}
    OBVIOUS
  <2>4. linked \in BOOLEAN
    OBVIOUS
  <2>5. link \in {"down", "up", "eof", "reset"}
    OBVIOUS
  <2>6. queued \in 0 .. MaxRequests
    OBVIOUS
  <2>7. unasked \in 0 .. MaxUnasked
    OBVIOUS
  <2>8. garbled \in BOOLEAN
    OBVIOUS
  <2> QED BY <2>1, <2>2, <2>3, <2>4, <2>5, <2>6, <2>7, <2>8 DEF TaskTypeOK
<1>3. QueueInv /\ StreamInv
  BY EmptySeq DEF QueueInv, StreamInv
<1>4. RequestTypeOK /\ MadeInv
  BY DEF RequestTypeOK, MadeInv, Made
<1>5. ThreadInv
  BY DEF ThreadInv
<1>6. PendInv
  BY DEF PendInv, PendingIsCurrent
<1>7. HeldTypeOK /\ HistoryTypeOK
  BY DEF HeldTypeOK, HistoryTypeOK
<1> QED BY <1>1, <1>2, <1>3, <1>4, <1>5, <1>6, <1>7 DEF PartsInv

LEMMA PartsHold == ClientSpec => []PartsInv
<1>1. ClientInit => PartsInv
  BY InitInvs
<1>2. PartsInv /\ [ClientNext]_clientVars => PartsInv'
  <2>1. CASE PartsInv /\ ClientNext
    BY <2>1, PartsStep
  <2>2. CASE PartsInv /\ UNCHANGED clientVars
    BY <2>2 DEF clientVars, guiVars, threadVars, groupVars, smVars, readVars, queueVars,
       pendVars,
                wireVars, PartsInv, SessionTypeOK, TaskTypeOK, QueueInv, StreamInv, RequestTypeOK,
                MadeInv, HeldTypeOK, HistoryTypeOK, Made, Parts
  <2> QED BY <2>1, <2>2
<1> QED BY <1>1, <1>2, PTL DEF ClientSpec

\* Whatever the user presses, the network does and the timeouts interrupt, no variable of
\* the client leaves its type.
THEOREM ClientTypeCorrect == ClientSpec => []ClientTypeOK
BY PartsHold, PartsGiveType, PTL

ClientInv == ThreadInv /\ PendInv /\ QuietInv /\ TakenInv /\ LineInv /\ HeldInv /\ AnswerInv
               /\ ResolvedInv /\ GoneInv /\ AnswersKeepOrder /\ AnswerIsOwnOrLate

LEMMA InitClientInv == ClientInit => ClientInv
<1> SUFFICES ASSUME ClientInit PROVE ClientInv
  OBVIOUS
<1> USE ClientAssumption DEF ClientInit
<1>1. Flying = {}
  BY EmptyInOrder DEF Flying, Sent, NoHeader, Requests
<1>2. QuietInv /\ TakenInv
  BY EmptyInOrder DEF QuietInv, TakenInv, Taken
<1>3. Sent = {}
  BY <1>1 DEF Flying
<1>4. LineInv
  BY EmptyInOrder, <1>1, <1>3 DEF LineInv, Requests
<1>5. AnswerInv /\ ResolvedInv /\ GoneInv /\ HeldInv
  <2>1. NoHeader \notin Requests /\ Afloat = {}
    BY <1>1 DEF Afloat, NoHeader, Requests
  <2> QED BY <1>1, <2>1 DEF AnswerInv, ResolvedInv, GoneInv, HeldInv, Ended, Taken
<1>6. AnswersKeepOrder /\ AnswerIsOwnOrLate
  BY DEF AnswersKeepOrder, AnswerIsOwnOrLate
<1> QED BY <1>2, <1>4, <1>5, <1>6, InitInvs DEF ClientInv

LEMMA ClientInvHolds == StartWaitsForJoiner => (ClientSpec => []ClientInv)
<1> SUFFICES ASSUME StartWaitsForJoiner PROVE ClientSpec => []ClientInv
  OBVIOUS
<1>1. ClientInit => ClientInv
  BY InitClientInv
<1>2. PartsInv /\ ClientInv /\ [ClientNext]_clientVars => ClientInv'
  <2>1. CASE PartsInv /\ ClientInv /\ ClientNext
    <3>1. ClientTypeOK /\ StreamInv /\ MadeInv
      BY <2>1, PartsGiveType DEF PartsInv
    <3>2. ThreadInv' /\ PendInv'
      BY <2>1, <3>1, ThreadStep, PendStep DEF ClientInv
    <3>3. QuietInv' /\ TakenInv' /\ LineInv' /\ HeldInv'
      BY <2>1, <3>1, QuietStep, TakenStep, LineStep DEF ClientInv
    <3>4. AnswerInv' /\ ResolvedInv' /\ GoneInv'
      BY <2>1, AnswerStep, ResolvedStep, GoneStep DEF ClientInv
    <3>5. AnswersKeepOrder' /\ AnswerIsOwnOrLate'
      BY <2>1, AnswerOrderStep, LateStep DEF ClientInv
    <3> QED BY <3>2, <3>3, <3>4, <3>5 DEF ClientInv
  <2>2. CASE PartsInv /\ ClientInv /\ UNCHANGED clientVars
    <3> USE <2>2 DEF clientVars, guiVars, threadVars, groupVars, smVars, readVars, queueVars,
       pendVars, wireVars
    <3>1. ThreadInv' /\ PendInv' /\ QuietInv'
      BY DEF ClientInv, ThreadInv, PendInv, PendingIsCurrent, QuietInv
    <3>2. TakenInv' /\ LineInv' /\ HeldInv'
      BY DEF ClientInv, TakenInv, LineInv, HeldInv, Taken, Flying, Sent
    <3>3. AnswerInv' /\ GoneInv'
      BY DEF ClientInv, AnswerInv, GoneInv, Ended, Taken
    <3>4. ResolvedInv'
      BY DEF ClientInv, ResolvedInv, Settled, Resolved, Leftover, Taken, Afloat, Flying, Sent
    <3>5. AnswersKeepOrder' /\ AnswerIsOwnOrLate'
      BY DEF ClientInv, AnswersKeepOrder, AnswerIsOwnOrLate, FallsBehind
    <3> QED BY <3>1, <3>2, <3>3, <3>4, <3>5 DEF ClientInv
  <2> QED BY <2>1, <2>2
<1> QED BY <1>1, <1>2, PartsHold, PTL DEF ClientSpec

\* If a session is only started when the joiner of the last one is done, pending never
\* holds an entry but that of the request command processing waits for: answers, late
\* answers, timeouts, resets of the connection and new sessions leave none behind.
THEOREM PendingIsCurrentCorrect == StartWaitsForJoiner => (ClientSpec => []PendingIsCurrent)
<1>1. ClientInv => PendingIsCurrent
  BY DEF ClientInv, PendInv
<1> QED BY <1>1, ClientInvHolds, PTL

\* Under the same assumption no answer is given to two requests, and the answers given are
\* in the order of the requests they belong to, whatever was lost, late or cut in between:
\* requests and answers stay in line from the user's queue to the futures.
THEOREM AnswersKeepOrderCorrect == StartWaitsForJoiner => (ClientSpec => []AnswersKeepOrder)
<1>1. ClientInv => AnswersKeepOrder
  BY DEF ClientInv
<1> QED BY <1>1, ClientInvHolds, PTL

\* Under the same assumption a request that is given another's answer is given that of an
\* earlier request with the same command, which timed out, was cancelled or follows one that
\* did or was given garbage, and an answer that was cancelled comes from a connection of an
\* earlier session: the one frame a new connection may begin with.
THEOREM AnswerIsOwnOrLateCorrect == StartWaitsForJoiner => (ClientSpec => []AnswerIsOwnOrLate)
<1>1. ClientInv => AnswerIsOwnOrLate
  BY DEF ClientInv
<1> QED BY <1>1, ClientInvHolds, PTL
=============================================================================
