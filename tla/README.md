# Verification of SPM-Command-Client

The repository holds a mod for *Super Paper Mario* on the Wii (`src/mod`, C++) and a client for
the PC (`src/client/netmemoryaccess_client.py`). The mod opens a TCP server in the game; a client
sends binary commands (read the item index, give Mario an item, spawn an effect, ...) and receives
one response frame per command, a hello when it connects and one notification from the game.
This directory models the mod in TLA+, checks the models with TLC and proves the main results
with TLAPS. All `src/...` paths below are relative to the repository; file names without a
directory are under `src/mod/source`.

Modelled: the packet ring, the server's threads, the network start-up, the commands and the parser
of their parameters, the tracking of effects, the script and message patches, and the PC client.
All of them are also proved about. Section 8 says what is left out and why.

## 1. Inventory

| component | source | state | operations | interacts with |
|---|---|---|---|---|
| packet ring | `netmemoryaccess.cpp` 24-26, 95-109, 161-185 | `outgoingPackets`, head, tail | `enqueuePacket`, `DequeueOutgoing`, reset | receiver and game put, sender takes, under `gQueueMutex` |
| server threads | `netmemoryaccess.cpp` | `gConnFd`, `gConnAlive` (under `gConnMutex`), each thread's locals | `initializeNetwork`, `receiverLoop`, `senderLoop`, `SendAll`, `RecvAll`, `SetConnection`, `ClearConnection`, `GetConnection` | sockets, ring, command manager |
| commands | `commandmanager.cpp`, `commands.cpp` | `commandTable`, `gsw[1000]` (item index), Mario's key counter, script table, `tracked`, response buffer | `parseAndExecute`, `payloadProcess`, nine commands, script `give_ap_item` | receiver calls them; the game's thread runs the script |
| game hooks | `mod.cpp` | `ranOnce`, `tracked`, `trackedCount`, `pendingAllocs` | `new_itemCollectPouchItem`, `effDebug`, `memAllocDebug`, ... | ring (notification), commands (tracker) |
| script patching | `evtpatch.cpp` | return stacks and jump tables per script, patched script words | `hookEvt*`, `evtpatch` call/return, delete hooks | the game's script interpreter |
| message patching | `msgpatch.cpp` | table of custom messages | `AddEntry`, `DelEntry`, `msgSearch*` | the game's text lookups |
| socket library | `net/network_wii.cpp` | IOS handles, init state | `Mynet_*` | IOS (external) |
| HTTP client | `net/spmhttp.cpp`, `corehttp/` | - | - | not called by the mod |
| PC client | `src/client/netmemoryaccess_client.py` | controller (`thread`, `loop`), `running`, `shutdown`, pending futures per command, command and writer queues | GUI callbacks, the session's thread with its connection, reader, writer, command and heartbeat tasks, a joiner thread | the server, a terminal UI |
| second PC client | `src/mod/net/netmemoryaccess_client.py` | - | one command per connection, of an earlier protocol | used by no other file |
| loader, patch, utilities | `rel.cpp`, `patch.cpp`, `util.cpp`, ... | - | start-up code | - |
| vendored parsers and libc pieces | `core_json.cpp`, `corehttp/llhttp.c`, `base64.c`, ... | - | - | - |

What is hard, and what makes each part correct:

* **Ring.** Three threads, a ring with one free slot. Correct: a bounded FIFO, and no slot handed
  out that nobody wrote.
* **Server threads.** The sender copies the published descriptor and then works without the mutex,
  so everything the receiver does (close, accept, reset, publish) can happen under it, and
  descriptors are small numbers handed out again. Correct: what is published is open and is the
  served client's; a client's byte stream stays a sequence of frames, in order, each once; at
  most one stray frame after a change of client; a dead client does not block the server.
* **Commands.** A busy test, a key-off, the start of a script and a store into it are four calls;
  the script runs in another thread and gives the key back much later; the table of scripts and
  the key counter are shared with the game. Correct: one item at a time, key held meanwhile,
  every accepted item given once and in order, Mario released; the answer sent is the command's.
  What the game does with the scripts in its table is its own affair, deleting them included.
* **Game hooks.** Two tables of which rows are removed by moving the last one into the hole, one of
  them while it is being walked over. Correct: the walk looks at every row once.
* **Network start-up.** Eight calls that can each fail, a retry around them, one global handle that
  the game's thread uses meanwhile. Correct: no handle is lost, and success means it works.
* **Script patching.** A call takes the place of instructions of another length; calls nest; a
  script may be deleted, restarted or all of them be initialised anew inside a call. Correct: the
  script does what its edited lines say and every call returns to its caller.
* **Message patching.** A fixed table without a length, closed up after each deletion. Correct: no
  gaps, the table is a list, and the newest text for a name is the one that is shown.
* **Parameters.** Two programs, two byte orders, packets cut anywhere, arrays of sixteen slots that
  nothing guards. Correct: what arrives is what was typed, value by value, as long as it fits.
* **PC client.** Timeouts in the middle of a frame, answers that come late, a connection lost between
  any two awaits, a session stopped at any point of its start. Correct: an answer
  reaches the request it belongs to, or a later one only in known circumstances; stopping ends a session.

The complete list of hazards, each at its line, is in `PROJECT.json`.

## 2. Modules

| module | models | uses |
|---|---|---|
| `OutgoingQueue` | abstract: bounded FIFO that refuses when full and can be emptied | |
| `OutgoingRing` | the ring as arrays and indices | `INSTANCE OutgoingQueue` (refinement) |
| `NetMemoryAccess` | receiver, sender, game notification, clients, socket layer | `EXTENDS OutgoingRing` |
| `MCNetMemoryAccess` | packets and symmetry for TLC | `NetMemoryAccess` |
| `NetMemoryAccessProof` | theorems about the ring and the server | `NetMemoryAccess` |
| `NetOrderProof` | theorems about the order of answers | `NetMemoryAccessProof` |
| `Commands` | what each command does; item delivery step by step; the game's scripts | |
| `CommandsProof` | theorems about the commands | `Commands` |
| `SpmapClient` | the PC client against any server | |
| `SpmapClientProof` | theorems about the client | `SpmapClient` |
| `NetInit` | `Mynet_init`, its retry, the title screen's query | |
| `EvtPatch` | the script patches and the game's interpreter | |
| `MCEvtPatch` | scripts for TLC | `EvtPatch` |
| `EvtPatchProof` | theorems about calls between scripts and about scripts as code | `EvtPatch`, `NatRecursion` |
| `MsgList` | abstract: a bounded list of texts | |
| `MsgPatch` | the table of messages and the searches | `INSTANCE MsgList` (refinement) |
| `MCMsgPatch` | the game's messages for TLC | `MsgPatch` |
| `MsgPatchProof` | theorems about the table and the searches | `MsgPatch`, `NatRecursion` |
| `Payload` | parameters, packed by the client and parsed by the console | |
| `EffTracker` | tracked effects and pending allocations | |
| `ConsolePartsProof` | theorems about start-up, parameters and effects | `NetInit`, `Payload`, `EffTracker`, `NatRecursion` |
| `NatRecursion` | induction and recursive functions over the numbers, as lemmas on sets and functions | |
| `MCParts` | the parts that share no state, one of them running | `SpmapClient`, `MCEvtPatch`, `NetInit`, `OutgoingRing`, `MCMsgPatch`, `Payload`, `EffTracker` |

`Mutant:` definitions are plausible bugs (a dropped guard, an off-by-one, ...), never used by the
specifications; `PROJECT.json` pairs each with the property that finds it.

### Ring

`outgoingPackets` is a function on slots `0 .. MAX_OUTGOING - 1`, `goutgoingHead` and
`goutgoingTail` are the code's indices. `enqueuePacket`, `DequeueOutgoing` and `ResetQueue` are the
three critical sections of `gQueueMutex`. A refused packet is recorded in a history variable, so
that the refinement says *when* the code may refuse. The array starts with no packet in it: the
code's slots are zero, but nothing in a zero slot is a packet.

### Server

`rPc` names the place in `receiverLoop`, `sPc` the one in `senderLoop`; a step is a critical section
or a socket call. `connfd` and `request` are locals of the receiver, `sFd`, `sPkt` and `sOff` of the
sender. A frame has two halves: enough to see a write that took part of it and the connection
ending there. Packets are what they answer (hello of a connection, response to the n-th request,
notification); ids, lengths and payloads of frames do not matter to any property here. A request
arrives whole (`short`), in two parts (`long`, then `rest`), or with a length field the receiver
rejects (`bad`, after which it closes). `-EAGAIN` from a read or write is retried at once in the
code and is a stuttering step here.

`fdConn` is the descriptor table of the socket layer: `accept` may hand out any number that is not
open, as the code's own comments about stale descriptors suppose. `Disconnect` lets the sent
requests arrive first; `Break` loses them and makes calls fail.

Every interleaving of the threads is allowed. This is more than the Wii does, whose scheduler
runs the thread of highest priority; with `StrictPriority = TRUE` the sender (priority 24)
runs only while the receiver (16) waits in a system call. The runs that must find a violation use
it, so that their counterexamples are executions of the real scheduler too; the passing runs and the
theorems do not need it.

### Commands

The receiver executes one command at a time. A command is one step, except `item`, whose calls
into the game (busy test, `marioKeyOff`, `evtEntry`, store of `lw[0]`) are a step each. `evt` is the
game's script table: an entry is free, used by a script of the game's own, or somewhere in
`give_ap_item` (about to create the item, waiting for Mario to collect it, about to give the
key back). `keyOff` is the game's counter and `gameOffs` the part of it the game's own
scripts took. The counter is a `u8` in the game; it stays far from 256 because an item command
adds to it only when it is 0, so its width is not modelled. `scratch` is what the response buffer
holds behind the packet header, as the text last formatted into it; `answer` pairs what the
last command had to say with the bytes that were sent.

`Respond` formats into the response buffer, `RespondFromLocal` formats into a local array and returns
the length, `RespondNothing` returns 0. Whether a payload parses is a choice; the parsed
integer is one of `ItemIds`, and the conversion `(u16)itemId` is kept.

`GamePreempts` says whether the game's thread can run inside a command. The receiver has priority 16,
the default of the game's main thread, and threads of equal priority change only when one
blocks, which nothing in `item` does; so `FALSE` is the expected case. It is an assumption about
code outside the repository, so the passing run does without it (`GamePreempts = TRUE`), and so do
the theorems; the two runs that must find a violation have `FALSE`. With preemption a
script can run before the command has stored `lw[0]`. `given` records which items were created so early,
and `GivenAsAsked` says that such an item, and no other, is item 0 instead of the one asked for.

### PC client

`SpmapClient` has one step for what a task does between two awaits. `gui` is the place of the GUI
thread in `stop` (its loop over `cmd_queue` races with `state_machine`'s own `get`); `thread` and
`loopOf` are the controller's attributes, `joining` the joiner threads; `stage` is how far the
session's thread came (before its loop, `init_async`, `create_task`, the tasks). Of the tasks
`connection_loop`, `writer_loop`, `reader_loop` and `state_machine` (with `send_command` inside)
are modelled; the heartbeat counts seconds for the display and changes nothing else. An exception in a task
aborts the group (`TaskGroupAborts`); an exception in a GUI callback restarts the whole program
(`RestartProgram`), which is modelled as the loss of everything in memory.

An answer is a header and a payload, two parts of the stream. When the wait for a payload times
out its header is lost, and from then on four bytes from the middle of a frame are taken for
one (`garbled`, `ReadGarbage`: any length, any id, any part of the stream swallowed). `Readers` are the
commands whose answer is unpacked as a number, which raises when garbage has another length.

A connection ends with the console's sender anywhere. `held` is what it then still holds of that connection:
nothing, a packet it has taken from the ring, or the rest of one it was writing (`SenderMayHold`). `ServerSendsHeld`
puts it before everything else into the next connection, or drops it: the stray first frame
that `StaleFrameFirst` says the server may send. It can be the answer of a request that was cancelled with its
connection; the rest of a packet is garbage to the reader. The previous client is taken to be this one: a
packet that was on its way to another program and has an id this client waits for would be given to it
as well, and no property speaks of that.

There are no clocks: a timeout may fire whenever what it limits has not happened. `wait_for` cancels the future and
`send_command` removes its entry in a later round of the event loop, so an answer can arrive between
the two (`TimeoutFires`, `GiveUp`). The console answers in order or drops an answer (its ring may
be full), sends packets unasked, and closes at any point.
`Stop` allows every order of the button and the session's start: before `BeginLoop` the loop that takes the call
may be that of the session before, which never runs it.

`StartWaitsForJoiner` says the user does not press start between the end of a session's thread and
the last statement of its joiner, which would clear the controller's attributes of the *new* session. The
code does not enforce it; without it two sessions can run on one client object, where nothing said below
holds. Types are proved without it.

### Network start-up

The receiver's thread and the game's have equal priority and change places only in IOS calls, so
a step of `NetInit` is one IOS call with what follows it. `initPc` is the next call of `Mynet_init`,
`net_ip_top_fd` the global handle (a handle, -1 or an error code, as in the code), `localFd` the local one.
IOS errors are one that `_net_convert_error` knows and one that it does not. The title screen's
`Mynet_gethostip` runs beside it with whatever handle was there when it began.

### Script patches

Scripts of `EvtPatch` are words of one memory and addresses are indices; an instruction is its head word
(opcode, number of arguments) and its arguments, so what the patches overwrite, move and leave
behind is exactly what they overwrite in memory. `hookEvt`, `hookEvtReplace`, `hookEvtReplaceBlock`
and `patchEvtInstruction` are applied to any line before the game runs a script, except where the script
would lose its end, a label or a return. The interpreter is modelled as far as patches depend on it: go on,
jump, return, the two new opcodes, deletion (by the script itself or another), `evtmgrReInit`,
and `evtRestart`, which the mod does not hook. `IF`, `SWITCH` and `DO` are left out: for the patches they are
instructions like others, and which way they send a run is not the patches' doing. `evtLines` is the meaning
the patched script is meant to have, `evtDone` what a run did, `evtOpen` where its open calls should return.
`PatchShorter` allows an instruction to be patched by a shorter one, the case of section 6; it is FALSE
where properties are expected to hold. `EvtAssumption` says what is taken for granted of the scripts
in memory, `Heads` being where their instructions begin: they are whole (each instruction
that goes on is followed by another, a label, goto or call has its operand), the patched script has an end and
holds no padding, and the mod's own scripts are elsewhere.

`PlainScripts` is not assumed of the model. It says of which scripts `Effect` and `ActsOf`, which give a meaning
to lines, say it: the game's script has only forward gotos, to labels that are there once (a loop may never
come to an end that could be compared), and calls nothing, since call is the mod's opcode; a script of the
mod is work up to its return from call; a replacement is work or a return. `determine_quickstart`
(`mod.cpp:194-208`), which leaves with `RETURN` for another map, is the mod's one script that is not of this
kind. The theorem on `DoesTheEditedLines` has `PlainScripts` as a hypothesis, and TLC evaluates it for the scripts of `MCEvtPatch`.

### Message patches

A name is a stem and one of the endings `_ex`, `_ex2` or anything else with `_ex_` in it, which is
all that the searches look at. `msgpatchEntries` is the code's table; deleting shifts the rows after the
deleted one exactly as the code does, the last row of a full table included. `FileSearch` is the
game's bisection of one file. `MsgList` is the abstract list: `Add` appends, `Remove` takes the last text
of a name out. The table implements it while a row is free (`TableIsListWhenNotFull`), and does not when none
is (`TableIsList`, section 6).

### Parameters and effects

`Payload` packs what the user typed (`setup_packet`), cuts it anywhere or appends a byte that is no tag,
and lets `payloadProcess` read it, one parameter per step. Values are bytes and halves, so byte
order and lengths are real. `SLOTS` is the room of each array of `Params`, sixteen in the code. No case looks for
it: the value that is one too many sets `overrun`, and the model ends there, since what it overwrites (the next
array, then the counters) has values of another type. `EffTracker` has the table of tracked effects and that of allocations
nobody was found for, in which a null pointer is recorded like any other result of `__memAlloc`; the walk of `effDebug` is one step for the same reason as above (equal
priorities, nothing in it blocks), but is computed round by round as in the code.

`MCParts` composes the modules that share no variable, in the code either, and the ring alone: `part`
chooses at the start which one runs, the others keep their initial state.

## 3. Runs

| run | configuration | distinct states | what it asks |
|---|---|---|---|
| `net_safety` | 2 connections, 2 descriptors, 3 slots, 2 requests, backlog 1, 2 attempts at the network | 2,882,142 | what a client can find in its stream, what is published |
| `net_live` | the same with 2 slots, 1 request, 1 attempt, fairness | 882,846 | answers arrive, dead clients are let go |
| `net_close_race` | strict priorities | violation | comment `netmemoryaccess.cpp:351` |
| `net_wrong_drop` | strict priorities | violation | comment `netmemoryaccess.cpp:222` |
| `commands_safety` | 2 script entries, 1 tracked effect, 3 items, 2 game key-offs, preemption, fairness | 1,631,088 | one item at a time, key held, items given as asked, Mario released |
| `commands_answer` | - | violation | comment `netmemoryaccess.cpp:333` |
| `commands_busy` | - | violation | help text `commands.cpp:290` |
| `client_safety` | 2 command ids, 2 requests, 2 sessions, 1 unasked packet | 12,468,006 | whose answer a request gets |
| `parts` | see below | 326,167 | the ring is a bounded FIFO; the invariants of the other parts; does stopping end a session, is every request resolved |
| `evt_padding` | shorter instructions allowed | violation | comments `evtpatch.cpp:244` and `:253` |
| `msg_endings` | the messages of `parts` | violation | comment `msgpatch.cpp:74-75` |
| `msg_full_table` | the messages of `parts` | violation | comments `msgpatch.cpp:126` and `:153` |

Why the bounds are enough: two connections and two descriptors give reuse of a number, a new
number while the old one is still held, and a client waiting while another is served (backlog 1);
three slots hold two packets, and hello, responses and notification compete for them: the ring both
wraps around and fills. The ring alone, in `parts`, has four slots and three packets. Two attempts at the network exercise retry and give-up (the code has 32).
For the commands, two script entries let a delivery run beside a game script and let
`evtEntry` fail; the item ids are 3 and 65540, which `u16` maps to 4; three items in
a row show that a delivery does not depend on what earlier ones left behind.

Two requests with two ids are the least in which an answer can meet a request of its own or of another
command; two sessions show what one leaves behind for the next. `parts` uses, for the client,
1 request and 2 sessions (liveness needs the full graph, and one request meets all the ways a session ends);
for scripts 2 patches and 2 runs in one entry of the table, over a script with lines of one, two and three words, a
goto and a label; for messages 3 rows, 2 stems with 4 endings, 2 texts, so that the table fills and a
name is in it twice, and 4 files of which one is empty; for the start-up 3 handles, 3 tries and 2
address retries; for parameters all packets of up to 3 of 9 values of every type, cut at every byte, into arrays of 2 slots, so that
a third of a type does not fit;
for effects 2 entries, 2 addresses and tables of 2 rows, so that both overflow.

`CHECK_DEADLOCK FALSE` in `Client`, `Parts` and `EvtPadding`: sessions, requests and script runs are
finite, start-up and parsing end. In the `Net*` runs: the clients are finite, and when they are gone the
receiver waits in accept or has ended, and the polling of an idle sender changes nothing. In the `Msg*` runs one
property is asked of a table that is never at rest anyway. The commands never stop, and deadlock is checked
there.

## 4. Fairness

`NetMemoryAccess!FairSpec`: weak fairness of the receiver as a whole and of the sender as a whole.
Both threads are loops without an end (the receiver's returns only if the network does not come
up) and block only in system calls that return once data, a client or an error is there; no
client and no game event is assumed to happen. A write takes something of the frame or fails, which
supposes that a client that stays connected reads.

`Commands!FairSpec`: weak fairness of every step of `give_ap_item` (the game runs the
scripts of its table every frame; that Mario collects an item that lies at his feet is part of
it) and of the steps of an item command that has begun. Sending a command is never fair, nor are
the game's own scripts.

`SpmapClient!ClientFairness`: weak fairness of the drain loop of `stop`, of the joiner, of the
session's thread, of each task's look at `shutdown`, and of each task's loop. The threads run, the
event loop runs every task that is ready, and the waits of the tasks for an answer, a header, a payload, a
packet to send and the shutdown are bounded by timeouts or short sleeps in the code. Connecting, `drain` (of
packets far below the buffer's limit) and `wait_closed` end when the operating system says so, which it does
after its own timeouts. The user and the console are never fair: the
server need not answer, close or accept.

## 5. Properties

* `ImplementsQueue` (ring): the ring is a FIFO of `MAX_OUTGOING - 1` packets and refuses only
  when full. `WaitingWereWritten`: no slot is handed out that was not written.
* `PublishedIsServed`: whatever the order in which the two threads publish and clear, what the sender
  can read is the open descriptor of the client being served.
* `StaleFrameFirst`: a packet of an earlier client can reach the next one through a reused
  descriptor, but it is one frame at most and precedes everything else.
* `FramesContiguous`, `AnsweredInOrder`, `WrittenOnce`: what a client reads is a sequence of whole
  frames but for the two ends, its own answers in order, nothing twice.
* `Answered`, `DeadClientReleased`: the liveness the code intends.
* `OneItemAtATime`, `KeyHeldWhileDelivering`, `GivenAsAsked`, `ItemKeyReturned`: item delivery.
* `PendingIsCurrent`: `pending` holds at most the request that is waited for.
* `AnswerIsOwnOrLate`, `AnswersKeepOrder`: which answer a request can be given. The protocol has no
  request numbers, so a late answer does go to the next request with the same command. The first says what has
  to come before that: a request with the same command that timed out, was given garbage or was cancelled; and
  that the answer of a cancelled request is given only across sessions, through what the console's sender still held.
* `StopEndsSession`, `RequestResolved`: liveness of the client.
* `ReadyMeansStarted`, `HandlesAccounted`: network start-up.
* `ReturnsToCaller`, `DoesTheEditedLines`: script patches.
* `NoGaps`, `TableIsListWhenNotFull` (refinement), `NewestTextShown`: message patches. The last says what is shown
  for a name with every ending, also where that is not what the comments promise (section 6).
* `ParamsAreTyped`: parameters, and that only a packet with too many of a type is written past an array. `WalkMeetsEveryRow`: effects.
* `TypeOK` of each module includes the bounds of indices and counters (ring slots, attempts, tracked
  effects, key counter not negative).

## 6. Where code and comments disagree

* `SenderStoppedBeforeClose` (`netmemoryaccess.cpp:351`, "make sender stop using fd BEFORE close"):
  `ClearConnection` unpublishes the descriptor but does not stop a sender that has already copied it.
  `StaleFrameFirst` and `FramesContiguous` state how far the damage goes.
* `FailedSendDropsItsConnection` (line 222, "If send fails, drop connection ..."): a failure that is noticed
  late drops whatever connection is published then. The next client stays connected, its
  commands run, but it is sent nothing more.
* `AnswerIsTheCommands` (line 333, "write response payload into sendScratch+4"): six commands
  (`item`, `idx`, `mapInteract`, three effects; `item` on success only) format their answer into a local
  array, so old contents of the buffer are sent.
* `BusyMeansLoadingOrItem` (`commands.cpp:290`): after `evtEntry failed` the key stays off with nothing
  to turn it on.
* `DoesTheEditedLines` in `evt_padding` (`evtpatch.cpp:244`, "of the same size or smaller", and 253, "pad anything
  left with 0s"): `memset` counts bytes but is given a length in words, so the words a shorter
  instruction leaves behind stay and are executed. The same property holds in `parts`, where
  replacements have the length of what they replace. Nothing in the repository calls `patchEvtInstruction` yet.
* `EndingsHandled` (`msgpatch.cpp:74-75`, "also search for matching "_ex" and "_ex2" appendices ... you need not
  include these appendices"): a name with `_ex2` also contains `_ex`, so line 200 replaces the 2 in `containsEx` by
  1, three characters are cut instead of four, and the text of the stem is not found. `NewestTextShown` says
  what is shown instead. A name with `_ex_` in it never finds its own text in the search without
  fallback (line 196), which no comment speaks of.
* `TableIsList` (`msgpatch.cpp:153`, "Eliminate duplicate; already backed up in previous slot", and 126): the loop
  stops at row 511 before it clears it, so after a deletion from a full table, of any row but the last, the last text
  is there twice and no row is free. With the mod's few texts the table of 512 rows is far from full.

## 7. Proofs

All theorems hold for every value of the constants that satisfies the named assumptions: distinct
"no" values, at least two slots in the ring, positive backlog and attempts, finite or infinite
sets of connections, descriptors and scripts. Three assumptions say more than that.
`FilesAssumption`: the game's message files are sorted, without which no bisection finds
anything. `PayloadAssumption`: numbers fit their four bytes and lengths theirs, what `struct.pack`
in the client refuses otherwise. `EvtAssumption`: scripts are whole (section 2).

| theorem | property | argument |
|---|---|---|
| `RingTypeCorrect`, `RingHandsOutPackets` | `RingTypeOK`, `WaitingWereWritten` | `RingInv`, their conjunction, is inductive; lemmas on arithmetic modulo the ring's size |
| `RingImplementsQueue` | `ImplementsQueue` | each critical section maps to `Accept`, `Refuse`, `Take` or `Clear`; needs that the slots from tail to head, read as a sequence, lose their first or gain a last |
| `TypeCorrect`, `PublishedCorrect` | `TypeOK`, `PublishedIsServed` | `IInv` adds `DescriptorInv` (the only open descriptor is the receiver's), `PublishedInv` (published only between publish and clear) and `SenderInv` (locals set before use) |
| `StaleFrameFirstCorrect` | `StaleFrameFirst` | `StreamInv`: a connection is accepted once, nothing written before; from reset to close the queue only holds the served client's packets (`QueueForServed`); a foreign packet in the sender's hands is all the stream contains (`StaleInv`) |
| `FramesContiguousCorrect` | `FramesContiguous` | `FrameInv`: while the client is there its stream ends exactly where the sender stands (`FrontierInv`), and a sender holding an old descriptor has written nothing to the new client (`HolderInv`) |
| `CommandsTypeCorrect`, `OneItemAtATimeCorrect`, `KeyHeldCorrect` | `TypeOK`, `OneItemAtATime`, `KeyHeldWhileDelivering` | `IInv`: `KeyCounted` says the counter is the sum of what its holders took, `NoOtherScript` that a command past the busy test has no delivery beside it. Neither property is inductive without the sum: a key-on of the game would break it |
| `GivenAsAskedCorrect` | `GivenAsAsked` | `OneItemOwed`: between commands a script that has not created its item holds exactly the one item asked for and not given; between `evtEntry` and the store, the new script holds item 0 and is the only one that may create early |
| `AnsweredInOrderCorrect`, `WrittenOnceCorrect` | `AnsweredInOrder`, `WrittenOnce` | `OrderInv` follows a request from the client's bytes to the answer in the stream: `InboxInv` (headers and bodies in turn, requests in order), `MadeInv` (a queued packet precedes all that is still to be answered), `LineInv` (what is written, held by the sender and waiting in the ring is one ordered line), `HalvesOnce` |
| `ClientTypeCorrect` | `ClientTypeOK` | `PartsInv`, types in parts that single actions disturb |
| `PendingIsCurrentCorrect` | `PendingIsCurrent` | under `StartWaitsForJoiner`: `ThreadInv` (at most one session's thread; what it says about `stage` and `tasks`) and `PendInv` (states of future, entry and `sm` go together) |
| `AnswersKeepOrderCorrect`, `AnswerIsOwnOrLateCorrect` | the same names | under `StartWaitsForJoiner`, with a packet held for an earlier connection coming first: `ClientInv` adds `LineInv` (the send queue, what is on the wire and the header in hand are one line in order of requests), `AnswerInv` (answers given precede that line), `TakenInv`, `QuietInv` and `ResolvedInv` (what a request in the line has as its outcome) |
| `ReturnsToCallerCorrect` | `ReturnsToCaller` | the property is inductive with the domains of three functions; the words in memory, and thus the patches, do not matter |
| `EvtTypeCorrect` | `EvtTypeOK` | under `~PatchShorter`. Being an address of memory is not inductive: what an address leads to depends on the words there. `EvtInv` says memory is code (`CodeOK`: a set of addresses at which instructions begin, closed under going on and calling, no two overlapping), that the patched script still has its end (`ScriptOK`) and that each of the edited lines has its address in it (`LinesOK`), so that the offset a patch computes is a line's (`OffsetOfLine`), the words it takes are whole instructions (`BlockLength`, `RoomForCall`) and, with the call, the padding and the forwarder behind memory, it is code again (`CallKeepsCode`, `ForwarderKeepsCode`, `InstructionReplaces`). What an entry holds are instructions of that code (`RunsOK`) |
| `DoesTheEditedLinesCorrect` | `DoesTheEditedLines` | under `~PatchShorter` and `PlainScripts`. `DoneInv`: the image has an explanation (`Explains`), and every run has done a part of `Effect(evtLines)` whose rest is what it has left. The explanation gives each instruction outside the patched script an outcome, the work up to its return from call or to where it leaves for good (`KeptOK`), each line that of the instruction at its address (`LinesFit`), and each line what a run does from there on (`Means`). What a run has left follows from its address and its open calls, the innermost first (`Running`, `Pending`). A patch is applied before anything runs and needs a new explanation: the forwarder's outcome is the child's and then the moved lines' (`ForwarderOutcomes`), all others stay (`KeptStays`), so hooked lines may be hooked again (`PatchKeepsWhole`). A step of a run takes from what it has left what it does (`RunGoesOn`), a call and its return put it away and bring it back (`RunCalls`, `RunReturns`, with `StackInv`), a goto finds the label's row, since no child has labels to write over it (`FirstTable`, `TableStays`) |
| `MsgTypeCorrect`, `NoGapsCorrect` | `MsgTypeOK`, `NoGaps` | `TableInv`, their conjunction |
| `TableIsListWhenNotFullCorrect` | `TableIsListWhenNotFull` | adding maps to `Add`, deleting to `Remove`; `Count` moves by one |
| `SearchFindsListText` | - | in a table without gaps the search returns the list's newest text |
| `NewestTextShownCorrect` | `NewestTextShown` | for names with every ending, from `TableInv`: the search over the table finds the last row (`SearchFindsNewest`); the bisection of a sorted file keeps the name it looks for between its bounds and ends (`BisectionRound`, `BisectionEnds`, `BisectionFinds`), so the files are searched to the first that has it (`VanillaFindsFirst`) |
| `NetInitTypeCorrect`, `ReadyMeansStartedCorrect`, `HandlesAccountedCorrect` | `NetInitTypeOK`, `ReadyMeansStarted`, `HandlesAccounted` | `UpInv` says for each `initPc` which handles are open (`TopInv`, `LocalInv`, `OpenInv`) and what was achieved (`ProgressInv`) |
| `PayloadTypeCorrect`, `ParamsAreTypedCorrect` | `PayloadTypeOK`, `ParamsAreTyped` | `PayloadInv`: what arrived is the packed parameters, cut anywhere or with a byte too many; the parser stands at the end of the first n of them and has handed over their values, type by type (`ReadUpTo`). A step takes the next parameter whole, finds it cut or no parameter it may take, or is one value past `SLOTS` of its type |
| `EffTypesHold`, `WalkIsComplete` | `EffTypeOK`, `WalkMeetsEveryRow` | `LoopInv`, the loop invariant of the walk, by counting: as many rows are ahead as rounds, the rows done with those ahead that will stay are those it began with, each as often (`RowsInv`), and the allocations taken are those of the rows that were met (`PendingInv`). A row moved into a hole is still ahead |

Proved lemmas are in the same modules, next to their use.

**Induction.** The provers cannot instantiate a theorem that takes an operator, so `NatRecursion` states
induction for sets of numbers (from the well-foundedness of `<`), and from it that the functions
the modules define by recursion exist and satisfy their equations: one that goes up by
one (`FunctionByRecursion`), one that walks through memory (`FunctionByWalk`) and one that searches
(`FunctionBySearch`); also that `FlattenSeq` joins sequences one after the other. What such a function computes is then proved by induction over the set of numbers for
which it does: the length of what is left of memory or of the script, the distance of a
search's bounds.

Only model-checked:

* liveness (`Answered`, `DeadClientReleased`, `ItemKeyReturned`, `StopEndsSession`, `RequestResolved`), since
  `ENABLED` is beyond the prover;
* `EvtTypeOK` with `PatchShorter`: the words that a shorter instruction leaves behind are executed, and
  what they are depends on the script.

Every safety and action property of the passing runs is a theorem. Where a theorem has a hypothesis
(`~PatchShorter`, `PlainScripts`, `StartWaitsForJoiner`), the run that checks the property
has it too: the constant has that value in its `.cfg`, or the module assumes it of the run's scripts.

## 8. Not modelled

* **HTTP client and vendored code** (`corehttp/`, `core_json.cpp`, `base64.c`, libc pieces): the mod never
  calls them, so they have no behaviour in this program. With the declarations of the game's and of libogc's
  headers (`spm-headers/`, `include/`) they are most of the lines of the repository; what is modelled is most
  of the rest.
* **Loader, instruction patching, utilities, logging**: code that runs once at start-up and has no state
  that evolves.
* **Commands**: their registration at start-up; rows of the command table beyond its 16 categories and the
  overlong item name (what is written there is the linker's choice); what a seventeenth parameter of a type
  overwrites; scripts of the mod that the game deletes with its script table, for which `ItemKeyReturned` says
  nothing; `add_to_gswf_stack`, which nothing calls.
* **Server**: failure to create a thread in `init()`; the branch of `senderLoop` for a frame larger than its
  buffer and the clamps of the response size (the registered commands stay below both).
* **Game hooks**: the record of collected switches, which nothing reads, replaced item types, hooks that
  print.
* **Socket library**: names, `select`, socket options, which the mod does not call.
* **PC client**: the heartbeat, widgets and the log; two sessions at once (section 2); another client of the same
  console. What `stop` takes out of `cmd_queue` is modelled, but nothing is claimed of commands that are still queued.
* **Second PC client** (`src/mod/net/netmemoryaccess_client.py`): a script for an earlier protocol, whose answers had no
  header, with a connection per command and no state between two of them.
* **Client and server together**: each is modelled against an abstraction of the other
  (`Console` in `SpmapClient`; `Conns` in `NetMemoryAccess`). What the client assumes, answers in order or
  not at all after at most one stray frame or its rest, is `AnsweredInOrder`, `FramesContiguous` and `StaleFrameFirst`
  of the server.
