------------------------------ MODULE Commands ------------------------------
(***************************************************************************)
(* What the commands of a client do to the game (commandmanager.cpp,       *)
(* commands.cpp).  The receiver thread executes one request at a time; the *)
(* item command takes control from Mario (marioKeyOff) and starts the      *)
(* script give_ap_item, whose last step gives it back.  The game's own     *)
(* scripts share the table of scripts and the key counter.                 *)
(*                                                                         *)
(* A command is one step, but the item command, whose calls into the game  *)
(* are a step each.                                                        *)
(***************************************************************************)
EXTENDS Integers, Sequences

CONSTANTS Evts,          \* entries of the game's table of scripts
          NoEvt,         \* the null pointer evtEntry may return
          ItemIds,       \* first integers of item requests
          Indices,       \* values of the stored index
          MAX_EFFS,      \* slots of the table of tracked effects
          MaxItems,      \* bound: item commands that get past the busy test
          MaxGameOffs,   \* bound: nested key-offs of the game's own
          GamePreempts   \* TRUE: the game's thread may run in the middle of
                         \* an item command

ASSUME CommandsAssumption ==
    /\ NoEvt \notin Evts
    /\ ItemIds \subseteq Nat /\ Indices \subseteq Nat /\ 0 \in Indices
    /\ MAX_EFFS \in Nat /\ MaxItems \in Nat /\ MaxGameOffs \in Nat
    /\ GamePreempts \in BOOLEAN

VARIABLES
  cPc,          \* where the receiver is: "idle" or inside the item command
  itemId,       \* params.ints[0] of the item command
  newEvt,       \* what evtEntry returned to it
  evt,          \* script table: "free", "game" (a script of the game's own), or
                \* where a give_ap_item script is: "start", "wait", "key_on"
  lw0,          \* LW(0) of each script, the item it will create
  keyOff,       \* keyOff of MarioWork: Mario moves when it is 0
  gameOffs,     \* how many of them the game's own scripts took
  lost,         \* history: how many were taken by a command that then failed
  lastItemIdx,  \* the stored index, gsw[1000]
  trackedCount, \* effects in the tracker
  scratch,      \* what sendScratch holds after its first four bytes
  answer,       \* what the last command had to say, and what was sent
  asked,        \* history: items of the item commands that were accepted
  given         \* history: items that were created in the room, and which of them
                \* early, before the command had stored what to create

gameVars == <<evt, lw0, keyOff, gameOffs>>
itemVars == <<cPc, itemId, newEvt, lost, asked>>
vars == <<gameVars, itemVars, lastItemIdx, trackedCount, scratch, answer, given>>

Kinds == {"garbage", "help", "unknown", "index", "busy", "Mario busy", "evtEntry failed",
          "received item", "received idx", "received message", "spawned"}

Text(kind, value) == [kind |-> kind, value |-> value]
Garbage == Text("garbage", 0)
Nothing == Text("none", 0)

u16(n) == n % 65536
U16 == 0 .. 65535

Init ==
    /\ cPc = "idle" /\ itemId = 0 /\ newEvt = NoEvt
    /\ evt = [e \in Evts |-> "free"] /\ lw0 = [e \in Evts |-> 0]
    /\ keyOff = 0 /\ gameOffs = 0 /\ lost = 0
    /\ lastItemIdx = 0 /\ trackedCount = 0
    /\ scratch = Garbage
    /\ answer = [said |-> Nothing, sent |-> Nothing]
    /\ asked = <<>> /\ given = <<>>
-----------------------------------------------------------------------------
(* Answers: parseAndExecute returns a length, and that many bytes of the   *)
(* response buffer are queued.                                             *)

\* The text was formatted into the response buffer.
Respond(text) ==
    /\ scratch' = text
    /\ answer' = [said |-> text, sent |-> text]

\* The text was formatted into a local array: the length is the text's, the
\* bytes are what the response buffer held before.
RespondFromLocal(text) ==
    /\ answer' = [said |-> text, sent |-> scratch]
    /\ UNCHANGED scratch

\* Length 0.
RespondNothing ==
    /\ answer' = [said |-> Nothing, sent |-> Nothing]
    /\ UNCHANGED scratch
-----------------------------------------------------------------------------
(* The commands.                                                           *)

\* parseAndExecute refuses a length that is not the packet's, a category or a
\* command outside the table, and an empty entry of it.
RefusePacket ==
    /\ cPc = "idle"
    /\ RespondNothing
    /\ UNCHANGED <<gameVars, itemVars, lastItemIdx, trackedCount, given>>

help ==
    /\ cPc = "idle"
    /\ \/ RespondNothing
       \/ Respond(Text("unknown", 0))
       \/ Respond(Text("help", 0))
    /\ UNCHANGED <<gameVars, itemVars, lastItemIdx, trackedCount, given>>

ridx ==
    /\ cPc = "idle"
    /\ Respond(Text("index", lastItemIdx))
    /\ UNCHANGED <<gameVars, itemVars, lastItemIdx, trackedCount, given>>

rbusy ==
    /\ cPc = "idle"
    /\ Respond(Text("busy", IF keyOff # 0 THEN 1 ELSE 0))
    /\ UNCHANGED <<gameVars, itemVars, lastItemIdx, trackedCount, given>>

idx ==
    /\ cPc = "idle"
    /\ \/ RespondNothing /\ UNCHANGED lastItemIdx
       \/ \E i \in Indices : /\ lastItemIdx' = i
                             /\ RespondFromLocal(Text("received idx", i))
    /\ UNCHANGED <<gameVars, itemVars, trackedCount, given>>

mapInteract ==
    /\ cPc = "idle"
    /\ \/ RespondNothing
       \/ RespondFromLocal(Text("received message", 0))
    /\ UNCHANGED <<gameVars, itemVars, lastItemIdx, trackedCount, given>>

\* Mutant: the table of tracked effects is used one slot too far.
effectUnbounded ==
    /\ cPc = "idle"
    /\ trackedCount <= MAX_EFFS
    /\ trackedCount' = trackedCount + 1
    /\ RespondFromLocal(Text("spawned", 0))
    /\ UNCHANGED <<gameVars, itemVars, lastItemIdx, given>>

\* effSpmRecover, effVoltEntry and effItemThunder: the effect is tracked while
\* there is a slot for it.
effect ==
    /\ cPc = "idle"
    /\ \/ Respond(Text("help", 0)) /\ UNCHANGED trackedCount
       \/ /\ trackedCount' = IF trackedCount < MAX_EFFS THEN trackedCount + 1 ELSE trackedCount
          /\ RespondFromLocal(Text("spawned", 0))
    /\ UNCHANGED <<gameVars, itemVars, lastItemIdx, given>>

\* The item command without an integer, or while Mario is busy.
ItemRefused ==
    /\ cPc = "idle"
    /\ \/ Respond(Text("help", 0))
       \/ keyOff # 0 /\ Respond(Text("Mario busy", 0))
    /\ UNCHANGED <<gameVars, itemVars, lastItemIdx, trackedCount, given>>

\* Mutant: the item command does not ask whether Mario is busy.
ItemUnchecked ==
    /\ cPc = "idle"
    /\ Len(asked) + lost < MaxItems
    /\ itemId' \in ItemIds
    /\ cPc' = "keyOff"
    /\ UNCHANGED <<gameVars, newEvt, lost, asked, lastItemIdx, trackedCount, scratch, answer,
                   given>>

\* marioKeyOffChk said that Mario is free.
ItemChecked ==
    /\ cPc = "idle"
    /\ keyOff = 0
    /\ Len(asked) + lost < MaxItems
    /\ itemId' \in ItemIds
    /\ cPc' = "keyOff"
    /\ UNCHANGED <<gameVars, newEvt, lost, asked, lastItemIdx, trackedCount, scratch, answer,
                   given>>

\* Mutant: the key is not taken before the script is started.
ItemKeyOffForgotten ==
    /\ cPc = "keyOff"
    /\ cPc' = "entry"
    /\ UNCHANGED <<gameVars, itemId, newEvt, lost, asked, lastItemIdx, trackedCount, scratch,
                   answer, given>>

\* The busy test is over by now: another key-off may have come in between.
ItemKeyOff ==
    /\ cPc = "keyOff"
    /\ keyOff' = keyOff + 1
    /\ cPc' = "entry"
    /\ UNCHANGED <<evt, lw0, gameOffs, itemId, newEvt, lost, asked, lastItemIdx,
                   trackedCount, scratch, answer, given>>

\* evtEntry found a free entry; a new script's LW(0) is 0.
ItemEvtEntry ==
    /\ cPc = "entry"
    /\ \E e \in Evts :
         /\ evt[e] = "free"
         /\ evt' = [evt EXCEPT ![e] = "start"]
         /\ lw0' = [lw0 EXCEPT ![e] = 0]
         /\ newEvt' = e
    /\ cPc' = "store"
    /\ UNCHANGED <<keyOff, gameOffs, itemId, lost, asked, lastItemIdx, trackedCount,
                   scratch, answer, given>>

\* evtEntry returned null: the command answers so and leaves the key off.
ItemEvtEntryFails ==
    /\ cPc = "entry"
    /\ \A e \in Evts : evt[e] # "free"
    /\ lost' = lost + 1
    /\ Respond(Text("evtEntry failed", 0))
    /\ cPc' = "idle"
    /\ UNCHANGED <<gameVars, itemId, newEvt, asked, lastItemIdx, trackedCount, given>>

\* Mutant: the item id stays in its local variable.
ItemStoreForgotten ==
    /\ cPc = "store"
    /\ asked' = Append(asked, u16(itemId))
    /\ RespondFromLocal(Text("received item", itemId))
    /\ newEvt' = NoEvt
    /\ cPc' = "idle"
    /\ UNCHANGED <<gameVars, itemId, lost, lastItemIdx, trackedCount, given>>

\* evt->lw[0] = (u16)itemId.
ItemStore ==
    /\ cPc = "store"
    /\ lw0' = [lw0 EXCEPT ![newEvt] = u16(itemId)]
    /\ asked' = Append(asked, u16(itemId))
    /\ RespondFromLocal(Text("received item", itemId))
    /\ newEvt' = NoEvt
    /\ cPc' = "idle"
    /\ UNCHANGED <<evt, keyOff, gameOffs, itemId, lost, lastItemIdx, trackedCount, given>>

Receiver == \/ RefusePacket \/ help \/ ridx \/ rbusy \/ idx \/ mapInteract \/ effect
            \/ ItemRefused \/ ItemChecked \/ ItemKeyOff \/ ItemEvtEntry
            \/ ItemEvtEntryFails \/ ItemStore
-----------------------------------------------------------------------------
(* The game's thread.                                                      *)

GameMayRun == GamePreempts \/ cPc = "idle"

\* Script entries of the game's own come and go.
GameEvt(e) ==
    /\ GameMayRun
    /\ evt[e] \in {"free", "game"}
    /\ evt' = [evt EXCEPT ![e] = IF @ = "free" THEN "game" ELSE "free"]
    /\ UNCHANGED <<lw0, keyOff, gameOffs, itemVars, lastItemIdx, trackedCount, scratch,
                   answer, given>>

\* The game takes the key, for a loading zone say, and gives it back.
GameKeyOff ==
    /\ GameMayRun
    /\ gameOffs < MaxGameOffs
    /\ gameOffs' = gameOffs + 1
    /\ keyOff' = keyOff + 1
    /\ UNCHANGED <<evt, lw0, itemVars, lastItemIdx, trackedCount, scratch, answer, given>>

GameKeyOn ==
    /\ GameMayRun
    /\ gameOffs > 0
    /\ gameOffs' = gameOffs - 1
    /\ keyOff' = keyOff - 1
    /\ UNCHANGED <<evt, lw0, itemVars, lastItemIdx, trackedCount, scratch, answer, given>>

\* The tracker forgets an effect that is over (effDebug).
GameForgetsEffect ==
    /\ GameMayRun
    /\ trackedCount > 0
    /\ trackedCount' = trackedCount - 1
    /\ UNCHANGED <<gameVars, itemVars, lastItemIdx, scratch, answer, given>>

\* give_ap_item: the item LW(0) is created where Mario stands, early if the game runs the
\* new script before the receiver goes on...
ScriptCreatesItem(e) ==
    /\ GameMayRun
    /\ evt[e] = "start"
    /\ given' = Append(given, [item |-> lw0[e], early |-> cPc = "store"])
    /\ evt' = [evt EXCEPT ![e] = "wait"]
    /\ UNCHANGED <<lw0, keyOff, gameOffs, itemVars, lastItemIdx, trackedCount, scratch, answer>>

\* ... the script waits until he has collected it ...
ScriptItemCollected(e) ==
    /\ GameMayRun
    /\ evt[e] = "wait"
    /\ evt' = [evt EXCEPT ![e] = "key_on"]
    /\ UNCHANGED <<lw0, keyOff, gameOffs, itemVars, lastItemIdx, trackedCount, scratch,
                   answer, given>>

\* Mutant: the script ends without its last step.
ScriptKeepsKey(e) ==
    /\ GameMayRun
    /\ evt[e] = "key_on"
    /\ evt' = [evt EXCEPT ![e] = "free"]
    /\ UNCHANGED <<lw0, keyOff, gameOffs, itemVars, lastItemIdx, trackedCount, scratch,
                   answer, given>>

\* ... and gives the key back.
ScriptKeyOn(e) ==
    /\ GameMayRun
    /\ evt[e] = "key_on"
    /\ keyOff' = keyOff - 1
    /\ evt' = [evt EXCEPT ![e] = "free"]
    /\ UNCHANGED <<lw0, gameOffs, itemVars, lastItemIdx, trackedCount, scratch, answer, given>>

Script(e) == ScriptCreatesItem(e) \/ ScriptItemCollected(e) \/ ScriptKeyOn(e)

Game == \/ GameKeyOff \/ GameKeyOn \/ GameForgetsEffect
        \/ \E e \in Evts : GameEvt(e) \/ Script(e)

Next == Receiver \/ Game

Spec == Init /\ [][Next]_vars

\* The game runs its scripts to their end, and so does the receiver with a
\* command it has begun; nobody has to send another.
FairSpec == /\ Spec
            /\ \A e \in Evts : WF_vars(Script(e))
            /\ WF_vars(ItemKeyOff \/ ItemEvtEntry \/ ItemEvtEntryFails \/ ItemStore)
-----------------------------------------------------------------------------
(* Properties.                                                             *)

Delivering == {e \in Evts : evt[e] \in {"start", "wait", "key_on"}}

TextTypes == [kind : Kinds \cup {"none"}, value : Nat]

TypeOK ==
    /\ cPc \in {"idle", "keyOff", "entry", "store"}
    /\ itemId \in ItemIds \cup {0}
    /\ newEvt \in Evts \cup {NoEvt}
    /\ evt \in [Evts -> {"free", "game", "start", "wait", "key_on"}]
    /\ lw0 \in [Evts -> U16]
    /\ keyOff \in Nat
    /\ gameOffs \in 0 .. MaxGameOffs
    /\ lost \in Nat
    /\ lastItemIdx \in Indices
    /\ trackedCount \in 0 .. MAX_EFFS
    /\ scratch \in TextTypes
    /\ answer \in [said : TextTypes, sent : TextTypes]
    /\ asked \in Seq(U16)
    /\ given \in Seq([item : U16, early : BOOLEAN])

\* The busy test and the key-off are apart, and the game's scripts run between
\* them: still no two items are being delivered at the same time.
OneItemAtATime == \A e, f \in Delivering : e = f

\* While an item is being delivered Mario cannot move, however the game's own
\* scripts take and give back the key meanwhile.
KeyHeldWhileDelivering == Delivering # {} => keyOff > 0

\* The items the scripts create are the items that were asked for, in their order, each
\* once; one that is created early, which takes a game that preempts the receiver, is item
\* 0 in the place of the one that is being asked for, and no other is.
GivenAsAsked ==
    /\ Len(given) <= Len(asked) + (IF cPc = "store" THEN 1 ELSE 0)
    /\ \A i \in DOMAIN given :
         IF given[i].early THEN GamePreempts /\ given[i].item = 0
         ELSE i \in DOMAIN asked /\ given[i].item = asked[i]

\* The key is held by an item command or its script, beside the game's own.
HeldByItem == keyOff > gameOffs

\* An item command that could start its script gives the key back in the end.
ItemKeyReturned == HeldByItem ~> (~HeldByItem \/ lost > 0)

\* Comment at netmemoryaccess.cpp:333, "write response payload into
\* sendScratch+4": what is sent to the client is what the command had to say.
AnswerIsTheCommands == answer.sent = answer.said

\* Help text at commands.cpp:290, "Reads whether Mario is busy (i.e., loading
\* zone/item-acceptance menu)": when rbusy says busy, the game or a delivery of an
\* item has the key.
BusyMeansLoadingOrItem ==
    [][rbusy /\ keyOff # 0 => gameOffs > 0 \/ Delivering # {}]_vars
=============================================================================
