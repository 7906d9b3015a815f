---------------------------- MODULE CommandsProof ----------------------------
(***************************************************************************)
(* Theorems about the item command, for any table of scripts, any number   *)
(* of items and key-offs of the game's own, and both scheduling policies.  *)
(***************************************************************************)
EXTENDS Commands, TLAPS

\* The key counter is what its holders took: the game, the item commands that
\* failed, the script that is running and the command that is starting one.
KeyCounted ==
    keyOff = gameOffs + lost + (IF Delivering # {} THEN 1 ELSE 0)
                             + (IF cPc = "entry" THEN 1 ELSE 0)

\* A command that has seen the key free starts its script when no other runs.
NoOtherScript == cPc \in {"keyOff", "entry"} => Delivering = {}

StoresToEvt == cPc = "store" => newEvt \in Evts

IInv == TypeOK /\ KeyCounted /\ NoOtherScript /\ StoresToEvt /\ OneItemAtATime

LEMMA TextIsTyped ==
    ASSUME NEW kind \in Kinds \cup {"none"}, NEW value \in Nat
    PROVE  Text(kind, value) \in TextTypes
BY DEF Text, TextTypes

LEMMA InitIInv == Init => IInv
<1> SUFFICES ASSUME Init PROVE IInv
  OBVIOUS
<1>1. Garbage \in TextTypes /\ Nothing \in TextTypes
  BY TextIsTyped DEF Garbage, Nothing, Kinds
<1>2. /\ answer \in [said : TextTypes, sent : TextTypes]
      /\ scratch \in TextTypes
  BY <1>1 DEF Init
<1>3. /\ evt \in [Evts -> {"free", "game", "start", "wait", "key_on"}]
      /\ lw0 \in [Evts -> U16]
  BY DEF Init, U16
<1>4. TypeOK
  <2>1. asked \in Seq(U16) /\ given \in Seq([item : U16, early : BOOLEAN])
    BY DEF Init
  <2>2. lastItemIdx \in Indices
    BY CommandsAssumption DEF Init
  <2>3. trackedCount \in 0 .. MAX_EFFS /\ gameOffs \in 0 .. MaxGameOffs
    BY CommandsAssumption DEF Init
  <2>4. /\ cPc = "idle" /\ itemId = 0 /\ newEvt = NoEvt /\ keyOff = 0 /\ lost = 0
    BY DEF Init
  <2> QED BY <1>2, <1>3, <2>1, <2>2, <2>3, <2>4 DEF TypeOK
<1>5. Delivering = {}
  BY DEF Init, Delivering
<1> QED BY <1>4, <1>5 DEF Init, IInv, KeyCounted, NoOtherScript, StoresToEvt, OneItemAtATime

\* The three ways to answer keep the buffer and the answer in their types.
LEMMA AnswersAreTyped ==
    ASSUME TypeOK, NEW text \in TextTypes,
           Respond(text) \/ RespondFromLocal(text) \/ RespondNothing
    PROVE  /\ scratch' \in TextTypes
           /\ answer' \in [said : TextTypes, sent : TextTypes]
<1>1. Nothing \in TextTypes
  BY TextIsTyped DEF Nothing, Kinds
<1>2. scratch \in TextTypes
  BY DEF TypeOK
<1> QED BY <1>1, <1>2 DEF Respond, RespondFromLocal, RespondNothing

\* Commands that are over in one step leave Mario and the scripts alone.
LEMMA PlainCommandKeepsIInv ==
    ASSUME IInv,
           RefusePacket \/ help \/ ridx \/ rbusy \/ idx \/ mapInteract \/ effect \/ ItemRefused
    PROVE  IInv'
<1>1. UNCHANGED <<gameVars, itemVars, given>>
  BY DEF RefusePacket, help, ridx, rbusy, idx, mapInteract, effect, ItemRefused
<1>2. lastItemIdx \in Nat
  <2>1. lastItemIdx \in Indices
    BY DEF IInv, TypeOK
  <2> QED BY <2>1, CommandsAssumption
<1>3. /\ scratch' \in TextTypes
      /\ answer' \in [said : TextTypes, sent : TextTypes]
  <2>1. TypeOK
    BY DEF IInv
  <2>2. CASE RefusePacket
    <3>1. Nothing \in TextTypes
      BY TextIsTyped DEF Nothing
    <3> QED BY <2>1, <2>2, <3>1, AnswersAreTyped DEF RefusePacket
  <2>3. CASE help
    <3>1. Text("unknown", 0) \in TextTypes /\ Text("help", 0) \in TextTypes
      BY TextIsTyped DEF Kinds
    <3> QED BY <2>1, <2>3, <3>1, AnswersAreTyped DEF help
  <2>4. CASE ridx
    <3>1. Text("index", lastItemIdx) \in TextTypes
      BY <1>2, TextIsTyped DEF Kinds
    <3> QED BY <2>1, <2>4, <3>1, AnswersAreTyped DEF ridx
  <2>5. CASE rbusy
    <3>1. Text("busy", IF keyOff # 0 THEN 1 ELSE 0) \in TextTypes
      BY TextIsTyped DEF Kinds
    <3> QED BY <2>1, <2>5, <3>1, AnswersAreTyped DEF rbusy
  <2>6. CASE idx
    <3>1. \A i \in Indices : Text("received idx", i) \in TextTypes
      BY CommandsAssumption, TextIsTyped DEF Kinds
    <3>2. Nothing \in TextTypes
      BY TextIsTyped DEF Nothing
    <3> QED BY <2>1, <2>6, <3>1, <3>2, AnswersAreTyped DEF idx
  <2>7. CASE mapInteract
    <3>1. Text("received message", 0) \in TextTypes
      BY TextIsTyped DEF Kinds
    <3> QED BY <2>1, <2>7, <3>1, AnswersAreTyped DEF mapInteract
  <2>8. CASE effect
    <3>1. Text("help", 0) \in TextTypes /\ Text("spawned", 0) \in TextTypes
      BY TextIsTyped DEF Kinds
    <3> QED BY <2>1, <2>8, <3>1, AnswersAreTyped DEF effect
  <2>9. CASE ItemRefused
    <3>1. Text("help", 0) \in TextTypes /\ Text("Mario busy", 0) \in TextTypes
      BY TextIsTyped DEF Kinds
    <3> QED BY <2>1, <2>9, <3>1, AnswersAreTyped DEF ItemRefused
  <2> QED BY <2>2, <2>3, <2>4, <2>5, <2>6, <2>7, <2>8, <2>9
<1>4. lastItemIdx' \in Indices
  <2>1. lastItemIdx \in Indices
    BY DEF IInv, TypeOK
  <2> QED BY <2>1 DEF RefusePacket, help, ridx, rbusy, idx, mapInteract, effect, ItemRefused
<1>5. trackedCount' \in 0 .. MAX_EFFS
  <2>1. trackedCount \in 0 .. MAX_EFFS /\ MAX_EFFS \in Nat
    BY CommandsAssumption DEF IInv, TypeOK
  <2>2. CASE effect
    BY <2>1, <2>2 DEF effect
  <2>3. CASE ~effect
    BY <2>1, <2>3 DEF RefusePacket, help, ridx, rbusy, idx, mapInteract, ItemRefused
  <2> QED BY <2>2, <2>3
<1>6. TypeOK'
  BY <1>1, <1>3, <1>4, <1>5 DEF IInv, TypeOK, gameVars, itemVars
<1>7. Delivering' = Delivering
  BY <1>1 DEF Delivering, gameVars
<1> QED BY <1>1, <1>6, <1>7
        DEF IInv, KeyCounted, NoOtherScript, StoresToEvt, OneItemAtATime, gameVars, itemVars

LEMMA U16IsTyped == \A n \in Nat : u16(n) \in U16
BY DEF u16, U16

LEMMA Counters ==
    ASSUME TypeOK
    PROVE  keyOff \in Nat /\ gameOffs \in Nat /\ lost \in Nat /\ itemId \in Nat
BY CommandsAssumption DEF TypeOK

LEMMA ItemStepKeepsIInv ==
    ASSUME IInv,
           ItemChecked \/ ItemKeyOff \/ ItemEvtEntry \/ ItemEvtEntryFails \/ ItemStore
    PROVE  IInv'
<1> USE DEF IInv
<1>0. keyOff \in Nat /\ gameOffs \in Nat /\ lost \in Nat /\ itemId \in Nat
  BY Counters
<1>1. CASE ItemChecked
  <2>1. TypeOK'
    BY <1>1 DEF ItemChecked, TypeOK, gameVars
  <2>2. Delivering' = Delivering
    BY <1>1 DEF ItemChecked, Delivering, gameVars
  <2>3. Delivering = {}
    BY <1>0, <1>1 DEF ItemChecked, KeyCounted
  <2> QED BY <1>0, <1>1, <2>1, <2>2, <2>3
          DEF ItemChecked, KeyCounted, NoOtherScript, StoresToEvt, OneItemAtATime, gameVars
<1>2. CASE ItemKeyOff
  <2>1. TypeOK'
    BY <1>0, <1>2 DEF ItemKeyOff, TypeOK
  <2>2. Delivering' = Delivering
    BY <1>2 DEF ItemKeyOff, Delivering
  <2> QED BY <1>0, <1>2, <2>1, <2>2
          DEF ItemKeyOff, KeyCounted, NoOtherScript, StoresToEvt, OneItemAtATime
<1>3. CASE ItemEvtEntry
  <2>1. PICK e \in Evts : /\ evt[e] = "free"
                         /\ evt' = [evt EXCEPT ![e] = "start"]
                         /\ lw0' = [lw0 EXCEPT ![e] = 0]
                         /\ newEvt' = e
    BY <1>3 DEF ItemEvtEntry
  <2>2. TypeOK'
    <3>1. 0 \in U16
      BY DEF U16
    <3>2. lw0' \in [Evts -> U16]
      BY <2>1, <3>1 DEF TypeOK
    <3>3. evt' \in [Evts -> {"free", "game", "start", "wait", "key_on"}]
      BY <2>1 DEF TypeOK
    <3> QED BY <1>3, <2>1, <3>2, <3>3 DEF ItemEvtEntry, TypeOK
  <2>3. Delivering = {}
    BY <1>3 DEF ItemEvtEntry, NoOtherScript
  <2>4. Delivering' = {e}
    BY <2>1, <2>3 DEF Delivering, TypeOK
  <2> QED BY <1>0, <1>3, <2>1, <2>2, <2>3, <2>4
          DEF ItemEvtEntry, KeyCounted, NoOtherScript, StoresToEvt, OneItemAtATime
<1>4. CASE ItemEvtEntryFails
  <2>1. Text("evtEntry failed", 0) \in TextTypes
    BY TextIsTyped DEF Kinds
  <2>2. /\ scratch' \in TextTypes
        /\ answer' \in [said : TextTypes, sent : TextTypes]
    BY <1>4, <2>1, AnswersAreTyped DEF ItemEvtEntryFails
  <2>3. /\ cPc = "entry" /\ cPc' = "idle" /\ lost' = lost + 1
        /\ UNCHANGED <<evt, lw0, keyOff, gameOffs, itemId, newEvt, asked, lastItemIdx,
                       trackedCount, given>>
    BY <1>4 DEF ItemEvtEntryFails, gameVars
  <2>4. TypeOK'
    BY <1>0, <2>2, <2>3 DEF TypeOK
  <2>5. Delivering' = Delivering
    BY <2>3 DEF Delivering
  <2> QED BY <1>0, <2>3, <2>4, <2>5
          DEF KeyCounted, NoOtherScript, StoresToEvt, OneItemAtATime
<1>5. CASE ItemStore
  <2>1. Text("received item", itemId) \in TextTypes
    BY <1>0, TextIsTyped DEF Kinds
  <2>2. /\ scratch' \in TextTypes
        /\ answer' \in [said : TextTypes, sent : TextTypes]
    BY <1>5, <2>1, AnswersAreTyped DEF ItemStore
  <2>3. u16(itemId) \in U16
    BY <1>0, U16IsTyped
  <2>4. asked' \in Seq(U16)
    <3>1. asked \in Seq(U16)
      BY DEF TypeOK
    <3>2. asked' = Append(asked, u16(itemId))
      BY <1>5 DEF ItemStore
    <3>3. \A s \in Seq(U16), n \in U16 : Append(s, n) \in Seq(U16)
      OBVIOUS
    <3> QED BY <2>3, <3>1, <3>2, <3>3
  <2>5. lw0' \in [Evts -> U16]
    <3>1. lw0 \in [Evts -> U16] /\ newEvt \in Evts
      BY <1>5 DEF TypeOK, StoresToEvt, ItemStore
    <3>2. lw0' = [lw0 EXCEPT ![newEvt] = u16(itemId)]
      BY <1>5 DEF ItemStore
    <3> QED BY <2>3, <3>1, <3>2
  <2>6. TypeOK'
    BY <1>5, <2>2, <2>4, <2>5 DEF ItemStore, TypeOK
  <2>7. Delivering' = Delivering
    BY <1>5 DEF ItemStore, Delivering
  <2> QED BY <1>0, <1>5, <2>6, <2>7
          DEF ItemStore, KeyCounted, NoOtherScript, StoresToEvt, OneItemAtATime
<1> QED BY <1>1, <1>2, <1>3, <1>4, <1>5

LEMMA GameKeepsIInv ==
    ASSUME IInv, Game
    PROVE  IInv'
<1> USE DEF IInv
<1>0. keyOff \in Nat /\ gameOffs \in Nat /\ lost \in Nat
  BY Counters
<1>1. CASE GameKeyOff
  <2>1. TypeOK'
    BY <1>0, <1>1, CommandsAssumption DEF GameKeyOff, TypeOK, itemVars
  <2>2. Delivering' = Delivering
    BY <1>1 DEF GameKeyOff, Delivering
  <2> QED BY <1>0, <1>1, <2>1, <2>2
          DEF GameKeyOff, KeyCounted, NoOtherScript, StoresToEvt, OneItemAtATime, itemVars
<1>2. CASE GameKeyOn
  <2>1. keyOff - 1 \in Nat
    BY <1>0, <1>2 DEF GameKeyOn, KeyCounted
  <2>2. TypeOK'
    BY <1>0, <1>2, <2>1, CommandsAssumption DEF GameKeyOn, TypeOK, itemVars
  <2>3. Delivering' = Delivering
    BY <1>2 DEF GameKeyOn, Delivering
  <2> QED BY <1>0, <1>2, <2>2, <2>3
          DEF GameKeyOn, KeyCounted, NoOtherScript, StoresToEvt, OneItemAtATime, itemVars
<1>3. CASE GameForgetsEffect
  <2>1. TypeOK'
    BY <1>3, CommandsAssumption DEF GameForgetsEffect, TypeOK, gameVars, itemVars
  <2>2. Delivering' = Delivering
    BY <1>3 DEF GameForgetsEffect, Delivering, gameVars
  <2> QED BY <1>3, <2>1, <2>2
          DEF GameForgetsEffect, KeyCounted, NoOtherScript, StoresToEvt, OneItemAtATime,
              gameVars, itemVars
<1>4. ASSUME NEW e \in Evts, GameEvt(e)
      PROVE  IInv'
  <2>1. TypeOK'
    BY <1>4 DEF GameEvt, TypeOK, itemVars
  <2>2. Delivering' = Delivering
    BY <1>4 DEF GameEvt, Delivering, TypeOK
  <2> QED BY <1>4, <2>1, <2>2
          DEF GameEvt, KeyCounted, NoOtherScript, StoresToEvt, OneItemAtATime, itemVars
<1>5. ASSUME NEW e \in Evts, ScriptCreatesItem(e)
      PROVE  IInv'
  <2>1. given' \in Seq([item : U16, early : BOOLEAN])
    BY <1>5 DEF TypeOK, ScriptCreatesItem
  <2>2. TypeOK'
    BY <1>5, <2>1 DEF ScriptCreatesItem, TypeOK, itemVars
  <2>3. Delivering' = Delivering
    BY <1>5 DEF ScriptCreatesItem, Delivering, TypeOK
  <2> QED BY <1>5, <2>2, <2>3
          DEF ScriptCreatesItem, KeyCounted, NoOtherScript, StoresToEvt, OneItemAtATime,
              itemVars
<1>6. ASSUME NEW e \in Evts, ScriptItemCollected(e)
      PROVE  IInv'
  <2>1. TypeOK'
    BY <1>6 DEF ScriptItemCollected, TypeOK, itemVars
  <2>2. Delivering' = Delivering
    BY <1>6 DEF ScriptItemCollected, Delivering, TypeOK
  <2> QED BY <1>6, <2>1, <2>2
          DEF ScriptItemCollected, KeyCounted, NoOtherScript, StoresToEvt, OneItemAtATime,
              itemVars
<1>7. ASSUME NEW e \in Evts, ScriptKeyOn(e)
      PROVE  IInv'
  <2>1. e \in Delivering
    BY <1>7 DEF ScriptKeyOn, Delivering
  <2>2. Delivering' = {}
    BY <1>7, <2>1 DEF ScriptKeyOn, Delivering, OneItemAtATime, TypeOK
  <2>3. keyOff - 1 \in Nat
    BY <1>0, <2>1 DEF KeyCounted
  <2>4. TypeOK'
    BY <1>7, <2>3 DEF ScriptKeyOn, TypeOK, itemVars
  <2> QED BY <1>0, <1>7, <2>1, <2>2, <2>4
          DEF ScriptKeyOn, KeyCounted, NoOtherScript, StoresToEvt, OneItemAtATime, itemVars
<1> QED BY <1>1, <1>2, <1>3, <1>4, <1>5, <1>6, <1>7 DEF Game, Script

LEMMA StepKeepsIInv == IInv /\ [Next]_vars => IInv'
<1> SUFFICES ASSUME IInv, [Next]_vars
             PROVE  IInv'
  OBVIOUS
<1>1. CASE UNCHANGED vars
  <2>1. UNCHANGED <<cPc, itemId, newEvt, evt, lw0, keyOff, gameOffs, lost, lastItemIdx,
                    trackedCount, scratch, answer, asked, given>>
    BY <1>1 DEF vars, gameVars, itemVars
  <2> QED BY <2>1 DEF IInv, TypeOK, KeyCounted, NoOtherScript, StoresToEvt, OneItemAtATime,
                      Delivering
<1>2. CASE Next
  BY <1>2, PlainCommandKeepsIInv, ItemStepKeepsIInv, GameKeepsIInv DEF Next, Receiver
<1> QED BY <1>1, <1>2

LEMMA SpecIInv == Spec => []IInv
BY InitIInv, StepKeepsIInv, PTL DEF Spec
-----------------------------------------------------------------------------
\* Every variable stays in its type.
THEOREM CommandsTypeCorrect == Spec => []TypeOK
<1>1. IInv => TypeOK
  BY DEF IInv
<1> QED BY <1>1, SpecIInv, PTL

\* Two items are never delivered at the same time, although the busy test and the
\* key-off are two calls.
THEOREM OneItemAtATimeCorrect == Spec => []OneItemAtATime
<1>1. IInv => OneItemAtATime
  BY DEF IInv
<1> QED BY <1>1, SpecIInv, PTL

\* The key is held as long as an item is being delivered.
THEOREM KeyHeldCorrect == Spec => []KeyHeldWhileDelivering
<1>1. IInv => KeyHeldWhileDelivering
  BY Counters DEF IInv, KeyCounted, KeyHeldWhileDelivering
<1> QED BY <1>1, SpecIInv, PTL
-----------------------------------------------------------------------------
(* The items that are given, whether or not the game's thread runs in the  *)
(* middle of a command.                                                    *)

Starting == {e \in Evts : evt[e] = "start"}
Given == [item : U16, early : BOOLEAN]

\* While a command is at its store, its script waits for it, and would create item 0...
StoreInTime == newEvt \in Starting /\ Len(asked) = Len(given) /\ lw0[newEvt] = 0

\* ... or has created that item already.
StoreTooLate ==
    /\ Starting = {} /\ Len(given) = Len(asked) + 1 /\ given[Len(given)].early

\* Between commands a script that has not created its item yet holds the one item that
\* was asked for and not given.
OneItemOwed ==
    IF cPc = "store" THEN StoreInTime \/ StoreTooLate
    ELSE /\ Starting = {} => Len(asked) = Len(given)
         /\ \A e \in Starting : /\ Len(asked) = Len(given) + 1
                                /\ asked[Len(asked)] = lw0[e]

\* GivenAsAsked, without the length.
ItemsAreAsked ==
    \A i \in 1 .. Len(given) :
      IF given[i].early THEN GamePreempts /\ given[i].item = 0
      ELSE i \in 1 .. Len(asked) /\ given[i].item = asked[i]

GInv == OneItemOwed /\ ItemsAreAsked

LEMMA InitGInv == Init => GInv
BY DEF Init, GInv, OneItemOwed, ItemsAreAsked, Starting

\* What neither asks nor gives, nor moves a script that is starting, keeps GInv.
LEMMA QuietStepKeepsGInv ==
    ASSUME GInv, Starting' = Starting, UNCHANGED <<cPc, newEvt, lw0, asked, given>>
    PROVE  GInv'
BY DEF GInv, OneItemOwed, StoreInTime, StoreTooLate, ItemsAreAsked

LEMMA Histories ==
    ASSUME IInv
    PROVE  /\ asked \in Seq(U16) /\ given \in Seq(Given)
           /\ Len(asked) \in Nat /\ Len(given) \in Nat
BY DEF IInv, TypeOK, Given

LEMMA AskedGrows ==
    ASSUME NEW s \in Seq(U16), NEW n \in U16
    PROVE  /\ Len(Append(s, n)) = Len(s) + 1
           /\ Append(s, n)[Len(s) + 1] = n
           /\ \A i \in 1 .. Len(s) : Append(s, n)[i] = s[i]
OBVIOUS

LEMMA GivenGrows ==
    ASSUME NEW s \in Seq(Given), NEW n \in Given
    PROVE  /\ Len(Append(s, n)) = Len(s) + 1
           /\ Append(s, n)[Len(s) + 1] = n
           /\ \A i \in 1 .. Len(s) : Append(s, n)[i] = s[i]
OBVIOUS

LEMMA ReceiverKeepsGInv ==
    ASSUME IInv, GInv, Receiver
    PROVE  GInv'
<1>0. Starting \subseteq Delivering
  BY DEF Starting, Delivering
<1>1. /\ asked \in Seq(U16) /\ given \in Seq(Given)
      /\ Len(asked) \in Nat /\ Len(given) \in Nat
  BY Histories
<1>2. CASE RefusePacket \/ help \/ ridx \/ rbusy \/ idx \/ mapInteract \/ effect \/ ItemRefused
  <2>1. UNCHANGED <<gameVars, itemVars, given>>
    BY <1>2 DEF RefusePacket, help, ridx, rbusy, idx, mapInteract, effect, ItemRefused
  <2>2. Starting' = Starting
    BY <2>1 DEF Starting, gameVars
  <2> QED BY <2>1, <2>2, QuietStepKeepsGInv DEF gameVars, itemVars
<1>3. CASE ItemChecked
  <2>1. UNCHANGED <<gameVars, asked, given>> /\ cPc = "idle" /\ cPc' = "keyOff"
    BY <1>3 DEF ItemChecked
  <2>2. Starting' = Starting
    BY <2>1 DEF Starting, gameVars
  <2> QED BY <2>1, <2>2 DEF GInv, OneItemOwed, ItemsAreAsked, gameVars
<1>4. CASE ItemKeyOff
  <2>1. UNCHANGED <<evt, lw0, asked, given>> /\ cPc = "keyOff" /\ cPc' = "entry"
    BY <1>4 DEF ItemKeyOff
  <2>2. Starting' = Starting
    BY <2>1 DEF Starting
  <2> QED BY <2>1, <2>2 DEF GInv, OneItemOwed, ItemsAreAsked
<1>5. CASE ItemEvtEntry
  <2>1. PICK e \in Evts : /\ evt' = [evt EXCEPT ![e] = "start"]
                         /\ lw0' = [lw0 EXCEPT ![e] = 0]
                         /\ newEvt' = e
    BY <1>5 DEF ItemEvtEntry
  <2>2. newEvt' \in Starting' /\ lw0'[newEvt'] = 0
    BY <2>1 DEF IInv, TypeOK, Starting
  <2>3. Starting = {}
    BY <1>0, <1>5 DEF IInv, NoOtherScript, ItemEvtEntry
  <2>4. cPc = "entry" /\ cPc' = "store" /\ UNCHANGED <<asked, given>>
    BY <1>5 DEF ItemEvtEntry
  <2>5. Len(asked') = Len(given')
    BY <2>3, <2>4 DEF GInv, OneItemOwed
  <2>6. ItemsAreAsked'
    BY <2>4 DEF GInv, ItemsAreAsked
  <2> QED BY <2>2, <2>4, <2>5, <2>6 DEF GInv, OneItemOwed, StoreInTime
<1>6. CASE ItemEvtEntryFails
  <2>1. UNCHANGED <<evt, lw0, asked, given>> /\ cPc = "entry" /\ cPc' = "idle"
    BY <1>6 DEF ItemEvtEntryFails, gameVars
  <2>2. Starting' = Starting
    BY <2>1 DEF Starting
  <2> QED BY <2>1, <2>2 DEF GInv, OneItemOwed, ItemsAreAsked
<1>7. CASE ItemStore
  <2>1. newEvt \in Evts /\ cPc = "store" /\ cPc' = "idle" /\ UNCHANGED <<evt, given>>
        /\ asked' = Append(asked, u16(itemId)) /\ lw0' = [lw0 EXCEPT ![newEvt] = u16(itemId)]
    BY <1>7 DEF ItemStore, IInv, StoresToEvt
  <2>2. u16(itemId) \in U16
    BY Counters, U16IsTyped DEF IInv
  <2>3. /\ Len(asked') = Len(asked) + 1 /\ asked'[Len(asked) + 1] = u16(itemId)
        /\ \A i \in 1 .. Len(asked) : asked'[i] = asked[i]
    BY <1>1, <2>1, <2>2, AskedGrows
  <2>4. ItemsAreAsked'
    <3> SUFFICES ASSUME NEW i \in 1 .. Len(given), ~given[i].early
                 PROVE  i \in 1 .. Len(asked') /\ given[i].item = asked'[i]
      BY <2>1 DEF GInv, ItemsAreAsked
    <3>1. i \in 1 .. Len(asked) /\ given[i].item = asked[i]
      BY DEF GInv, ItemsAreAsked
    <3> QED BY <1>1, <2>3, <3>1
  <2>5. Starting' = Starting
    BY <2>1 DEF Starting
  <2>6. CASE StoreInTime
    <3>1. Starting = {newEvt}
      BY <1>0, <2>6 DEF StoreInTime, IInv, OneItemAtATime
    <3>2. lw0'[newEvt] = u16(itemId)
      BY <2>1 DEF IInv, TypeOK
    <3>3. Len(asked') = Len(given) + 1 /\ asked'[Len(asked')] = lw0'[newEvt]
      BY <2>3, <2>6, <3>2 DEF StoreInTime
    <3>4. OneItemOwed'
      BY <2>1, <2>5, <3>1, <3>3 DEF OneItemOwed
    <3> QED BY <2>4, <3>4 DEF GInv
  <2>7. CASE StoreTooLate
    <3>1. Starting' = {} /\ Len(asked') = Len(given')
      BY <2>1, <2>3, <2>5, <2>7 DEF StoreTooLate
    <3>2. OneItemOwed'
      BY <2>1, <3>1 DEF OneItemOwed
    <3> QED BY <2>4, <3>2 DEF GInv
  <2>8. StoreInTime \/ StoreTooLate
    BY <2>1 DEF GInv, OneItemOwed
  <2> QED BY <2>6, <2>7, <2>8
<1> QED BY <1>2, <1>3, <1>4, <1>5, <1>6, <1>7 DEF Receiver

\* The script creates its item: the one that is owed, or item 0 before the store.
LEMMA CreatesKeepsGInv ==
    ASSUME IInv, GInv, NEW e \in Evts, ScriptCreatesItem(e)
    PROVE  GInv'
<1> DEFINE new == [item |-> lw0[e], early |-> cPc = "store"]
<1>0. Starting \subseteq Delivering
  BY DEF Starting, Delivering
<1>1. /\ asked \in Seq(U16) /\ given \in Seq(Given)
      /\ Len(asked) \in Nat /\ Len(given) \in Nat
  BY Histories
<1>2. e \in Starting
  BY DEF ScriptCreatesItem, Starting
<1>3. Starting' = {}
  BY <1>0, <1>2 DEF ScriptCreatesItem, IInv, OneItemAtATime, Starting, TypeOK
<1>4. given' = Append(given, new) /\ UNCHANGED <<cPc, newEvt, asked>>
  BY DEF ScriptCreatesItem, itemVars
<1>5. new \in Given /\ new.item = lw0[e] /\ (new.early <=> cPc = "store")
  BY DEF IInv, TypeOK, Given
<1> HIDE DEF new
<1>6. /\ Len(given') = Len(given) + 1 /\ given'[Len(given) + 1] = new
      /\ \A i \in 1 .. Len(given) : given'[i] = given[i]
  BY <1>1, <1>4, <1>5, GivenGrows
<1>7. ASSUME new.early => GamePreempts /\ new.item = 0,
             ~new.early => Len(given) + 1 \in 1 .. Len(asked) /\ new.item = asked[Len(given) + 1]
      PROVE  ItemsAreAsked'
  <2> SUFFICES ASSUME NEW i \in 1 .. Len(given')
               PROVE  IF given'[i].early THEN GamePreempts /\ given'[i].item = 0
                      ELSE i \in 1 .. Len(asked) /\ given'[i].item = asked[i]
    BY <1>4 DEF ItemsAreAsked
  <2>1. CASE i = Len(given) + 1
    BY <1>6, <1>7, <2>1
  <2>2. CASE i # Len(given) + 1
    <3>1. i \in 1 .. Len(given)
      BY <1>1, <1>6, <2>2
    <3> QED BY <1>6, <3>1 DEF GInv, ItemsAreAsked
  <2> QED BY <2>1, <2>2
<1>8. CASE cPc = "store"
  <2>1. StoreInTime
    BY <1>2, <1>8 DEF GInv, OneItemOwed, StoreTooLate
  <2>2. e = newEvt /\ lw0[e] = 0 /\ Len(asked) = Len(given)
    BY <1>0, <1>2, <2>1 DEF StoreInTime, IInv, OneItemAtATime
  <2>3. GamePreempts
    BY <1>8 DEF ScriptCreatesItem, GameMayRun
  <2>4. ItemsAreAsked'
    BY <1>5, <1>7, <1>8, <2>2, <2>3
  <2>5. StoreTooLate'
    BY <1>3, <1>4, <1>5, <1>6, <1>8, <2>2 DEF StoreTooLate
  <2> QED BY <1>4, <1>8, <2>4, <2>5 DEF GInv, OneItemOwed
<1>9. CASE cPc # "store"
  <2>1. Len(asked) = Len(given) + 1 /\ asked[Len(asked)] = lw0[e]
    BY <1>2, <1>9 DEF GInv, OneItemOwed
  <2>2. ItemsAreAsked'
    BY <1>1, <1>5, <1>7, <1>9, <2>1
  <2>3. Len(asked') = Len(given')
    BY <1>4, <1>6, <2>1
  <2> QED BY <1>3, <1>4, <1>9, <2>2, <2>3 DEF GInv, OneItemOwed
<1> QED BY <1>8, <1>9

LEMMA GameKeepsGInv ==
    ASSUME IInv, GInv, Game
    PROVE  GInv'
<1>1. CASE GameKeyOff \/ GameKeyOn \/ GameForgetsEffect
  <2>1. UNCHANGED <<evt, lw0, itemVars, given>>
    BY <1>1 DEF GameKeyOff, GameKeyOn, GameForgetsEffect, gameVars
  <2>2. Starting' = Starting
    BY <2>1 DEF Starting
  <2> QED BY <2>1, <2>2, QuietStepKeepsGInv DEF itemVars
<1>2. ASSUME NEW e \in Evts, GameEvt(e) \/ ScriptItemCollected(e) \/ ScriptKeyOn(e)
      PROVE  GInv'
  <2>1. UNCHANGED <<lw0, itemVars, given>>
    BY <1>2 DEF GameEvt, ScriptItemCollected, ScriptKeyOn
  <2>2. Starting' = Starting
    BY <1>2 DEF GameEvt, ScriptItemCollected, ScriptKeyOn, Starting, IInv, TypeOK
  <2> QED BY <2>1, <2>2, QuietStepKeepsGInv DEF itemVars
<1> QED BY <1>1, <1>2, CreatesKeepsGInv DEF Game, Script

LEMMA GInvMeansAsAsked == IInv /\ GInv => GivenAsAsked
<1> SUFFICES ASSUME IInv, GInv PROVE GivenAsAsked
  OBVIOUS
<1>1. /\ asked \in Seq(U16) /\ given \in Seq(Given)
      /\ Len(asked) \in Nat /\ Len(given) \in Nat
  BY Histories
<1>2. Len(given) <= Len(asked) + (IF cPc = "store" THEN 1 ELSE 0)
  <2>1. CASE cPc = "store"
    BY <1>1, <2>1 DEF GInv, OneItemOwed, StoreInTime, StoreTooLate
  <2>2. CASE cPc # "store" /\ Starting = {}
    BY <1>1, <2>2 DEF GInv, OneItemOwed
  <2>3. CASE cPc # "store" /\ Starting # {}
    BY <1>1, <2>3 DEF GInv, OneItemOwed
  <2> QED BY <2>1, <2>2, <2>3
<1>3. DOMAIN given = 1 .. Len(given) /\ DOMAIN asked = 1 .. Len(asked)
  BY <1>1
<1> QED BY <1>2, <1>3 DEF GInv, ItemsAreAsked, GivenAsAsked

\* The items created are the items asked for, in their order and each once; where the game
\* runs the script of a command that has not stored its item yet, and only there, item 0
\* takes its place.
THEOREM GivenAsAskedCorrect == Spec => []GivenAsAsked
<1>1. IInv /\ GInv /\ [Next]_vars => GInv'
  <2> SUFFICES ASSUME IInv, GInv, [Next]_vars
               PROVE  GInv'
    OBVIOUS
  <2>1. CASE UNCHANGED vars
    <3>1. UNCHANGED <<evt, cPc, newEvt, lw0, asked, given>>
      BY <2>1 DEF vars, gameVars, itemVars
    <3> QED BY <3>1, QuietStepKeepsGInv DEF Starting
  <2>2. CASE Next
    BY <2>2, ReceiverKeepsGInv, GameKeepsGInv DEF Next
  <2> QED BY <2>1, <2>2
<1> QED BY <1>1, GInvMeansAsAsked, InitGInv, SpecIInv, PTL DEF Spec
=============================================================================
