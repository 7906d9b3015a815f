---------------------------- MODULE EvtPatchProof -----------------------------
(***************************************************************************)
(* Theorems about the patching of event scripts, for any whole scripts,    *)
(* any patches of their lines and any number of entries.                   *)
(*                                                                         *)
(* The first, on calls between scripts, needs nothing but that stacks are  *)
(* sequences.  The second, on addresses, needs to know what memory is:     *)
(* code, a set of addresses at which instructions begin that is closed     *)
(* under going on, jumping and calling, and in it the lines the patched    *)
(* script is meant to have, each at its address.  Every patch keeps that,  *)
(* with other addresses.  The third, on what patched scripts do, needs to  *)
(* know what that code means: what comes of calling each script outside    *)
(* the patched one, and that every edited line does what comes of the      *)
(* instruction at its address.  A run then has done a part of what the     *)
(* lines do, and the rest follows from where it is and the calls it has    *)
(* open.                                                                   *)
(***************************************************************************)
EXTENDS EvtPatch, SequenceTheorems, NatRecursion, TLAPS

\* A suffix, element by element.
LEMMA SuffixByElements ==
    ASSUME NEW S, NEW s \in Seq(S), NEW t \in Seq(S)
    PROVE  IsSuffix(s, t) <=>
               /\ Len(s) <= Len(t)
               /\ \A i \in 1 .. Len(s) : s[i] = t[Len(t) - Len(s) + i]
<1>1. /\ Len(s) \in Nat /\ Len(t) \in Nat
      /\ Len(Reverse(s)) = Len(s) /\ Len(Reverse(t)) = Len(t)
      /\ \A i \in 1 .. Len(s) : Reverse(s)[i] = s[Len(s) - i + 1] /\ Reverse(s)[i] \in S
      /\ \A i \in 1 .. Len(t) : Reverse(t)[i] = t[Len(t) - i + 1] /\ Reverse(t)[i] \in S
  <2>1. Len(s) \in Nat /\ Len(t) \in Nat
    BY LenProperties
  <2>2. Reverse(s) \in Seq(S) /\ Len(Reverse(s)) = Len(s)
    BY <2>1 DEF Reverse
  <2>3. Reverse(t) \in Seq(S) /\ Len(Reverse(t)) = Len(t)
    BY <2>1 DEF Reverse
  <2>4. \A i \in 1 .. Len(s) : Reverse(s)[i] = s[Len(s) - i + 1]
    BY DEF Reverse
  <2>5. \A i \in 1 .. Len(t) : Reverse(t)[i] = t[Len(t) - i + 1]
    BY DEF Reverse
  <2>6. \A i \in 1 .. Len(s) : Reverse(s)[i] \in S
    BY <2>2, ElementOfSeq
  <2>7. \A i \in 1 .. Len(t) : Reverse(t)[i] \in S
    BY <2>3, ElementOfSeq
  <2> QED BY <2>1, <2>2, <2>3, <2>4, <2>5, <2>6, <2>7
<1> DEFINE n == Len(s)
           rs == SubSeq(Reverse(s), 1, n)
           rt == SubSeq(Reverse(t), 1, n)
<1>2. IsSuffix(s, t) <=> n <= Len(t) /\ rs = rt
  BY <1>1 DEF IsSuffix, IsPrefix
<1>3. ASSUME n <= Len(t)
      PROVE  rs = rt <=> \A i \in 1 .. n : s[i] = t[Len(t) - n + i]
  <2>1. /\ rs \in Seq(S) /\ Len(rs) = n
        /\ \A i \in 1 .. n : rs[i] = s[n - i + 1]
    <3>1. \A i \in 1 .. n : Reverse(s)[i] \in S
      BY <1>1
    <3>2. /\ rs \in Seq(S) /\ Len(rs) = (IF 1 <= n THEN n - 1 + 1 ELSE 0)
          /\ \A i \in 1 .. n - 1 + 1 : rs[i] = Reverse(s)[1 + i - 1]
      BY <1>1, <3>1, SubSeqProperties
    <3> QED BY <1>1, <3>2
  <2>2. /\ rt \in Seq(S) /\ Len(rt) = n
        /\ \A i \in 1 .. n : rt[i] = t[Len(t) - i + 1]
    <3>1. \A i \in 1 .. n : Reverse(t)[i] \in S
      BY <1>1, <1>3
    <3>2. /\ rt \in Seq(S) /\ Len(rt) = (IF 1 <= n THEN n - 1 + 1 ELSE 0)
          /\ \A i \in 1 .. n - 1 + 1 : rt[i] = Reverse(t)[1 + i - 1]
      BY <1>1, <3>1, SubSeqProperties
    <3>3. \A i \in 1 .. n : rt[i] = Reverse(t)[i]
      BY <1>1, <3>2
    <3> QED BY <1>1, <1>3, <3>2, <3>3
  <2> HIDE DEF rs, rt
  <2>3. rs = rt <=> \A i \in 1 .. n : rs[i] = rt[i]
    BY <2>1, <2>2, SeqEqual
  <2>4. ASSUME \A i \in 1 .. n : rs[i] = rt[i], NEW i \in 1 .. n
        PROVE  s[i] = t[Len(t) - n + i]
    <3>1. PICK k \in 1 .. n : n - k + 1 = i /\ Len(t) - k + 1 = Len(t) - n + i
      <4>1. n - i + 1 \in 1 .. n /\ n - (n - i + 1) + 1 = i
            /\ Len(t) - (n - i + 1) + 1 = Len(t) - n + i
        BY <1>1
      <4> QED BY <4>1
    <3>2. rs[k] = s[i] /\ rt[k] = t[Len(t) - n + i]
      BY <2>1, <2>2, <3>1
    <3> QED BY <2>4, <3>2
  <2>5. ASSUME \A i \in 1 .. n : s[i] = t[Len(t) - n + i], NEW i \in 1 .. n
        PROVE  rs[i] = rt[i]
    <3>1. n - i + 1 \in 1 .. n /\ Len(t) - n + (n - i + 1) = Len(t) - i + 1
      BY <1>1
    <3>2. s[n - i + 1] = t[Len(t) - n + (n - i + 1)]
      BY <2>5, <3>1
    <3> QED BY <2>1, <2>2, <3>1, <3>2
  <2> QED BY <2>3, <2>4, <2>5
<1> HIDE DEF rs, rt
<1> QED BY <1>2, <1>3
-----------------------------------------------------------------------------
(* Stacks under what the opcodes do to them.                               *)

LEMMA EmptyIsSuffixOf ==
    ASSUME NEW S, NEW t \in Seq(S)
    PROVE  IsSuffix(<<>>, t)
<1>1. <<>> \in Seq(S) /\ Len(<<>>) = 0 /\ Len(t) \in Nat
  BY EmptySeq, LenProperties
<1>2. Len(<<>>) <= Len(t) /\ \A i \in 1 .. Len(<<>>) : <<>>[i] = t[Len(t) - Len(<<>>) + i]
  BY <1>1
<1> QED BY <1>1, <1>2, SuffixByElements

LEMMA PushBoth ==
    ASSUME NEW S, NEW s \in Seq(S), NEW t \in Seq(S), NEW x \in S, IsSuffix(s, t)
    PROVE  IsSuffix(Append(s, x), Append(t, x))
<1> DEFINE u == Append(s, x)
           v == Append(t, x)
<1>1. /\ u \in Seq(S) /\ v \in Seq(S)
      /\ Len(u) = Len(s) + 1 /\ Len(v) = Len(t) + 1 /\ Len(s) \in Nat /\ Len(t) \in Nat
      /\ \A i \in 1 .. Len(s) : u[i] = s[i]
      /\ \A i \in 1 .. Len(t) : v[i] = t[i]
      /\ u[Len(s) + 1] = x /\ v[Len(t) + 1] = x
  BY AppendProperties, LenProperties
<1>2. Len(s) <= Len(t) /\ \A i \in 1 .. Len(s) : s[i] = t[Len(t) - Len(s) + i]
  BY SuffixByElements
<1> HIDE DEF u, v
<1>3. ASSUME NEW i \in 1 .. Len(u)
      PROVE  u[i] = v[Len(v) - Len(u) + i]
  <2>1. CASE i = Len(s) + 1
    <3>1. Len(v) - Len(u) + i = Len(t) + 1
      BY <1>1, <2>1
    <3> QED BY <1>1, <2>1, <3>1
  <2>2. CASE i # Len(s) + 1
    <3>1. /\ i \in 1 .. Len(s) /\ Len(v) - Len(u) + i = Len(t) - Len(s) + i
          /\ Len(t) - Len(s) + i \in 1 .. Len(t)
      BY <1>1, <1>2, <2>2
    <3> QED BY <1>1, <1>2, <3>1
  <2> QED BY <2>1, <2>2
<1>4. Len(u) <= Len(v)
  BY <1>1, <1>2
<1>5. IsSuffix(u, v)
  BY <1>1, <1>3, <1>4, SuffixByElements
<1> QED BY <1>5 DEF u, v

LEMMA FrontDrops ==
    ASSUME NEW S, NEW s \in Seq(S)
    PROVE  /\ Front(s) \in Seq(S)
           /\ s # <<>> => /\ Len(Front(s)) = Len(s) - 1
                          /\ \A i \in 1 .. Len(s) - 1 : Front(s)[i] = s[i]
<1>1. Len(s) \in Nat /\ (s # <<>> => Len(s) # 0) /\ \A i \in 1 .. Len(s) - 1 : s[i] \in S
  BY LenProperties, EmptySeq, ElementOfSeq
<1> DEFINE n == Len(s) - 1
<1>2. /\ Front(s) \in Seq(S)
      /\ Len(Front(s)) = (IF 1 <= n THEN n - 1 + 1 ELSE 0)
      /\ \A i \in 1 .. n - 1 + 1 : Front(s)[i] = s[1 + i - 1]
  BY <1>1, SubSeqProperties DEF Front
<1> HIDE DEF n
<1>3. n \in Int /\ n = Len(s) - 1 /\ \A i \in 1 .. n : i \in 1 .. n - 1 + 1 /\ 1 + i - 1 = i
  BY <1>1 DEF n
<1>4. \A i \in 1 .. n : Front(s)[i] = s[i]
  BY <1>2, <1>3
<1>5. s # <<>> => Len(Front(s)) = n
  BY <1>1, <1>2, <1>3
<1> QED BY <1>2, <1>3, <1>4, <1>5

LEMMA PopBoth ==
    ASSUME NEW S, NEW s \in Seq(S), NEW t \in Seq(S), s # <<>>, IsSuffix(s, t)
    PROVE  IsSuffix(Front(s), Front(t))
<1>1. /\ Len(s) \in Nat \ {0} /\ Len(s) <= Len(t) /\ Len(t) \in Nat \ {0}
      /\ \A i \in 1 .. Len(s) : s[i] = t[Len(t) - Len(s) + i]
  BY SuffixByElements, EmptySeq, LenProperties
<1>2. /\ Front(s) \in Seq(S) /\ Len(Front(s)) = Len(s) - 1
      /\ \A i \in 1 .. Len(s) - 1 : Front(s)[i] = s[i]
  BY <1>1, FrontDrops
<1>3. /\ Front(t) \in Seq(S) /\ Len(Front(t)) = Len(t) - 1
      /\ \A i \in 1 .. Len(t) - 1 : Front(t)[i] = t[i]
  BY <1>1, FrontDrops
<1>4. ASSUME NEW i \in 1 .. Len(Front(s))
      PROVE  Front(s)[i] = Front(t)[Len(Front(t)) - Len(Front(s)) + i]
  <2>1. /\ i \in 1 .. Len(s) /\ i \in 1 .. Len(s) - 1
        /\ Len(Front(t)) - Len(Front(s)) + i = Len(t) - Len(s) + i
        /\ Len(t) - Len(s) + i \in 1 .. Len(t) - 1
    BY <1>1, <1>2, <1>3
  <2> QED BY <1>1, <1>2, <1>3, <2>1
<1>5. Len(Front(s)) <= Len(Front(t))
  BY <1>1, <1>2, <1>3
<1> QED BY <1>2, <1>3, <1>4, <1>5, SuffixByElements
-----------------------------------------------------------------------------
(* The stacks of the entries.                                              *)

StackTypes(P, J, S) ==
    /\ evtEntries \in [Entries -> [on : BOOLEAN, pc : P, jump : J]]
    /\ returnStacks \in [Entries -> Seq(S)]
    /\ evtOpen \in [Entries -> Seq(S)]

StackInv == (\E P, J, S : StackTypes(P, J, S)) /\ ReturnsToCaller

\* What an entry's stacks are to each other, by whether it runs.
StacksOf(on, open, stack) == IF on THEN IsSuffix(open, stack) ELSE stack = <<>>

LEMMA ByEntry ==
    ReturnsToCaller <=> \A e \in Entries : StacksOf(evtEntries[e].on, evtOpen[e], returnStacks[e])
BY DEF ReturnsToCaller, StacksOf

\* An entry of the event manager, whatever its counter and its table are.
IsEntry(entry) ==
    /\ entry = [on |-> entry.on, pc |-> entry.pc, jump |-> entry.jump]
    /\ entry.on \in BOOLEAN

LEMMA ChangedEntry ==
    ASSUME NEW x, IsEntry(x), NEW pc, NEW jump
    PROVE  /\ IsEntry([x EXCEPT !.pc = pc]) /\ [x EXCEPT !.pc = pc].on = x.on
           /\ IsEntry([x EXCEPT !.pc = pc, !.jump = jump])
           /\ [x EXCEPT !.pc = pc, !.jump = jump].on = x.on
<1>1. PICK a, b, c : a \in BOOLEAN /\ x = [on |-> a, pc |-> b, jump |-> c]
  BY DEF IsEntry
<1>2. [x EXCEPT !.pc = pc] = [on |-> a, pc |-> pc, jump |-> c]
  BY <1>1
<1>3. [x EXCEPT !.pc = pc, !.jump = jump] = [on |-> a, pc |-> pc, jump |-> jump]
  <2>1. [x EXCEPT !.pc = pc, !.jump = jump] = [[x EXCEPT !.pc = pc] EXCEPT !.jump = jump]
    OBVIOUS
  <2> DEFINE y == [x EXCEPT !.pc = pc]
  <2>2. y = [on |-> a, pc |-> pc, jump |-> c]
    BY <1>2
  <2> HIDE DEF y
  <2>3. [y EXCEPT !.jump = jump] = [on |-> a, pc |-> pc, jump |-> jump]
    BY <2>2
  <2> QED BY <2>1, <2>3 DEF y
<1>4. x.on = a
  BY <1>1
<1> QED BY <1>2, <1>3, <1>4 DEF IsEntry

\* A step that changes one entry, and leaves it with the stacks it should have.
LEMMA OneEntry ==
    ASSUME StackInv, NEW e \in Entries, NEW entry, NEW T, NEW stack \in Seq(T), NEW open \in Seq(T),
           IsEntry(entry), StacksOf(entry.on, open, stack),
           evtEntries' = [evtEntries EXCEPT ![e] = entry],
           returnStacks' = [returnStacks EXCEPT ![e] = stack],
           evtOpen' = [evtOpen EXCEPT ![e] = open]
    PROVE  StackInv'
<1>1. PICK P, J, S : StackTypes(P, J, S)
  BY DEF StackInv
<1> DEFINE P1 == P \cup {entry.pc}
           J1 == J \cup {entry.jump}
           S1 == S \cup T
<1>2. P \subseteq P1 /\ J \subseteq J1 /\ S \subseteq S1 /\ T \subseteq S1
  OBVIOUS
<1>3. entry \in [on : BOOLEAN, pc : P1, jump : J1]
  <2>1. entry.pc \in P1 /\ entry.jump \in J1
    OBVIOUS
  <2> HIDE DEF P1, J1
  <2> QED BY <2>1 DEF IsEntry
<1> HIDE DEF P1, J1, S1
<1>4. stack \in Seq(S1) /\ open \in Seq(S1)
  BY <1>2, SeqMonotonic
<1>5. \A f \in Entries : /\ returnStacks[f] \in Seq(S1) /\ evtOpen[f] \in Seq(S1)
                         /\ evtEntries[f] \in [on : BOOLEAN, pc : P1, jump : J1]
  BY <1>1, <1>2, SeqMonotonic DEF StackTypes
<1>6. /\ evtEntries' \in [Entries -> [on : BOOLEAN, pc : P1, jump : J1]]
      /\ returnStacks' \in [Entries -> Seq(S1)]
      /\ evtOpen' \in [Entries -> Seq(S1)]
  BY <1>1, <1>3, <1>4, <1>5 DEF StackTypes
<1>7. \A f \in Entries : StacksOf(evtEntries'[f].on, evtOpen'[f], returnStacks'[f])
  <2> SUFFICES ASSUME NEW f \in Entries
               PROVE  StacksOf(evtEntries'[f].on, evtOpen'[f], returnStacks'[f])
    OBVIOUS
  <2>1. CASE f = e
    BY <1>1, <2>1 DEF StackTypes
  <2>2. CASE f # e
    BY <1>1, <2>2, ByEntry DEF StackTypes, StackInv
  <2> QED BY <2>1, <2>2
<1>8. ReturnsToCaller'
  BY <1>7 DEF ReturnsToCaller, StacksOf
<1>9. StackTypes(P1, J1, S1)'
  BY <1>6 DEF StackTypes
<1> QED BY <1>8, <1>9 DEF StackInv

LEMMA EntryAt ==
    ASSUME NEW P, NEW J, NEW S, StackTypes(P, J, S), NEW e \in Entries
    PROVE  /\ IsEntry(evtEntries[e]) /\ DOMAIN evtEntries = Entries
           /\ returnStacks[e] \in Seq(S) /\ evtOpen[e] \in Seq(S)
           /\ returnStacks = [returnStacks EXCEPT ![e] = returnStacks[e]]
           /\ evtOpen = [evtOpen EXCEPT ![e] = evtOpen[e]]
<1>1. evtEntries[e] \in [on : BOOLEAN, pc : P, jump : J] /\ DOMAIN evtEntries = Entries
  BY DEF StackTypes
<1> QED BY <1>1 DEF StackTypes, IsEntry

LEMMA StackStep ==
    ASSUME StackInv, EvtNext
    PROVE  StackInv'
<1>0. PICK P, J, S : StackTypes(P, J, S)
  BY DEF StackInv
<1>r. ReturnsToCaller
  BY DEF StackInv
<1>1. CASE Patch
  <2>1. UNCHANGED <<evtEntries, returnStacks, evtOpen>>
    BY <1>1 DEF Patch, hookEvt, hookEvtReplace, hookEvtReplaceBlock, patchEvtInstruction, Patching
  <2>2. StackTypes(P, J, S)'
    BY <1>0, <2>1 DEF StackTypes
  <2> QED BY <1>r, <2>1, <2>2 DEF StackInv, ReturnsToCaller
<1>2. ASSUME NEW e \in Entries, Begin(e)
      PROVE  StackInv'
  <2> DEFINE table == LabelsFrom(evtMem, Parent, {EvtEnd})
             entry == [on |-> TRUE, pc |-> Parent, jump |-> table]
  <2>1. /\ evtEntries' = [evtEntries EXCEPT ![e] = entry]
        /\ evtOpen' = [evtOpen EXCEPT ![e] = <<>>] /\ returnStacks' = returnStacks
    BY <1>2 DEF Begin
  <2> HIDE DEF table
  <2>2. IsEntry(entry) /\ entry.on = TRUE
    BY DEF IsEntry
  <2> HIDE DEF entry
  <2>3. IsSuffix(<<>>, returnStacks[e]) /\ <<>> \in Seq(S)
    BY <1>0, EntryAt, EmptyIsSuffixOf, EmptySeq
  <2>4. StacksOf(entry.on, <<>>, returnStacks[e])
    BY <2>2, <2>3 DEF StacksOf
  <2>5. returnStacks' = [returnStacks EXCEPT ![e] = returnStacks[e]] /\ returnStacks[e] \in Seq(S)
    BY <1>0, <2>1, EntryAt
  <2> QED BY <2>1, <2>2, <2>3, <2>4, <2>5, OneEntry
<1>3. ASSUME NEW e \in Entries, evtDelete(e)
      PROVE  StackInv'
  <2>1. /\ evtEntries' = [evtEntries EXCEPT ![e] = Idle]
        /\ returnStacks' = [returnStacks EXCEPT ![e] = <<>>] /\ evtOpen' = evtOpen
    BY <1>3 DEF evtDelete, evtmgrDestroyReturnStack, historyVars
  <2>2. IsEntry(Idle) /\ Idle.on = FALSE
    BY DEF Idle, IsEntry
  <2>3. StacksOf(Idle.on, evtOpen[e], <<>>) /\ <<>> \in Seq(S)
    BY <2>2, EmptySeq DEF StacksOf
  <2>4. evtOpen' = [evtOpen EXCEPT ![e] = evtOpen[e]] /\ evtOpen[e] \in Seq(S)
    BY <1>0, <2>1, EntryAt
  <2> QED BY <2>1, <2>2, <2>3, <2>4, OneEntry
<1>4. CASE evtmgrReInit
  <2>1. /\ evtEntries' = [e \in Entries |-> Idle] /\ returnStacks' = [e \in Entries |-> <<>>]
        /\ evtOpen' = evtOpen
    BY <1>4 DEF evtmgrReInit, historyVars
  <2>2. Idle \in [on : BOOLEAN, pc : {0}, jump : {<<>>}] /\ Idle.on = FALSE
    BY DEF Idle
  <2>3. <<>> \in Seq(S)
    BY EmptySeq
  <2>4. StackTypes({0}, {<<>>}, S)'
    BY <1>0, <2>1, <2>2, <2>3 DEF StackTypes
  <2>5. ReturnsToCaller'
    BY <2>1, <2>2 DEF ReturnsToCaller
  <2> QED BY <2>4, <2>5 DEF StackInv
<1>5. ASSUME NEW e \in Entries, GoesOn(e) \/ Jumps(e)
      PROVE  StackInv'
  <2>1. PICK pc : evtEntries' = [evtEntries EXCEPT ![e].pc = pc]
    BY <1>5 DEF GoesOn, Jumps
  <2>2. returnStacks' = returnStacks /\ evtOpen' = evtOpen
    BY <1>5 DEF GoesOn, Jumps, historyVars
  <2> DEFINE entry == [evtEntries[e] EXCEPT !.pc = pc]
  <2>3. evtEntries' = [evtEntries EXCEPT ![e] = entry]
    BY <2>1
  <2>4. IsEntry(entry) /\ entry.on = evtEntries[e].on
    <3>1. IsEntry(evtEntries[e])
      BY <1>0, EntryAt
    <3> QED BY <3>1, ChangedEntry
  <2> HIDE DEF entry
  <2>5. StacksOf(entry.on, evtOpen[e], returnStacks[e])
    BY <1>r, <2>4, ByEntry
  <2>6. /\ evtOpen' = [evtOpen EXCEPT ![e] = evtOpen[e]] /\ evtOpen[e] \in Seq(S)
        /\ returnStacks' = [returnStacks EXCEPT ![e] = returnStacks[e]]
        /\ returnStacks[e] \in Seq(S)
    BY <1>0, <2>2, EntryAt
  <2> QED BY <2>3, <2>4, <2>5, <2>6, OneEntry
<1>6. ASSUME NEW e \in Entries, evtOpcodeCall(e)
      PROVE  StackInv'
  <2> DEFINE pc == Arg(e)
             next == NextPc(e)
             jump == evt_patch_make_jump_table(evtEntries[e].jump, evtMem, Arg(e))
             entry == [evtEntries[e] EXCEPT !.pc = pc, !.jump = jump]
             S1 == S \cup {next}
  <2>1. evtEntries' = [evtEntries EXCEPT ![e] = entry]
    BY <1>0, <1>6, EntryAt DEF evtOpcodeCall
  <2>2. /\ returnStacks' = [returnStacks EXCEPT ![e] = Append(returnStacks[e], next)]
        /\ evtOpen' = [evtOpen EXCEPT ![e] = Append(evtOpen[e], next)]
    BY <1>6 DEF evtOpcodeCall
  <2>3. evtEntries[e].on = TRUE
    BY <1>6 DEF evtOpcodeCall, Fetches
  <2> HIDE DEF pc, next, jump
  <2>4. IsEntry(entry) /\ entry.on = evtEntries[e].on
    <3>1. IsEntry(evtEntries[e])
      BY <1>0, EntryAt
    <3> QED BY <3>1, ChangedEntry, ZenonT(60)
  <2> HIDE DEF entry
  <2>5. S \subseteq S1 /\ next \in S1
    OBVIOUS
  <2> HIDE DEF S1
  <2>6. returnStacks[e] \in Seq(S1) /\ evtOpen[e] \in Seq(S1)
    BY <1>0, <2>5, EntryAt, SeqMonotonic
  <2>7. IsSuffix(Append(evtOpen[e], next), Append(returnStacks[e], next))
    BY <1>r, <2>3, <2>5, <2>6, PushBoth DEF ReturnsToCaller
  <2>8. /\ Append(evtOpen[e], next) \in Seq(S1)
        /\ Append(returnStacks[e], next) \in Seq(S1)
    BY <2>5, <2>6, AppendProperties
  <2>9. StacksOf(entry.on, Append(evtOpen[e], next), Append(returnStacks[e], next))
    BY <2>3, <2>4, <2>7 DEF StacksOf
  <2> QED BY <2>1, <2>2, <2>4, <2>8, <2>9, OneEntry
<1>7. ASSUME NEW e \in Entries, evtOpcodeReturnFromCall(e)
      PROVE  StackInv'
  <2> DEFINE pc == Last(returnStacks[e])
             open == IF evtOpen[e] = <<>> THEN evtOpen[e] ELSE Front(evtOpen[e])
             entry == [evtEntries[e] EXCEPT !.pc = pc]
  <2>1. evtEntries' = [evtEntries EXCEPT ![e] = entry]
    BY <1>7 DEF evtOpcodeReturnFromCall
  <2>2. /\ returnStacks' = [returnStacks EXCEPT ![e] = Front(returnStacks[e])]
        /\ evtOpen' = [evtOpen EXCEPT ![e] = open]
    BY <1>7 DEF evtOpcodeReturnFromCall
  <2>3. evtEntries[e].on = TRUE
    BY <1>7 DEF evtOpcodeReturnFromCall, Fetches
  <2> HIDE DEF pc
  <2>4. IsEntry(entry) /\ entry.on = evtEntries[e].on
    <3>1. IsEntry(evtEntries[e])
      BY <1>0, EntryAt
    <3> QED BY <3>1, ChangedEntry
  <2> HIDE DEF entry
  <2>5. /\ returnStacks[e] \in Seq(S) /\ evtOpen[e] \in Seq(S)
        /\ IsSuffix(evtOpen[e], returnStacks[e])
    BY <1>0, <1>r, <2>3, EntryAt DEF ReturnsToCaller
  <2>6. Front(returnStacks[e]) \in Seq(S) /\ open \in Seq(S)
    BY <2>5, FrontDrops
  <2>7. IsSuffix(open, Front(returnStacks[e]))
    BY <2>5, <2>6, PopBoth, EmptyIsSuffixOf
  <2>8. StacksOf(entry.on, open, Front(returnStacks[e]))
    BY <2>3, <2>4, <2>7 DEF StacksOf
  <2> QED BY <2>1, <2>2, <2>4, <2>6, <2>8, OneEntry
<1> QED
  BY <1>1, <1>2, <1>3, <1>4, <1>5, <1>6, <1>7
     DEF EvtNext, evtEntry, evtRestart, Terminated, evtmgrCmd, Returns

LEMMA StackInvHolds == EvtSpec => []StackInv
<1>1. EvtInit => StackInv
  <2> SUFFICES ASSUME EvtInit PROVE StackInv
    OBVIOUS
  <2>1. Idle \in [on : BOOLEAN, pc : {0}, jump : {<<>>}] /\ Idle.on = FALSE /\ <<>> \in Seq({})
    BY EmptySeq DEF Idle
  <2>2. StackTypes({0}, {<<>>}, {})
    BY <2>1 DEF StackTypes, EvtInit
  <2>3. ReturnsToCaller
    BY <2>1 DEF EvtInit, ReturnsToCaller
  <2> QED BY <2>2, <2>3 DEF StackInv
<1>2. StackInv /\ [EvtNext]_evtVars => StackInv'
  <2>1. CASE StackInv /\ EvtNext
    BY <2>1, StackStep
  <2>2. CASE StackInv /\ UNCHANGED evtVars
    BY <2>2 DEF evtVars, StackInv, StackTypes, ReturnsToCaller
  <2> QED BY <2>1, <2>2
<1> QED BY <1>1, <1>2, PTL DEF EvtSpec

\* Whatever scripts call each other, are restarted, ended by others or all cleared, and
\* whatever a run that was restarted left on its entry's stack: a return from call goes to
\* the caller, and an entry that runs nothing has no stack.
THEOREM ReturnsToCallerCorrect == EvtSpec => []ReturnsToCaller
<1>1. StackInv => ReturnsToCaller
  BY DEF StackInv
<1> QED BY <1>1, StackInvHolds, PTL
-----------------------------------------------------------------------------
(* Instructions.                                                           *)

Ends == {EvtEnd, ReturnFromCall}
Addresses == Nat \ {0}

\* Where the instruction after the one at a begins.
After(m, a) == a + getInstructionLength(m[a])

LEMMA Opcodes ==
    /\ Nop \notin Ends /\ Call \notin Ends /\ Lbl \notin Ends /\ Goto \notin Ends /\ Act \notin Ends
    /\ EvtEnd \in Ends /\ ReturnFromCall \in Ends
    /\ Nop \notin {Lbl, Goto, Call} /\ ReturnFromCall \notin {Lbl, Goto, Call}
BY DEF Ends, Nop, Call, Lbl, Goto, Act, EvtEnd, ReturnFromCall

\* The words the patches write, as instructions.
LEMMA WrittenWords ==
    /\ getOpcode(0) = Nop /\ getInstructionLength(0) = 1
    /\ Word(Call, 1) \in Nat \ {0} /\ getOpcode(Word(Call, 1)) = Call
    /\ getInstructionLength(Word(Call, 1)) = 2
    /\ Word(ReturnFromCall, 0) \in Nat /\ getOpcode(Word(ReturnFromCall, 0)) = ReturnFromCall
    /\ getInstructionLength(Word(ReturnFromCall, 0)) = 1
BY DEF getOpcode, getInstructionLength, getNumArgs, Word, Nop, Call, ReturnFromCall

LEMMA Lengths ==
    ASSUME NEW w \in Nat
    PROVE  getInstructionLength(w) \in Nat /\ getInstructionLength(w) >= 1
<1>1. w \div 8 \in Nat
  OBVIOUS
<1> QED BY <1>1 DEF getInstructionLength, getNumArgs

\* f looks at the instructions from an address on.
WalksOver(f, m, X, stops, found, step) ==
    /\ f \in [Addresses -> X]
    /\ \A a \in Addresses : f[a] = IF a \in stops THEN found[a] ELSE step[a][f[After(m, a)]]

\* Every instruction takes a word, so that memory ends.
LEMMA InstructionWalk ==
    ASSUME NEW m \in Seq(Nat), NEW X, NEW stops \in SUBSET Addresses,
           NEW found \in [Addresses -> X], NEW step \in [Addresses -> [X -> X]],
           \A a \in Addresses : a > Len(m) => a \in stops
    PROVE  \E f : WalksOver(f, m, X, stops, found, step)
<1> DEFINE next == [a \in Addresses |-> IF a \in stops THEN a ELSE After(m, a)]
           left == [a \in Addresses |-> IF a > Len(m) THEN 0 ELSE Len(m) + 1 - a]
<1>1. Len(m) \in Nat
  BY LenProperties
<1>2. \A a \in Addresses \ stops : /\ a \in 1 .. Len(m) /\ After(m, a) \in Addresses
                                   /\ After(m, a) > a
  <2> SUFFICES ASSUME NEW a \in Addresses \ stops
               PROVE  a \in 1 .. Len(m) /\ After(m, a) \in Addresses /\ After(m, a) > a
    OBVIOUS
  <2>1. a \in 1 .. Len(m)
    BY <1>1 DEF Addresses
  <2>2. m[a] \in Nat
    BY <2>1, ElementOfSeq
  <2>3. getInstructionLength(m[a]) \in Nat /\ getInstructionLength(m[a]) >= 1
    BY <2>2, Lengths
  <2> QED BY <2>1, <2>3 DEF After, Addresses
<1>3. next \in [Addresses -> Addresses]
  BY <1>2
<1>4. left \in [Addresses -> Nat]
  BY <1>1 DEF Addresses
<1>5. \A a \in Addresses \ stops : left[next[a]] < left[a]
  BY <1>1, <1>2 DEF Addresses
<1>6. \A a \in Addresses \ stops : next[a] = After(m, a)
  OBVIOUS
<1> HIDE DEF next, left
<1>7. PICK f : Walks(f, Addresses, X, stops, found, next, step)
  BY <1>3, <1>4, <1>5, FunctionByWalk
<1>8. WalksOver(f, m, X, stops, found, step)
  BY <1>6, <1>7 DEF Walks, WalksOver
<1> QED BY <1>8
-----------------------------------------------------------------------------
(* The recursive functions over a script, by their equations.              *)

LineStep(m, g) ==
    [a \in Nat \ {0} |->
       IF a > Len(m) THEN <<>>
       ELSE <<LineAt(m, a)>> \o (IF getOpcode(m[a]) \in {EvtEnd, ReturnFromCall} THEN <<>>
                                 ELSE g[a + getInstructionLength(m[a])])]

LEMMA LinesOfStep ==
    ASSUME NEW m \in Seq(Nat)
    PROVE  \A a \in Addresses :
             LinesOf(m, a) = IF a > Len(m) THEN <<>>
                             ELSE <<LineAt(m, a)>> \o
                                    (IF getOpcode(m[a]) \in Ends THEN <<>> ELSE LinesOf(m, After(m, a)))
<1> DEFINE L == [a \in Addresses |-> LineAt(m, a)]
           S == {L[a] : a \in Addresses}
           X == Seq(S)
           stops == {a \in Addresses : a > Len(m) \/ getOpcode(m[a]) \in Ends}
           found == [a \in Addresses |-> IF a > Len(m) THEN <<>> ELSE <<L[a]>> \o <<>>]
           step == [a \in Addresses |-> [x \in X |-> <<L[a]>> \o x]]
<1>1. \A a \in Addresses : L[a] \in S /\ L[a] = LineAt(m, a)
  OBVIOUS
<1> HIDE DEF L, S
<1>2. \A a \in Addresses : \A x \in X : <<L[a]>> \o x \in X
  <2> SUFFICES ASSUME NEW a \in Addresses, NEW x \in Seq(S) PROVE <<L[a]>> \o x \in Seq(S)
    OBVIOUS
  <2>1. <<L[a]>> \in Seq(S)
    BY <1>1
  <2> QED BY <2>1, ConcatProperties
<1>3. <<>> \in X
  BY EmptySeq
<1> HIDE DEF X
<1>4. /\ stops \in SUBSET Addresses /\ found \in [Addresses -> X]
      /\ step \in [Addresses -> [X -> X]] /\ \A a \in Addresses : a > Len(m) => a \in stops
  BY <1>2, <1>3
<1>5. \A a \in Addresses :
        /\ a \in stops <=> a > Len(m) \/ getOpcode(m[a]) \in Ends
        /\ found[a] = IF a > Len(m) THEN <<>> ELSE <<L[a]>> \o <<>>
        /\ \A x \in X : step[a][x] = <<L[a]>> \o x
  OBVIOUS
<1> HIDE DEF stops, found, step
<1>6. PICK g : WalksOver(g, m, X, stops, found, step)
  BY <1>4, InstructionWalk
<1>7. \A a \in Addresses \ stops : After(m, a) \in Addresses
  <2> SUFFICES ASSUME NEW a \in Addresses \ stops PROVE After(m, a) \in Addresses
    OBVIOUS
  <2>0. ~(a > Len(m)) /\ Len(m) \in Nat
    BY <1>5, LenProperties
  <2>1. a \in 1 .. Len(m)
    BY <2>0 DEF Addresses
  <2>2. m[a] \in Nat
    BY <2>1, ElementOfSeq
  <2>3. getInstructionLength(m[a]) \in Nat /\ getInstructionLength(m[a]) >= 1
    BY <2>2, Lengths
  <2> QED BY <2>1, <2>3 DEF After, Addresses
<1>8. \A a \in Addresses :
        g[a] = IF a > Len(m) THEN <<>>
               ELSE <<L[a]>> \o (IF getOpcode(m[a]) \in Ends THEN <<>> ELSE g[After(m, a)])
  <2> SUFFICES ASSUME NEW a \in Addresses
               PROVE  g[a] = IF a > Len(m) THEN <<>>
                             ELSE <<L[a]>> \o (IF getOpcode(m[a]) \in Ends THEN <<>> ELSE g[After(m, a)])
    OBVIOUS
  <2>1. CASE a \in stops
    BY <1>5, <1>6, <2>1 DEF WalksOver
  <2>2. CASE a \notin stops
    <3>1. g[After(m, a)] \in X
      BY <1>6, <1>7, <2>2 DEF WalksOver
    <3>2. g[a] = step[a][g[After(m, a)]]
      BY <1>6, <2>2 DEF WalksOver
    <3> QED BY <1>5, <2>2, <3>1, <3>2
  <2> QED BY <2>1, <2>2
<1>9. g = LineStep(m, g)
  <2>1. g = [a \in Addresses |-> g[a]]
    BY <1>6 DEF WalksOver
  <2> QED BY <1>1, <1>8, <2>1 DEF LineStep, Addresses, Ends, After
<1> DEFINE h == CHOOSE f : f = LineStep(m, f)
<1>10. h = LineStep(m, h)
  BY <1>9
<1>11. \A a : LinesOf(m, a) = h[a]
  BY DEF LinesOf, LineStep
<1> HIDE DEF h
<1>12. \A a \in Addresses :
         h[a] = IF a > Len(m) THEN <<>>
                ELSE <<LineAt(m, a)>> \o (IF getOpcode(m[a]) \in Ends THEN <<>> ELSE h[After(m, a)])
  BY <1>10 DEF LineStep, Addresses, Ends, After
<1> QED BY <1>11, <1>12

\* The row of the jump table that an instruction makes.
RowOf(m, a) ==
    IF getOpcode(m[a]) = Lbl THEN <<[id |-> m[a + 1], at |-> a + getInstructionLength(m[a])]>> ELSE <<>>

LabelStep(m, ends, g) ==
    [a \in Nat \ {0} |->
       IF a > Len(m) \/ getOpcode(m[a]) \in ends THEN <<>>
       ELSE LET next == a + getInstructionLength(m[a]) IN
            (IF getOpcode(m[a]) = Lbl THEN <<[id |-> m[a + 1], at |-> next]>> ELSE <<>>) \o g[next]]

LEMMA LabelsFromStep ==
    ASSUME NEW m \in Seq(Nat), NEW ends
    PROVE  \A a \in Addresses :
             LabelsFrom(m, a, ends) = IF a > Len(m) \/ getOpcode(m[a]) \in ends THEN <<>>
                                      ELSE RowOf(m, a) \o LabelsFrom(m, After(m, a), ends)
<1> DEFINE R == [a \in Addresses |-> [id |-> m[a + 1], at |-> a + getInstructionLength(m[a])]]
           S == {R[a] : a \in Addresses}
           X == Seq(S)
           rows == [a \in Addresses |-> IF getOpcode(m[a]) = Lbl THEN <<R[a]>> ELSE <<>>]
           stops == {a \in Addresses : a > Len(m) \/ getOpcode(m[a]) \in ends}
           found == [a \in Addresses |-> <<>>]
           step == [a \in Addresses |-> [x \in X |-> rows[a] \o x]]
<1>1. \A a \in Addresses : R[a] \in S
  OBVIOUS
<1>2. \A a \in Addresses : rows[a] = RowOf(m, a)
  BY DEF RowOf
<1> HIDE DEF R, S
<1>3. \A a \in Addresses : rows[a] \in Seq(S)
  <2>1. \A a \in Addresses : <<R[a]>> \in Seq(S)
    BY <1>1
  <2> QED BY <2>1, EmptySeq
<1> HIDE DEF rows
<1>4. \A a \in Addresses : \A x \in X : rows[a] \o x \in X
  BY <1>3, ConcatProperties
<1>5. <<>> \in X
  BY EmptySeq
<1> HIDE DEF X
<1>6. /\ stops \in SUBSET Addresses /\ found \in [Addresses -> X]
      /\ step \in [Addresses -> [X -> X]] /\ \A a \in Addresses : a > Len(m) => a \in stops
  BY <1>4, <1>5
<1>7. \A a \in Addresses :
        /\ a \in stops <=> a > Len(m) \/ getOpcode(m[a]) \in ends
        /\ found[a] = <<>>
        /\ \A x \in X : step[a][x] = rows[a] \o x
  OBVIOUS
<1> HIDE DEF stops, found, step
<1>8. PICK g : WalksOver(g, m, X, stops, found, step)
  BY <1>6, InstructionWalk
<1>9. \A a \in Addresses \ stops : After(m, a) \in Addresses
  <2> SUFFICES ASSUME NEW a \in Addresses \ stops PROVE After(m, a) \in Addresses
    OBVIOUS
  <2>1. ~(a > Len(m)) /\ Len(m) \in Nat
    BY <1>7, LenProperties
  <2>2. a \in 1 .. Len(m)
    BY <2>1 DEF Addresses
  <2>3. m[a] \in Nat
    BY <2>2, ElementOfSeq
  <2>4. getInstructionLength(m[a]) \in Nat /\ getInstructionLength(m[a]) >= 1
    BY <2>3, Lengths
  <2> QED BY <2>2, <2>4 DEF After, Addresses
<1>10. \A a \in Addresses :
         g[a] = IF a > Len(m) \/ getOpcode(m[a]) \in ends THEN <<>>
                ELSE RowOf(m, a) \o g[After(m, a)]
  <2> SUFFICES ASSUME NEW a \in Addresses
               PROVE  g[a] = IF a > Len(m) \/ getOpcode(m[a]) \in ends THEN <<>>
                             ELSE RowOf(m, a) \o g[After(m, a)]
    OBVIOUS
  <2>1. CASE a \in stops
    BY <1>7, <1>8, <2>1 DEF WalksOver
  <2>2. CASE a \notin stops
    <3>1. g[After(m, a)] \in X
      BY <1>8, <1>9, <2>2 DEF WalksOver
    <3>2. g[a] = step[a][g[After(m, a)]]
      BY <1>8, <2>2 DEF WalksOver
    <3> QED BY <1>2, <1>7, <2>2, <3>1, <3>2
  <2> QED BY <2>1, <2>2
<1>11. g = LabelStep(m, ends, g)
  <2>1. g = [a \in Addresses |-> g[a]]
    BY <1>8 DEF WalksOver
  <2> QED BY <1>10, <2>1 DEF LabelStep, RowOf, Addresses, After
<1> DEFINE h == CHOOSE f : f = LabelStep(m, ends, f)
<1>12. h = LabelStep(m, ends, h)
  BY <1>11
<1>13. \A a : LabelsFrom(m, a, ends) = h[a]
  BY DEF LabelsFrom, LabelStep
<1> HIDE DEF h
<1>14. \A a \in Addresses :
         h[a] = IF a > Len(m) \/ getOpcode(m[a]) \in ends THEN <<>>
                ELSE RowOf(m, a) \o h[After(m, a)]
  BY <1>12 DEF LabelStep, RowOf, Addresses, After
<1> QED BY <1>13, <1>14
-----------------------------------------------------------------------------
(* Code: words with the addresses of their instructions.                   *)

CodeOK(m, H) ==
    /\ m \in Seq(Nat) /\ H \subseteq 1 .. Len(m)
    /\ \A a \in H : /\ After(m, a) <= Len(m) + 1
                    /\ getOpcode(m[a]) \notin Ends => After(m, a) \in H
                    /\ getOpcode(m[a]) \in {Lbl, Goto, Call} => getInstructionLength(m[a]) >= 2
                    /\ getOpcode(m[a]) = Call => m[a + 1] \in H \ ParentWords
    /\ \A a, b \in H : a < b => After(m, a) <= b

\* What the patched script, the scripts it calls and the single instructions are in it.
ScriptOK(m, H) ==
    /\ Parent \in H /\ ParentEnd \in H /\ Parent <= ParentEnd
    /\ getOpcode(m[ParentEnd]) = EvtEnd
    /\ \A a \in H : a \in ParentWords /\ a # ParentEnd => getOpcode(m[a]) \notin Ends
    /\ Children \subseteq H \ ParentWords
    /\ Replacements \subseteq H \ ParentWords
    /\ \A r \in Replacements : m[r] # 0 /\ getOpcode(m[r]) \notin Ends

LEMMA InstructionAt ==
    ASSUME NEW m, NEW H, CodeOK(m, H), NEW a \in H
    PROVE  /\ Len(m) \in Nat /\ a \in 1 .. Len(m) /\ m[a] \in Nat
           /\ getInstructionLength(m[a]) \in Nat /\ getInstructionLength(m[a]) >= 1
           /\ After(m, a) \in Nat /\ After(m, a) > a /\ After(m, a) <= Len(m) + 1
<1>1. Len(m) \in Nat /\ a \in 1 .. Len(m) /\ m \in Seq(Nat)
  BY LenProperties DEF CodeOK
<1>2. m[a] \in Nat
  BY <1>1, ElementOfSeq
<1>3. getInstructionLength(m[a]) \in Nat /\ getInstructionLength(m[a]) >= 1
  BY <1>2, Lengths
<1>4. After(m, a) <= Len(m) + 1
  BY DEF CodeOK
<1>5. After(m, a) \in Nat /\ After(m, a) > a
  BY <1>1, <1>3 DEF After
<1> QED BY <1>1, <1>2, <1>3, <1>4, <1>5

Rows(H) == [id : Nat, at : H]

\* The labels of a script whose instructions follow each other in C and make rows of R.
LEMMA LabelsInto ==
    ASSUME NEW m, NEW H, CodeOK(m, H), NEW ends, NEW C \in SUBSET H, NEW R,
           \A a \in C : /\ RowOf(m, a) \in Seq(R)
                        /\ getOpcode(m[a]) \notin ends => After(m, a) \in C
    PROVE  \A a \in C : LabelsFrom(m, a, ends) \in Seq(R)
<1> DEFINE S == {n \in Nat : \A a \in C : Len(m) - a < n => LabelsFrom(m, a, ends) \in Seq(R)}
<1>1. Len(m) \in Nat /\ m \in Seq(Nat) /\ \A a \in C : a \in 1 .. Len(m)
  BY LenProperties DEF CodeOK
<1>2. 0 \in S
  BY <1>1
<1>3. ASSUME NEW n \in S PROVE n + 1 \in S
  <2> SUFFICES ASSUME NEW a \in C, Len(m) - a < n + 1
               PROVE  LabelsFrom(m, a, ends) \in Seq(R)
    BY <1>3
  <2>1. a \in Addresses /\ ~(a > Len(m)) /\ n \in Nat
    BY <1>1, <1>3 DEF Addresses
  <2>2. LabelsFrom(m, a, ends) = IF a > Len(m) \/ getOpcode(m[a]) \in ends THEN <<>>
                                 ELSE RowOf(m, a) \o LabelsFrom(m, After(m, a), ends)
    BY <1>1, <2>1, LabelsFromStep
  <2>3. CASE getOpcode(m[a]) \in ends
    BY <2>2, <2>3, EmptySeq
  <2>4. CASE getOpcode(m[a]) \notin ends
    <3>1. After(m, a) \in C /\ After(m, a) > a /\ After(m, a) \in Nat
      BY <2>4, InstructionAt
    <3>2. Len(m) - After(m, a) < n
      BY <1>1, <2>1, <3>1
    <3>3. LabelsFrom(m, After(m, a), ends) \in Seq(R)
      BY <1>3, <3>1, <3>2
    <3>4. RowOf(m, a) \o LabelsFrom(m, After(m, a), ends) \in Seq(R)
      BY <3>3, ConcatProperties
    <3> QED BY <2>1, <2>2, <2>4, <3>4
  <2> QED BY <2>3, <2>4
<1> HIDE DEF S
<1>4. S = Nat
  <2>1. S \in SUBSET Nat
    BY DEF S
  <2> QED BY <1>2, <1>3, <2>1, SetInduction
<1>5. ASSUME NEW a \in C PROVE LabelsFrom(m, a, ends) \in Seq(R)
  <2>1. Len(m) \in S /\ Len(m) - a < Len(m)
    BY <1>1, <1>4
  <2> QED BY <2>1 DEF S
<1> QED BY <1>5

\* They are where instructions begin.
LEMMA LabelsOfChain ==
    ASSUME NEW m, NEW H, CodeOK(m, H), NEW ends, NEW C \in SUBSET H,
           \A a \in C : getOpcode(m[a]) \notin ends => After(m, a) \in C
    PROVE  \A a \in C : LabelsFrom(m, a, ends) \in Seq(Rows(H))
<1>1. ASSUME NEW a \in C PROVE RowOf(m, a) \in Seq(Rows(H))
  <2>1. CASE getOpcode(m[a]) = Lbl
    <3>1. getInstructionLength(m[a]) >= 2 /\ After(m, a) \in H
      BY <2>1, Opcodes DEF CodeOK
    <3>2. a + 1 \in 1 .. Len(m)
      <4>1. a + getInstructionLength(m[a]) <= Len(m) + 1
        BY InstructionAt DEF After
      <4>2. getInstructionLength(m[a]) \in Nat /\ a \in 1 .. Len(m) /\ Len(m) \in Nat
        BY InstructionAt
      <4> QED BY <3>1, <4>1, <4>2
    <3>3. m[a + 1] \in Nat
      BY <3>2, ElementOfSeq DEF CodeOK
    <3>4. [id |-> m[a + 1], at |-> a + getInstructionLength(m[a])] \in Rows(H)
      BY <3>1, <3>3 DEF Rows, After
    <3> QED BY <2>1, <3>4 DEF RowOf
  <2>2. CASE getOpcode(m[a]) # Lbl
    BY <2>2, EmptySeq DEF RowOf
  <2> QED BY <2>1, <2>2
<1> QED BY <1>1, LabelsInto

\* All the labels a run of the patched script, or a call, can find.
LEMMA ScriptLabels ==
    ASSUME NEW m, NEW H, CodeOK(m, H), ScriptOK(m, H)
    PROVE  /\ LabelsFrom(m, Parent, {EvtEnd}) \in Seq(Rows(H))
           /\ \A a \in H : LabelsFrom(m, a, {EvtEnd, ReturnFromCall}) \in Seq(Rows(H))
<1>1. \A a \in H : LabelsFrom(m, a, {EvtEnd, ReturnFromCall}) \in Seq(Rows(H))
  <2>1. \A a \in H : getOpcode(m[a]) \notin {EvtEnd, ReturnFromCall} => After(m, a) \in H
    BY DEF CodeOK, Ends
  <2> QED BY <2>1, LabelsOfChain
<1>2. LabelsFrom(m, Parent, {EvtEnd}) \in Seq(Rows(H))
  <2> DEFINE C == H \cap ParentWords
  <2>1. ASSUME NEW a \in C, getOpcode(m[a]) \notin {EvtEnd} PROVE After(m, a) \in C
    <3>1. a # ParentEnd
      BY <2>1 DEF ScriptOK
    <3>2. getOpcode(m[a]) \notin Ends
      BY <3>1 DEF ScriptOK
    <3>3. After(m, a) \in H
      BY <3>2 DEF CodeOK
    <3>4. ParentEnd \in H /\ Parent \in H /\ a \in H /\ ParentEnd \in Nat /\ Parent \in Nat /\ a \in Nat
      BY InstructionAt DEF ScriptOK
    <3>5. a < ParentEnd /\ Parent <= a
      BY <3>1, <3>4 DEF ParentWords
    <3>6. After(m, a) <= ParentEnd
      BY <3>4, <3>5 DEF CodeOK
    <3>7. After(m, a) > a /\ After(m, a) \in Nat
      BY InstructionAt
    <3> QED BY <3>3, <3>4, <3>5, <3>6, <3>7 DEF ParentWords
  <2>2. Parent \in C /\ C \in SUBSET H
    <3>1. ParentEnd \in Nat /\ Parent \in Nat
      BY InstructionAt DEF ScriptOK
    <3> QED BY <3>1 DEF ParentWords, ScriptOK
  <2> HIDE DEF C
  <2>3. \A a \in C : LabelsFrom(m, a, {EvtEnd}) \in Seq(Rows(H))
    BY <2>1, <2>2, LabelsOfChain
  <2> QED BY <2>2, <2>3
<1> QED BY <1>1, <1>2
-----------------------------------------------------------------------------
(* The lines of a script and their addresses.                              *)

LinesOK(m, H, lines, ads, start) ==
    /\ \E S : lines \in Seq(S)
    /\ Len(lines) >= 1
    /\ ads \in [1 .. Len(lines) -> H \cap ParentWords]
    /\ ads[1] = start /\ ads[Len(lines)] = ParentEnd
    /\ lines[Len(lines)].flow = EvtEnd
    /\ \A i, j \in 1 .. Len(lines) : i < j => ads[i] < ads[j]
    /\ \A i \in 1 .. Len(lines) : /\ m[ads[i]] # 0
                                  /\ lines[i].words = getInstructionLength(m[ads[i]])
    /\ \A i \in 1 .. Len(lines) - 1 :
         /\ \A b \in After(m, ads[i]) .. ads[i + 1] - 1 : m[b] = 0
         /\ lines[i].words < 2 => ads[i + 1] = ads[i] + 1

\* A line after another one is where the next word is not padding.
LEMMA PaddingSkipped ==
    ASSUME NEW m, NEW at \in Nat, NEW to \in Nat, at <= to, to <= Len(m), Len(m) \in Nat,
           m[to] # 0, \A b \in at .. to - 1 : m[b] = 0
    PROVE  SkipPadding(m, at) = to
<1>1. to \in at .. Len(m)
  OBVIOUS
<1>2. ASSUME NEW a \in at .. Len(m), m[a] # 0, \A b \in at .. a - 1 : m[b] = 0
      PROVE  a = to
  <2>1. ~(a < to)
    <3> SUFFICES ASSUME a < to PROVE FALSE
      OBVIOUS
    <3>1. a \in at .. to - 1
      OBVIOUS
    <3> QED BY <1>2, <3>1
  <2>2. ~(to < a)
    <3> SUFFICES ASSUME to < a PROVE FALSE
      OBVIOUS
    <3>1. to \in at .. a - 1
      OBVIOUS
    <3> QED BY <1>2, <3>1
  <2> QED BY <2>1, <2>2
<1> QED BY <1>1, <1>2 DEF SkipPadding

\* The loop of getLineOffset, when h is what it found so far.
OffsetStep(m, script, line, h) ==
    [i \in 1 .. line |->
       IF i = 1 THEN script
       ELSE LET a == h[i - 1] IN SkipPadding(m, a + getInstructionLength(m[a]))]

\* getLineOffset finds the lines at their addresses.
LEMMA OffsetOfLine ==
    ASSUME NEW m, NEW H, CodeOK(m, H), NEW lines, NEW ads, NEW start,
           LinesOK(m, H, lines, ads, start),
           NEW line \in 1 .. Len(lines)
    PROVE  getLineOffset(m, start, line) = ads[line]
<1>1. Len(lines) \in Nat /\ line \in Nat
  <2>1. Len(lines) \in Nat
    BY LenProperties DEF LinesOK
  <2> QED BY <2>1
<1>2. \A i \in 1 .. Len(lines) : ads[i] \in H
  BY DEF LinesOK
<1>3. \A i \in 1 .. Len(lines) - 1 :
        ads[i + 1] = SkipPadding(m, ads[i] + getInstructionLength(m[ads[i]]))
  <2> SUFFICES ASSUME NEW i \in 1 .. Len(lines) - 1
               PROVE  ads[i + 1] = SkipPadding(m, After(m, ads[i]))
    BY DEF After
  <2>0. i \in 1 .. Len(lines) /\ i + 1 \in 1 .. Len(lines) /\ i < i + 1
    BY <1>1
  <2>1. ads[i] \in H /\ ads[i + 1] \in H /\ ads[i] < ads[i + 1]
    BY <1>2, <2>0 DEF LinesOK
  <2>2. After(m, ads[i]) <= ads[i + 1] /\ After(m, ads[i]) \in Nat
    BY <2>1, InstructionAt DEF CodeOK
  <2>3. ads[i + 1] \in 1 .. Len(m) /\ Len(m) \in Nat
    BY <2>1, InstructionAt
  <2>4. m[ads[i + 1]] # 0 /\ \A b \in After(m, ads[i]) .. ads[i + 1] - 1 : m[b] = 0
    BY <2>0 DEF LinesOK
  <2> QED BY <2>2, <2>3, <2>4, PaddingSkipped
<1> DEFINE h == CHOOSE f : f = OffsetStep(m, start, line, f)
           g == [i \in 1 .. line |-> ads[i]]
<1>4. g = OffsetStep(m, start, line, g)
  <2>1. \A i \in 1 .. line :
          g[i] = IF i = 1 THEN start
                 ELSE SkipPadding(m, g[i - 1] + getInstructionLength(m[g[i - 1]]))
    <3> SUFFICES ASSUME NEW i \in 1 .. line
                 PROVE  ads[i] = IF i = 1 THEN start
                        ELSE SkipPadding(m, g[i - 1] + getInstructionLength(m[g[i - 1]]))
      OBVIOUS
    <3>1. CASE i = 1
      BY <3>1 DEF LinesOK
    <3>2. CASE i # 1
      <4>1. i - 1 \in 1 .. Len(lines) - 1 /\ (i - 1) + 1 = i /\ i - 1 \in 1 .. line
        BY <1>1, <3>2
      <4>2. g[i - 1] = ads[i - 1]
        BY <4>1
      <4> HIDE DEF g
      <4> QED BY <1>3, <3>2, <4>1, <4>2
    <3> QED BY <3>1, <3>2
  <2>2. g = [i \in 1 .. line |-> g[i]]
    OBVIOUS
  <2> HIDE DEF g
  <2> QED BY <2>1, <2>2 DEF OffsetStep
<1>5. h = OffsetStep(m, start, line, h)
  <2> HIDE DEF g
  <2> QED BY <1>4
<1>6. getLineOffset(m, start, line) = h[line]
  BY DEF getLineOffset, OffsetStep
<1> HIDE DEF h, g
<1>7. \A i \in 1 .. line :
        h[i] = IF i = 1 THEN start
               ELSE SkipPadding(m, h[i - 1] + getInstructionLength(m[h[i - 1]]))
  BY <1>5 DEF OffsetStep
<1> DEFINE S == {n \in Nat : n + 1 <= line => h[n + 1] = ads[n + 1]}
<1>8. 0 \in S
  <2>1. 1 \in 1 .. line
    BY <1>1
  <2>2. h[1] = ads[1]
    BY <1>7, <2>1 DEF LinesOK
  <2> QED BY <2>2
<1>9. ASSUME NEW n \in S PROVE n + 1 \in S
  <2> SUFFICES ASSUME (n + 1) + 1 <= line PROVE h[(n + 1) + 1] = ads[(n + 1) + 1]
    BY <1>9
  <2>1. n \in Nat
    BY <1>9
  <2>2. /\ (n + 1) + 1 \in 1 .. line /\ ((n + 1) + 1) - 1 = n + 1 /\ (n + 1) + 1 # 1
        /\ n + 1 \in 1 .. Len(lines) - 1 /\ n + 1 <= line
    BY <1>1, <2>1
  <2>3. h[n + 1] = ads[n + 1]
    BY <1>9, <2>2
  <2>4. h[(n + 1) + 1] = SkipPadding(m, h[n + 1] + getInstructionLength(m[h[n + 1]]))
    BY <1>7, <2>2
  <2>5. ads[(n + 1) + 1] = SkipPadding(m, ads[n + 1] + getInstructionLength(m[ads[n + 1]]))
    BY <1>3, <2>2
  <2> QED BY <2>3, <2>4, <2>5
<1> HIDE DEF S
<1>10. S = Nat
  <2>1. S \in SUBSET Nat
    BY DEF S
  <2> QED BY <1>8, <1>9, <2>1, SetInduction
<1>11. line - 1 \in S /\ (line - 1) + 1 = line
  BY <1>1, <1>10
<1>12. h[line] = ads[line]
  BY <1>1, <1>11 DEF S
<1> QED BY <1>6, <1>12

HasLines(m, H, lines, start) == \E ads : LinesOK(m, H, lines, ads, start)

\* The memory is code with instructions at H, the patched script's lines at these addresses.
LaidOut(m, H, lines, ads) == CodeOK(m, H) /\ ScriptOK(m, H) /\ LinesOK(m, H, lines, ads, Parent)

\* u has one line for lines i to k.
Spliced(u, lines, i, k, line) ==
    /\ Len(u) = Len(lines) - (k - i)
    /\ \A j \in 1 .. Len(lines) - (k - i) :
         u[j] = IF j < i THEN lines[j] ELSE IF j = i THEN line ELSE lines[j + (k - i)]

LEMMA SpliceAt ==
    ASSUME NEW S, NEW lines \in Seq(S), NEW line,
           NEW i \in 1 .. Len(lines), NEW k \in i .. Len(lines)
    PROVE  /\ Splice(lines, i, k, line) \in Seq(S \cup {line})
           /\ Spliced(Splice(lines, i, k, line), lines, i, k, line)
<1> DEFINE T == S \cup {line}
           n == Len(lines)
           u == SubSeq(lines, 1, i - 1)
           v == SubSeq(lines, k + 1, n)
<1>1. n \in Nat /\ \A j \in 1 .. n : lines[j] \in T
  BY LenProperties, ElementOfSeq
<1>2. line \in T
  OBVIOUS
<1> HIDE DEF T, n
<1>3. i \in Nat /\ k \in Nat /\ 1 <= i /\ i <= k /\ k <= n
  BY <1>1 DEF n
<1>4. u \in Seq(T) /\ Len(u) = i - 1 /\ \A j \in 1 .. i - 1 : u[j] = lines[j]
  <2>1. \A j \in 1 .. i - 1 : lines[j] \in T
    BY <1>1, <1>3
  <2>2. /\ u \in Seq(T) /\ Len(u) = (IF 1 <= i - 1 THEN i - 1 - 1 + 1 ELSE 0)
        /\ \A j \in 1 .. i - 1 - 1 + 1 : u[j] = lines[1 + j - 1]
    BY <1>3, <2>1, SubSeqProperties
  <2> HIDE DEF u
  <2> QED BY <1>3, <2>2
<1>5. v \in Seq(T) /\ Len(v) = n - k /\ \A j \in 1 .. n - k : v[j] = lines[k + j]
  <2>1. \A j \in k + 1 .. n : lines[j] \in T
    BY <1>1, <1>3
  <2>2. /\ v \in Seq(T) /\ Len(v) = (IF k + 1 <= n THEN n - (k + 1) + 1 ELSE 0)
        /\ \A j \in 1 .. n - (k + 1) + 1 : v[j] = lines[(k + 1) + j - 1]
    BY <1>1, <1>3, <2>1, SubSeqProperties
  <2> HIDE DEF v
  <2> QED BY <1>1, <1>3, <2>2
<1> DEFINE w == u \o <<line>>
<1>6. Splice(lines, i, k, line) = w \o v
  BY DEF Splice, n
<1> HIDE DEF u, v
<1>7. w \in Seq(T) /\ Len(w) = i /\ \A j \in 1 .. i : w[j] = IF j < i THEN u[j] ELSE line
  <2>1. <<line>> \in Seq(T) /\ Len(<<line>>) = 1 /\ <<line>>[1] = line
    BY <1>2
  <2>2. /\ w \in Seq(T) /\ Len(w) = Len(u) + Len(<<line>>)
        /\ \A j \in 1 .. Len(u) + Len(<<line>>) :
             w[j] = IF j <= Len(u) THEN u[j] ELSE <<line>>[j - Len(u)]
    BY <1>4, <2>1, ConcatProperties
  <2> HIDE DEF w
  <2>3. \A j \in 1 .. i : j < i => w[j] = u[j]
    BY <1>3, <1>4, <2>1, <2>2
  <2>4. w[i] = line
    BY <1>3, <1>4, <2>1, <2>2
  <2> QED BY <1>3, <1>4, <2>1, <2>2, <2>3, <2>4
<1> HIDE DEF w
<1>8. /\ w \o v \in Seq(T) /\ Len(w \o v) = Len(w) + Len(v)
      /\ \A j \in 1 .. Len(w) + Len(v) : (w \o v)[j] = IF j <= Len(w) THEN w[j] ELSE v[j - Len(w)]
  BY <1>5, <1>7, ConcatProperties
<1>9. ASSUME NEW j \in 1 .. n - (k - i)
      PROVE  (w \o v)[j] = IF j < i THEN lines[j] ELSE IF j = i THEN line ELSE lines[j + (k - i)]
  <2>0. j \in 1 .. Len(w) + Len(v)
    BY <1>1, <1>3, <1>5, <1>7
  <2>1. CASE j <= i
    <3>1. (w \o v)[j] = w[j]
      BY <1>7, <1>8, <2>0, <2>1
    <3>2. w[j] = IF j < i THEN u[j] ELSE line
      BY <1>3, <1>7, <2>1
    <3> QED BY <1>3, <1>4, <2>1, <3>1, <3>2
  <2>2. CASE ~(j <= i)
    <3>1. (w \o v)[j] = v[j - i]
      BY <1>7, <1>8, <2>0, <2>2
    <3>2. j - i \in 1 .. n - k /\ k + (j - i) = j + (k - i)
      BY <1>1, <1>3, <2>2
    <3>3. v[j - i] = lines[j + (k - i)]
      BY <1>5, <3>2
    <3> QED BY <1>3, <2>2, <3>1, <3>3
  <2> QED BY <2>1, <2>2
<1>10. Len(w \o v) = n - (k - i)
  BY <1>1, <1>3, <1>5, <1>7, <1>8
<1> QED BY <1>6, <1>8, <1>9, <1>10 DEF T, n, Spliced

\* The words from the line at address a up to end, and from there to the next line, are the
\* line's instruction and padding.
EndsAt(m, a, end, next) ==
    After(m, a) <= end /\ end <= next /\ \A b \in end .. next - 1 : m[b] = 0

\* u is m but for one instruction and padding from src up to end.
InstructionIn(u, m, src, end) ==
    /\ \A x \in (1 .. Len(m)) \ (src .. end - 1) : u[x] = m[x]
    /\ u[src] # 0 /\ getInstructionLength(u[src]) \in Nat /\ After(u, src) <= end
    /\ \A b \in After(u, src) .. end - 1 : u[b] = 0

\* The addresses of H outside the words from src up to end, and src, are in H1.
AddressesKept(H1, H, src, end) ==
    src \in H1 /\ \A a \in H : a \notin src .. end - 1 => a \in H1

\* The addresses of the lines when one takes the place of lines i to k, of n.
Shifted(ads, i, k, n) == [j \in 1 .. n - (k - i) |-> IF j <= i THEN ads[j] ELSE ads[j + (k - i)]]

\* Lines i to k give way to one line, and the words from the first of them up to end to
\* one instruction and padding.
LEMMA BlockReplaced ==
    ASSUME NEW m, NEW H, CodeOK(m, H), NEW lines, NEW ads, LinesOK(m, H, lines, ads, Parent),
           NEW i \in 1 .. Len(lines) - 1, NEW k \in i .. Len(lines) - 1,
           NEW src, src = ads[i], NEW end \in Nat, EndsAt(m, ads[k], end, ads[k + 1]),
           NEW m1, InstructionIn(m1, m, src, end),
           NEW line, line.words = getInstructionLength(m1[src]),
           line.words < 2 => ads[k + 1] = src + 1,
           NEW H1, AddressesKept(H1, H, src, end)
    PROVE  LinesOK(m1, H1, Splice(lines, i, k, line), Shifted(ads, i, k, Len(lines)), Parent)
<1> DEFINE n == Len(lines)
           d == k - i
           new == Splice(lines, i, k, line)
           ads1 == [j \in 1 .. n - d |-> IF j <= i THEN ads[j] ELSE ads[j + d]]
<1>a. /\ After(m, ads[k]) <= end /\ end <= ads[k + 1] /\ \A b \in end .. ads[k + 1] - 1 : m[b] = 0
  BY DEF EndsAt
<1>b. /\ \A x \in (1 .. Len(m)) \ (src .. end - 1) : m1[x] = m[x]
      /\ m1[src] # 0 /\ getInstructionLength(m1[src]) \in Nat /\ After(m1, src) <= end
      /\ \A b \in After(m1, src) .. end - 1 : m1[b] = 0
  BY DEF InstructionIn
<1>c. src \in H1 /\ \A a \in H : a \notin src .. end - 1 => a \in H1
  BY DEF AddressesKept
<1>0. PICK S : lines \in Seq(S)
  BY DEF LinesOK
<1>1. n \in Nat
  BY <1>0, LenProperties
<1>2. /\ i \in 1 .. n /\ k \in 1 .. n /\ k + 1 \in 1 .. n /\ d \in Nat /\ i + d = k
      /\ k \in i .. n /\ i \in Nat /\ i >= 1 /\ k < n
  BY <1>1
<1>3. /\ new \in Seq(S \cup {line}) /\ Len(new) = n - d
      /\ \A j \in 1 .. n - d : new[j] = IF j < i THEN lines[j]
                                        ELSE IF j = i THEN line ELSE lines[j + d]
  <2>1. i \in 1 .. Len(lines) /\ k \in i .. Len(lines)
    BY <1>2
  <2>2. /\ Splice(lines, i, k, line) \in Seq(S \cup {line})
        /\ Spliced(Splice(lines, i, k, line), lines, i, k, line)
    BY <1>0, <2>1, SpliceAt
  <2> QED BY <2>2 DEF Spliced
<1> HIDE DEF n, new
<1>4. /\ \A j \in 1 .. n : ads[j] \in H /\ ads[j] \in ParentWords
      /\ ads[1] = Parent /\ ads[n] = ParentEnd /\ lines[n].flow = EvtEnd
      /\ \A j, l \in 1 .. n : j < l => ads[j] < ads[l]
      /\ \A j \in 1 .. n : m[ads[j]] # 0 /\ lines[j].words = getInstructionLength(m[ads[j]])
      /\ \A j \in 1 .. n - 1 :
           /\ \A b \in After(m, ads[j]) .. ads[j + 1] - 1 : m[b] = 0
           /\ lines[j].words < 2 => ads[j + 1] = ads[j] + 1
  BY DEF LinesOK, n
<1>5. \A j \in 1 .. n : ads[j] \in 1 .. Len(m) /\ ads[j] \in Nat
  BY <1>4, InstructionAt
<1>6. Len(m) \in Nat /\ src \in Nat /\ src >= 1
  BY <1>2, <1>5, LenProperties DEF CodeOK
<1>7. ASSUME NEW j \in 1 .. n, j < i
      PROVE  ads[j] < src /\ ads[j] < end /\ m1[ads[j]] = m[ads[j]] /\ ads[j] \in H1
  <2>1. ads[j] < src
    BY <1>2, <1>4, <1>7
  <2>2. ads[j] \notin src .. end - 1
    BY <1>5, <1>6, <2>1
  <2>3. src <= end
    <3>1. ads[k] \in Nat /\ ads[k] < After(m, ads[k]) /\ After(m, ads[k]) \in Nat
      BY <1>2, <1>4, InstructionAt
    <3>2. src <= ads[k]
      <4>1. CASE i = k
        BY <1>5, <1>2, <4>1
      <4>2. CASE i # k
        <5>1. i < k
          BY <1>2, <4>2
        <5>2. ads[i] < ads[k]
          BY <1>2, <1>4, <5>1
        <5> QED BY <1>2, <1>5, <5>2
      <4> QED BY <4>1, <4>2
    <3> QED BY <1>6, <1>a, <3>1, <3>2
  <2> QED BY <1>4, <1>5, <1>6, <1>b, <1>c, <2>1, <2>2, <2>3
<1>8. ASSUME NEW j \in 1 .. n, k < j
      PROVE  ads[j] >= end /\ ads[j] > src /\ m1[ads[j]] = m[ads[j]] /\ ads[j] \in H1
  <2>1. ads[k + 1] <= ads[j]
    <3>1. CASE j = k + 1
      BY <1>2, <1>5, <3>1
    <3>2. CASE j # k + 1
      <4>1. k + 1 < j
        BY <1>2, <1>8, <3>2
      <4>2. ads[k + 1] < ads[j]
        BY <1>2, <1>4, <4>1
      <4> QED BY <1>2, <1>5, <4>2
    <3> QED BY <3>1, <3>2
  <2>2. ads[j] >= end
    BY <1>2, <1>5, <1>a, <2>1
  <2>3. ads[j] \notin src .. end - 1
    BY <1>5, <1>6, <2>2
  <2>4. i < j
    BY <1>2, <1>8
  <2>5. ads[j] > src
    BY <1>2, <1>4, <1>5, <2>4
  <2> QED BY <1>4, <1>5, <1>b, <1>c, <2>2, <2>3, <2>5
<1>9. ASSUME NEW j \in 1 .. n - d
      PROVE  /\ j < i => j \in 1 .. n /\ ads1[j] = ads[j]
             /\ j = i => ads1[j] = src
             /\ j > i => j + d \in 1 .. n /\ k < j + d /\ ads1[j] = ads[j + d]
  BY <1>1, <1>2
<1>10. \A j \in 1 .. n - d : ads1[j] \in H1 \cap ParentWords
  BY <1>2, <1>4, <1>7, <1>8, <1>9, <1>c
<1>11. /\ 1 \in 1 .. n - d /\ n - d \in 1 .. n - d /\ n - d > i /\ (n - d) + d = n
       /\ n - d \in Nat /\ n - d >= 1 /\ (1 = i \/ 1 < i)
  BY <1>1, <1>2
<1>12. ads1[1] = Parent /\ ads1[n - d] = ParentEnd /\ new[n - d].flow = EvtEnd
  <2>1. ads1[1] = Parent
    BY <1>4, <1>9, <1>11
  <2>2. ads1[n - d] = ParentEnd
    BY <1>4, <1>9, <1>11
  <2>3. new[n - d] = lines[n]
    <3>1. new[n - d] = lines[(n - d) + d]
      <4> HIDE DEF d
      <4>1. ~(n - d < i) /\ n - d # i
        BY <1>2, <1>11
      <4> QED BY <1>3, <1>11, <4>1
    <3> QED BY <1>11, <3>1
  <2> QED BY <1>4, <2>1, <2>2, <2>3
<1>13. ads1 = [j \in 1 .. n - d |-> ads1[j]]
  OBVIOUS
<1> HIDE DEF ads1
<1>14. ASSUME NEW j \in 1 .. n - d, NEW l \in 1 .. n - d, j < l
       PROVE  ads1[j] < ads1[l]
  <2>1. CASE j < i /\ l < i
    BY <1>4, <1>9, <1>14, <2>1
  <2>2. CASE j < i /\ l = i
    BY <1>7, <1>9, <2>2
  <2>3. CASE j < i /\ l > i
    <3>1. j < l + d
      BY <1>2, <1>14
    <3> QED BY <1>4, <1>9, <2>3, <3>1
  <2>4. CASE j = i /\ l > i
    BY <1>8, <1>9, <2>4
  <2>5. CASE j > i /\ l > i
    <3>1. j + d < l + d
      BY <1>2, <1>14
    <3> QED BY <1>4, <1>9, <2>5, <3>1
  <2> QED BY <1>2, <1>14, <2>1, <2>2, <2>3, <2>4, <2>5
<1>15. ASSUME NEW j \in 1 .. n - d
       PROVE  m1[ads1[j]] # 0 /\ new[j].words = getInstructionLength(m1[ads1[j]])
  <2>1. CASE j < i
    <3>1. j \in 1 .. n /\ ads1[j] = ads[j] /\ new[j] = lines[j]
      BY <1>3, <1>9, <2>1
    <3>2. m1[ads[j]] = m[ads[j]]
      BY <1>7, <2>1, <3>1
    <3> QED BY <1>4, <3>1, <3>2
  <2>2. CASE j = i
    BY <1>2, <1>3, <1>9, <1>b, <2>2
  <2>3. CASE j > i
    <3>1. new[j] = lines[j + d]
      BY <1>2, <1>3, <2>3
    <3>2. j + d \in 1 .. n /\ ads1[j] = ads[j + d] /\ k < j + d
      BY <1>9, <2>3
    <3>3. m1[ads[j + d]] = m[ads[j + d]]
      BY <1>8, <3>2
    <3> QED BY <1>4, <3>1, <3>2, <3>3
  <2> QED BY <1>2, <2>1, <2>2, <2>3
<1>16. ASSUME NEW j \in 1 .. (n - d) - 1
       PROVE  /\ \A b \in After(m1, ads1[j]) .. ads1[j + 1] - 1 : m1[b] = 0
              /\ new[j].words < 2 => ads1[j + 1] = ads1[j] + 1
  <2>0. j \in 1 .. n - d /\ j + 1 \in 1 .. n - d /\ j \in Nat
    BY <1>11
  <2>1. CASE j < i
    <3>1. /\ j \in 1 .. n - 1 /\ ads1[j] = ads[j] /\ ads1[j + 1] = ads[j + 1] /\ new[j] = lines[j]
          /\ j \in 1 .. n /\ j + 1 \in 1 .. n
      <4>1. j + 1 < i \/ j + 1 = i
        BY <1>2, <2>0, <2>1
      <4>2. ads1[j + 1] = ads[j + 1]
        BY <1>9, <2>0, <4>1
      <4> QED BY <1>1, <1>2, <1>3, <1>9, <2>0, <2>1, <4>2
    <3>2. After(m1, ads[j]) = After(m, ads[j])
      BY <1>7, <2>1, <3>1 DEF After
    <3>3. ads[j + 1] <= src
      <4>1. j + 1 = i \/ j + 1 < i
        BY <1>2, <2>0, <2>1
      <4>2. CASE j + 1 = i
        BY <1>6, <4>2
      <4>3. CASE j + 1 < i
        BY <1>2, <1>4, <1>5, <1>6, <3>1, <4>3
      <4> QED BY <4>1, <4>2, <4>3
    <3>4. ASSUME NEW b \in After(m, ads[j]) .. ads[j + 1] - 1
          PROVE  m1[b] = 0
      <4>1. After(m, ads[j]) \in Nat /\ After(m, ads[j]) > ads[j] /\ ads[j] \in Nat
        BY <1>4, <3>1, InstructionAt, SMTT(30)
      <4>2. ads[j + 1] \in 1 .. Len(m)
        BY <1>5, <3>1
      <4>3. b \in (1 .. Len(m)) \ (src .. end - 1)
        BY <1>6, <3>3, <4>1, <4>2, SMTT(30)
      <4>4. m[b] = 0
        BY <1>4, <3>1
      <4> QED BY <1>b, <4>3, <4>4
    <3>5. lines[j].words < 2 => ads[j + 1] = ads[j] + 1
      BY <1>4, <3>1
    <3> QED BY <3>1, <3>2, <3>4, <3>5
  <2>2. CASE j = i
    <3>1. /\ ads1[j] = src /\ ads1[j + 1] = ads[k + 1] /\ new[j] = line
      <4>1. j + 1 > i /\ (j + 1) + d = k + 1
        BY <1>2, <2>2
      <4>2. ads1[j + 1] = ads[k + 1]
        BY <1>9, <2>0, <4>1
      <4> QED BY <1>3, <1>9, <2>0, <2>2, <4>2
    <3>2. ASSUME NEW b \in After(m1, src) .. ads[k + 1] - 1
          PROVE  m1[b] = 0
      <4>1. After(m1, src) \in Nat /\ After(m1, src) >= 1
        BY <1>6, <1>b DEF After
      <4>2. CASE b < end
        BY <1>b, <4>1, <4>2
      <4>3. CASE ~(b < end)
        <5>1. ads[k + 1] \in 1 .. Len(m)
          BY <1>2, <1>5
        <5>2. b \in (1 .. Len(m)) \ (src .. end - 1) /\ b \in end .. ads[k + 1] - 1
          BY <1>6, <4>1, <4>3, <5>1
        <5> QED BY <1>a, <1>b, <5>2
      <4> QED BY <4>2, <4>3
    <3> QED BY <3>1, <3>2
  <2>3. CASE j > i
    <3>1. /\ j + d \in 1 .. n - 1 /\ ads1[j] = ads[j + d] /\ ads1[j + 1] = ads[(j + d) + 1]
          /\ new[j] = lines[j + d] /\ j + d \in 1 .. n /\ (j + d) + 1 \in 1 .. n /\ k < j + d
      <4>1. j + 1 > i /\ (j + 1) + d = (j + d) + 1
        BY <1>2, <2>0, <2>3
      <4>2. ads1[j + 1] = ads[(j + d) + 1]
        BY <1>9, <2>0, <4>1
      <4>3. new[j] = lines[j + d]
        BY <1>2, <1>3, <2>0, <2>3
      <4>4. j + d \in 1 .. n - 1 /\ (j + d) + 1 \in 1 .. n
        BY <1>1, <1>2, <2>0
      <4> QED BY <1>9, <2>0, <2>3, <4>2, <4>3, <4>4
    <3>2. After(m1, ads[j + d]) = After(m, ads[j + d])
      BY <1>8, <3>1 DEF After
    <3>3. ASSUME NEW b \in After(m, ads[j + d]) .. ads[(j + d) + 1] - 1
          PROVE  m1[b] = 0
      <4>0. ads[j + d] \in H
        BY <1>4, <3>1
      <4>1. /\ After(m, ads[j + d]) \in Nat /\ After(m, ads[j + d]) > ads[j + d]
            /\ ads[j + d] \in Nat
        BY <4>0, InstructionAt
      <4>2. ads[(j + d) + 1] \in 1 .. Len(m)
        BY <1>5, <3>1
      <4>3. ads[j + d] >= end /\ ads[j + d] >= 1
        BY <1>5, <1>8, <3>1
      <4>4. b \in (1 .. Len(m)) \ (src .. end - 1)
        BY <1>6, <4>1, <4>2, <4>3, SMTT(30)
      <4>5. m[b] = 0
        BY <1>4, <3>1
      <4> QED BY <1>b, <4>4, <4>5
    <3>4. lines[j + d].words < 2 => ads[(j + d) + 1] = ads[j + d] + 1
      BY <1>4, <3>1
    <3> QED BY <3>1, <3>2, <3>3, <3>4
  <2> QED BY <1>2, <2>0, <2>1, <2>2, <2>3
<1>17. LinesOK(m1, H1, new, ads1, Parent)
  <2>1. ads1 \in [1 .. n - d -> H1 \cap ParentWords]
    BY <1>10, <1>13
  <2>2. \E T : new \in Seq(T)
    BY <1>3
  <2> HIDE DEF d
  <2>3. Len(new) = n - d /\ n - d >= 1
    BY <1>3, <1>11
  <2> QED BY <1>12, <1>14, <1>15, <1>16, <2>1, <2>2, <2>3 DEF LinesOK
<1>18. ads1 = Shifted(ads, i, k, Len(lines))
  BY DEF Shifted, ads1, d, n
<1> QED BY <1>17, <1>18 DEF new
-----------------------------------------------------------------------------
(* What the patches write.                                                 *)

\* u is m with some words written over.
Wrote(u, m, at, words) ==
    /\ u \in Seq(Nat) /\ Len(u) = Len(m)
    /\ \A i \in 1 .. Len(m) :
         u[i] = IF i \in at .. at + Len(words) - 1 THEN words[i - at + 1] ELSE m[i]

LEMMA WriteWrites ==
    ASSUME NEW m \in Seq(Nat), NEW at \in Nat, NEW words \in Seq(Nat)
    PROVE  Wrote(Write(m, at, words), m, at, words)
<1>1. Len(m) \in Nat /\ Len(words) \in Nat
  BY LenProperties
<1> DEFINE W == [i \in 1 .. Len(m) |-> IF i \in at .. at + Len(words) - 1 THEN words[i - at + 1] ELSE m[i]]
<1>2. W = Write(m, at, words)
  BY DEF Write
<1>3. ASSUME NEW i \in 1 .. Len(m) PROVE W[i] \in Nat
  <2>1. CASE i \in at .. at + Len(words) - 1
    <3>1. i - at + 1 \in 1 .. Len(words)
      BY <1>1, <2>1
    <3>2. words[i - at + 1] \in Nat
      BY <3>1, ElementOfSeq
    <3> QED BY <2>1, <3>2
  <2>2. CASE i \notin at .. at + Len(words) - 1
    <3>1. m[i] \in Nat
      BY ElementOfSeq
    <3> QED BY <2>2, <3>1
  <2> QED BY <2>1, <2>2
<1>4. W = [i \in 1 .. Len(m) |-> W[i]]
  OBVIOUS
<1>5. \A i \in 1 .. Len(m) :
        W[i] = IF i \in at .. at + Len(words) - 1 THEN words[i - at + 1] ELSE m[i]
  OBVIOUS
<1> HIDE DEF W
<1>6. W \in Seq(Nat) /\ Len(W) = Len(m)
  <2>1. W \in [1 .. Len(m) -> Nat]
    BY <1>3, <1>4
  <2>2. W \in Seq(Nat)
    <3>1. \A n \in Nat : \A f \in [1 .. n -> Nat] : f \in Seq(Nat)
      OBVIOUS
    <3> QED BY <1>1, <2>1, <3>1
  <2>3. DOMAIN W = 1 .. Len(m) /\ DOMAIN W = 1 .. Len(W) /\ Len(W) \in Nat
    BY <2>1, <2>2, LenProperties
  <2> QED BY <1>1, <2>2, <2>3
<1> QED BY <1>2, <1>5, <1>6 DEF Wrote

\* u is m with a call of a script and padding in the words from src up to end.
CallPut(u, m, src, end, script) ==
    /\ u \in Seq(Nat) /\ Len(u) = Len(m)
    /\ \A x \in 1 .. Len(m) : u[x] = IF x = src THEN Word(Call, 1)
                                     ELSE IF x = src + 1 THEN script
                                     ELSE IF x \in src .. end - 1 THEN 0 ELSE m[x]

LEMMA CallIsPut ==
    ASSUME NEW m \in Seq(Nat), NEW src \in Nat, NEW end \in Nat, NEW script \in Nat,
           src + 2 <= end
    PROVE  CallPut(Write(Write(m, src, Zeros(end - src)), src, TrampolineCall(script)),
                   m, src, end, script)
<1> DEFINE z == Zeros(end - src)
           c == TrampolineCall(script)
           u == Write(m, src, z)
           v == Write(u, src, c)
<1>1. z \in Seq(Nat) /\ Len(z) = end - src /\ \A i \in 1 .. end - src : z[i] = 0
  <2>1. end - src \in Nat
    OBVIOUS
  <2>2. z = [i \in 1 .. end - src |-> 0]
    BY DEF Zeros
  <2> HIDE DEF z
  <2>3. z \in Seq(Nat)
    BY <2>1, <2>2
  <2>4. Len(z) = end - src
    BY <2>1, <2>2
  <2> QED BY <2>2, <2>3, <2>4
<1>2. c \in Seq(Nat) /\ Len(c) = 2 /\ c[1] = Word(Call, 1) /\ c[2] = script
  <2>1. Word(Call, 1) \in Nat
    BY WrittenWords
  <2> QED BY <2>1 DEF TrampolineCall
<1> HIDE DEF z, c
<1>3. Wrote(u, m, src, z)
  BY <1>1, WriteWrites
<1>4. u \in Seq(Nat)
  BY <1>3 DEF Wrote
<1> HIDE DEF u
<1>5. Wrote(v, u, src, c)
  BY <1>2, <1>4, WriteWrites
<1> HIDE DEF v
<1>6. ASSUME NEW x \in 1 .. Len(m)
      PROVE  v[x] = IF x = src THEN Word(Call, 1)
                    ELSE IF x = src + 1 THEN script
                    ELSE IF x \in src .. end - 1 THEN 0 ELSE m[x]
  <2>1. u[x] = IF x \in src .. end - 1 THEN 0 ELSE m[x]
    <3>1. u[x] = IF x \in src .. src + Len(z) - 1 THEN z[x - src + 1] ELSE m[x]
      BY <1>3 DEF Wrote
    <3>2. src + Len(z) - 1 = end - 1
      BY <1>1
    <3>3. x \in src .. end - 1 => x - src + 1 \in 1 .. end - src
      OBVIOUS
    <3> QED BY <1>1, <3>1, <3>2, <3>3
  <2>2. v[x] = IF x \in src .. src + 1 THEN c[x - src + 1] ELSE u[x]
    <3>1. v[x] = IF x \in src .. src + Len(c) - 1 THEN c[x - src + 1] ELSE u[x]
      BY <1>3, <1>5 DEF Wrote
    <3>2. src + Len(c) - 1 = src + 1
      BY <1>2
    <3> QED BY <3>1, <3>2
  <2>3. CASE x = src
    <3>1. x - src + 1 = 1 /\ x \in src .. src + 1
      BY <2>3
    <3> QED BY <1>2, <2>2, <2>3, <3>1
  <2>4. CASE x = src + 1
    <3>1. x - src + 1 = 2 /\ x \in src .. src + 1 /\ x # src
      BY <2>4
    <3> QED BY <1>2, <2>2, <2>4, <3>1
  <2>5. CASE x # src /\ x # src + 1
    <3>1. x \notin src .. src + 1
      BY <2>5
    <3> QED BY <2>1, <2>2, <2>5, <3>1
  <2> QED BY <2>3, <2>4, <2>5
<1>7. v \in Seq(Nat) /\ Len(v) = Len(m)
  BY <1>3, <1>5 DEF Wrote
<1> QED BY <1>6, <1>7 DEF CallPut, v, u, z, c

\* The addresses of instructions when a call and padding are in the words from src up to end.
HeadsPut(H, src, end) == (H \ (src .. end - 1)) \cup {src} \cup (src + 2 .. end - 1)

\* A call in place of some whole instructions of the patched script leaves code.
LEMMA CallKeepsCode ==
    ASSUME NEW m, NEW H, CodeOK(m, H), NEW src \in H, NEW end \in H, src + 2 <= end,
           src .. end - 1 \subseteq ParentWords,
           NEW script \in H \ ParentWords, NEW u, CallPut(u, m, src, end, script)
    PROVE  CodeOK(u, HeadsPut(H, src, end))
<1> DEFINE H1 == HeadsPut(H, src, end)
<1>1. /\ m \in Seq(Nat) /\ Len(m) \in Nat /\ src \in 1 .. Len(m) /\ end \in 1 .. Len(m)
      /\ script \in 1 .. Len(m) /\ src \in Nat /\ end \in Nat
  BY InstructionAt DEF CodeOK
<1>2. u \in Seq(Nat) /\ Len(u) = Len(m)
  BY DEF CallPut
<1>3. /\ \A x \in (1 .. Len(m)) \ (src .. end - 1) : u[x] = m[x]
      /\ \A x \in src + 2 .. end - 1 : u[x] = 0
      /\ u[src] = Word(Call, 1) /\ u[src + 1] = script
  <2>1. src + 1 \in 1 .. Len(m) /\ src + 1 # src
    BY <1>1
  <2>2. ASSUME NEW x \in (1 .. Len(m)) \ (src .. end - 1) PROVE u[x] = m[x]
    <3>1. x # src /\ x # src + 1
      BY <1>1
    <3> QED BY <3>1 DEF CallPut
  <2>3. ASSUME NEW x \in src + 2 .. end - 1 PROVE u[x] = 0
    <3>1. x # src /\ x # src + 1 /\ x \in 1 .. Len(m) /\ x \in src .. end - 1
      BY <1>1
    <3> QED BY <3>1 DEF CallPut
  <2> QED BY <1>1, <2>1, <2>2, <2>3 DEF CallPut
\* The three kinds of addresses.
<1>4. \A a \in H1 : \/ a \in H /\ a \notin src .. end - 1
                    \/ a = src
                    \/ a \in src + 2 .. end - 1
  BY DEF HeadsPut
<1>5. ASSUME NEW a \in H, a \notin src .. end - 1
      PROVE  /\ a \in 1 .. Len(m) /\ After(m, a) \in Nat /\ After(m, a) > a
             /\ a < src => After(m, a) <= src
             /\ a >= src => a >= end
             /\ u[a] = m[a] /\ After(u, a) = After(m, a)
             /\ getInstructionLength(m[a]) >= 2 => u[a + 1] = m[a + 1]
             /\ After(m, a) \in H => After(m, a) \in H1
             /\ a \in H1
  <2>1. a \in 1 .. Len(m) /\ After(m, a) \in Nat /\ After(m, a) > a /\ After(m, a) <= Len(m) + 1
        /\ getInstructionLength(m[a]) \in Nat
    BY InstructionAt
  <2>2. a < src => After(m, a) <= src
    BY DEF CodeOK
  <2>3. a >= src => a >= end
    BY <1>1, <1>5, <2>1
  <2>4. u[a] = m[a]
    BY <1>3, <1>5, <2>1
  <2>5. After(u, a) = After(m, a)
    BY <2>4 DEF After
  <2>6. ASSUME getInstructionLength(m[a]) >= 2 PROVE u[a + 1] = m[a + 1]
    <3>1. After(m, a) >= a + 2
      BY <2>1, <2>6 DEF After
    <3>2. a + 1 \in 1 .. Len(m)
      BY <1>1, <2>1, <3>1
    <3>3. a + 1 \notin src .. end - 1
      BY <1>1, <2>1, <2>2, <2>3, <3>1
    <3> QED BY <1>3, <3>2, <3>3
  <2>7. ASSUME After(m, a) \in H PROVE After(m, a) \in H1
    <3>1. After(m, a) = src \/ After(m, a) \notin src .. end - 1
      BY <1>1, <2>1, <2>2, <2>3
    <3> QED BY <2>7, <3>1 DEF HeadsPut
  <2>8. a \in H1
    BY <1>5 DEF HeadsPut
  <2> QED BY <2>1, <2>2, <2>3, <2>4, <2>5, <2>6, <2>7, <2>8
<1>6. ASSUME NEW a, a = src
      PROVE  /\ a \in 1 .. Len(m) /\ getOpcode(u[a]) = Call /\ getInstructionLength(u[a]) = 2
             /\ After(u, a) = src + 2 /\ src + 2 \in H1 /\ a \in H1
             /\ u[a + 1] \in H1 \ ParentWords
  <2>1. getOpcode(u[a]) = Call /\ getInstructionLength(u[a]) = 2
    BY <1>3, <1>6, WrittenWords
  <2>2. src + 2 \in H1
    <3>1. CASE src + 2 = end
      <4>1. end \notin src .. end - 1
        BY <1>1
      <4> QED BY <3>1, <4>1 DEF HeadsPut
    <3>2. CASE src + 2 # end
      <4>1. src + 2 \in src + 2 .. end - 1
        BY <1>1, <3>2
      <4> QED BY <4>1 DEF HeadsPut
    <3> QED BY <3>1, <3>2
  <2>3. script \in H1 \ ParentWords
    <3>1. script \notin src .. end - 1
      OBVIOUS
    <3> QED BY <3>1 DEF HeadsPut
  <2> QED BY <1>1, <1>3, <1>6, <2>1, <2>2, <2>3 DEF After, HeadsPut
<1>7. ASSUME NEW a, a \in src + 2 .. end - 1
      PROVE  /\ a \in 1 .. Len(m) /\ getOpcode(u[a]) = Nop /\ getInstructionLength(u[a]) = 1
             /\ After(u, a) = a + 1 /\ a + 1 \in H1
  <2>1. getOpcode(u[a]) = Nop /\ getInstructionLength(u[a]) = 1
    BY <1>3, <1>7, WrittenWords
  <2>2. a + 1 \in H1
    <3>1. CASE a + 1 = end
      <4>1. end \notin src .. end - 1
        BY <1>1
      <4> QED BY <3>1, <4>1 DEF HeadsPut
    <3>2. CASE a + 1 # end
      <4>1. a + 1 \in src + 2 .. end - 1
        BY <1>1, <1>7, <3>2
      <4> QED BY <4>1 DEF HeadsPut
    <3> QED BY <3>1, <3>2
  <2> QED BY <1>1, <1>7, <2>1, <2>2 DEF After
<1>8. H1 \subseteq 1 .. Len(u)
  BY <1>2, <1>4, <1>5, <1>6, <1>7
<1>9. ASSUME NEW a \in H1
      PROVE  /\ After(u, a) <= Len(u) + 1
             /\ getOpcode(u[a]) \notin Ends => After(u, a) \in H1
             /\ getOpcode(u[a]) \in {Lbl, Goto, Call} => getInstructionLength(u[a]) >= 2
             /\ getOpcode(u[a]) = Call => u[a + 1] \in H1 \ ParentWords
  <2>1. CASE a \in H /\ a \notin src .. end - 1
    <3>1. After(m, a) <= Len(m) + 1
      BY <2>1, InstructionAt
    <3>2. getOpcode(m[a]) \notin Ends => After(m, a) \in H
      BY <2>1 DEF CodeOK
    <3>3. getOpcode(m[a]) \in {Lbl, Goto, Call} => getInstructionLength(m[a]) >= 2
      BY <2>1 DEF CodeOK
    <3>4. ASSUME getOpcode(m[a]) = Call PROVE m[a + 1] \in H1 \ ParentWords
      <4>1. m[a + 1] \in H \ ParentWords
        BY <2>1, <3>4 DEF CodeOK
      <4>2. m[a + 1] \notin src .. end - 1
        BY <4>1
      <4> QED BY <4>1, <4>2 DEF HeadsPut
    <3>5. u[a] = m[a] /\ After(u, a) = After(m, a)
      BY <1>5, <2>1
    <3>6. After(m, a) \in H => After(m, a) \in H1
      BY <1>5, <2>1
    <3>7. getInstructionLength(m[a]) >= 2 => u[a + 1] = m[a + 1]
      BY <1>5, <2>1
    <3> HIDE DEF H1
    <3> QED BY <1>2, <3>1, <3>2, <3>3, <3>4, <3>5, <3>6, <3>7
  <2>2. CASE a = src
    <3>1. getOpcode(u[a]) = Call /\ getInstructionLength(u[a]) = 2
          /\ After(u, a) \in H1 /\ u[a + 1] \in H1 \ ParentWords /\ After(u, a) = src + 2
      BY <1>6, <2>2
    <3>2. src + 2 <= Len(m) + 1
      BY <1>1
    <3> HIDE DEF H1
    <3> QED BY <1>2, <3>1, <3>2
  <2>3. CASE a \in src + 2 .. end - 1
    <3>1. getOpcode(u[a]) = Nop /\ After(u, a) \in H1 /\ After(u, a) = a + 1
      BY <1>7, <2>3
    <3>2. a + 1 <= Len(m) + 1
      BY <1>1, <2>3
    <3>3. getOpcode(u[a]) # Call
      BY <3>1 DEF Nop, Call
    <3> HIDE DEF H1
    <3> QED BY <1>2, <3>1, <3>2, <3>3, Opcodes
  <2> QED BY <1>4, <2>1, <2>2, <2>3
<1>10. ASSUME NEW a \in H1, NEW b \in H1, a < b
       PROVE  After(u, a) <= b
  <2>0. b \in Nat /\ a \in Nat
    BY <1>2, <1>8
  <2>1. CASE a \in H /\ a \notin src .. end - 1
    <3>1. After(u, a) = After(m, a) /\ After(m, a) \in Nat /\ (a < src => After(m, a) <= src)
          /\ (a >= src => a >= end)
      BY <1>5, <2>1
    <3>2. CASE b \in H
      BY <1>10, <2>1, <3>1, <3>2 DEF CodeOK
    <3>3. CASE b \notin H
      <4>1. b \in src + 2 .. end - 1
        BY <1>4, <3>3
      <4> QED BY <1>1, <1>10, <2>0, <3>1, <4>1
    <3> QED BY <3>2, <3>3
  <2>2. CASE a = src
    <3>1. After(u, a) = src + 2
      BY <1>6, <2>2
    <3>2. b # src + 1
      <4>1. src + 1 \in src .. end - 1 /\ src + 1 # src /\ src + 1 \notin src + 2 .. end - 1
        BY <1>1
      <4> QED BY <1>4, <4>1
    <3> QED BY <1>1, <1>10, <2>0, <2>2, <3>1, <3>2
  <2>3. CASE a \in src + 2 .. end - 1
    <3>1. After(u, a) = a + 1
      BY <1>7, <2>3
    <3> QED BY <1>10, <2>0, <3>1
  <2> QED BY <1>4, <2>1, <2>2, <2>3
<1> HIDE DEF H1
<1>11. CodeOK(u, H1)
  BY <1>2, <1>8, <1>9, <1>10 DEF CodeOK
<1> QED BY <1>11 DEF H1

\* hookEvt's forwarder.
Forwarder(m, src, len, child) ==
    TrampolineCall(child) \o Words(m, src, len) \o <<Word(ReturnFromCall, 0)>>

\* u is m with the forwarder for the words from src up to end behind it.
ForwarderBehind(u, m, src, end, child) ==
    /\ u \in Seq(Nat) /\ Len(u) = Len(m) + 3 + (end - src)
    /\ \A x \in 1 .. Len(m) : u[x] = m[x]
    /\ u[Len(m) + 1] = Word(Call, 1) /\ u[Len(m) + 2] = child
    /\ \A x \in src .. end - 1 : u[Len(m) + 3 + (x - src)] = m[x]
    /\ u[Len(m) + 3 + (end - src)] = Word(ReturnFromCall, 0)

LEMMA ForwarderIsBehind ==
    ASSUME NEW m \in Seq(Nat), NEW src \in 1 .. Len(m), NEW end \in 1 .. Len(m), src < end,
           NEW child \in Nat
    PROVE  ForwarderBehind(m \o Forwarder(m, src, end - src, child), m, src, end, child)
<1> DEFINE L == Len(m)
           c == TrampolineCall(child)
           w == Words(m, src, end - src)
           r == <<Word(ReturnFromCall, 0)>>
           n == end - src
<1>1. L \in Nat /\ src \in Nat /\ end \in Nat /\ n \in Nat /\ n >= 1
  BY LenProperties
<1>2. c \in Seq(Nat) /\ Len(c) = 2 /\ c[1] = Word(Call, 1) /\ c[2] = child
  <2>1. Word(Call, 1) \in Nat
    BY WrittenWords
  <2> QED BY <2>1 DEF TrampolineCall
<1>3. w \in Seq(Nat) /\ Len(w) = n /\ \A i \in 1 .. n : w[i] = m[src + i - 1]
  <2>1. \A i \in src .. end - 1 : m[i] \in Nat
    BY ElementOfSeq
  <2>2. w = SubSeq(m, src, end - 1)
    <3>1. src + (end - src) - 1 = end - 1
      OBVIOUS
    <3> QED BY <3>1 DEF Words
  <2>3. /\ SubSeq(m, src, end - 1) \in Seq(Nat)
        /\ Len(SubSeq(m, src, end - 1)) = (IF src <= end - 1 THEN end - 1 - src + 1 ELSE 0)
        /\ \A i \in 1 .. end - 1 - src + 1 : SubSeq(m, src, end - 1)[i] = m[src + i - 1]
    BY <1>1, <2>1, SubSeqProperties
  <2>4. end - 1 - src + 1 = n /\ src <= end - 1
    OBVIOUS
  <2> HIDE DEF w, n
  <2> QED BY <2>2, <2>3, <2>4
<1>4. r \in Seq(Nat) /\ Len(r) = 1 /\ r[1] = Word(ReturnFromCall, 0)
  <2>1. Word(ReturnFromCall, 0) \in Nat
    BY WrittenWords
  <2> QED BY <2>1
<1> HIDE DEF c, w, r
<1> DEFINE cw == c \o w
           f == cw \o r
           u == m \o f
<1>5. /\ cw \in Seq(Nat) /\ Len(cw) = 2 + n
      /\ \A i \in 1 .. 2 + n : cw[i] = IF i <= 2 THEN c[i] ELSE w[i - 2]
  <2>1. /\ cw \in Seq(Nat) /\ Len(cw) = Len(c) + Len(w)
        /\ \A i \in 1 .. Len(c) + Len(w) : cw[i] = IF i <= Len(c) THEN c[i] ELSE w[i - Len(c)]
    BY <1>2, <1>3, ConcatProperties
  <2> HIDE DEF cw, n
  <2> QED BY <1>2, <1>3, <2>1
<1> HIDE DEF cw
<1>6. /\ f \in Seq(Nat) /\ Len(f) = 3 + n
      /\ \A i \in 1 .. 3 + n : f[i] = IF i <= 2 + n THEN cw[i] ELSE r[i - (2 + n)]
  <2>1. /\ f \in Seq(Nat) /\ Len(f) = Len(cw) + Len(r)
        /\ \A i \in 1 .. Len(cw) + Len(r) : f[i] = IF i <= Len(cw) THEN cw[i] ELSE r[i - Len(cw)]
    BY <1>4, <1>5, ConcatProperties
  <2>2. Len(cw) + Len(r) = 3 + n
    BY <1>1, <1>4, <1>5
  <2> HIDE DEF f, n
  <2> QED BY <1>5, <2>1, <2>2
<1> HIDE DEF f
<1>7. /\ u \in Seq(Nat) /\ Len(u) = L + 3 + n
      /\ \A i \in 1 .. L + 3 + n : u[i] = IF i <= L THEN m[i] ELSE f[i - L]
  <2>1. /\ u \in Seq(Nat) /\ Len(u) = Len(m) + Len(f)
        /\ \A i \in 1 .. Len(m) + Len(f) : u[i] = IF i <= Len(m) THEN m[i] ELSE f[i - Len(m)]
    BY <1>6, ConcatProperties
  <2>2. Len(m) + Len(f) = L + 3 + n
    BY <1>1, <1>6
  <2> HIDE DEF u, n
  <2> QED BY <2>1, <2>2
<1> HIDE DEF u, L
<1>8. \A x \in 1 .. L : u[x] = m[x]
  <2> HIDE DEF n
  <2> QED BY <1>1, <1>7
<1>9. \A i \in 1 .. 3 + n : u[L + i] = f[i]
  <2> HIDE DEF n
  <2> SUFFICES ASSUME NEW i \in 1 .. 3 + n PROVE u[L + i] = f[i]
    OBVIOUS
  <2>1. L + i \in 1 .. L + 3 + n /\ ~(L + i <= L) /\ (L + i) - L = i
    BY <1>1
  <2> QED BY <1>7, <2>1
<1>10. u[L + 1] = Word(Call, 1) /\ u[L + 2] = child
  <2> HIDE DEF n
  <2>1. 1 \in 1 .. 3 + n /\ 2 \in 1 .. 3 + n /\ 1 \in 1 .. 2 + n /\ 2 \in 1 .. 2 + n
        /\ 1 <= 2 + n /\ 2 <= 2 + n
    BY <1>1
  <2>2. f[1] = c[1] /\ f[2] = c[2]
    BY <1>5, <1>6, <2>1
  <2> QED BY <1>2, <1>9, <2>1, <2>2
<1>11. ASSUME NEW x \in src .. end - 1 PROVE u[L + 3 + (x - src)] = m[x]
  <2> DEFINE i == x - src
  <2>1. i \in Nat /\ i < n /\ src + (i + 1) - 1 = x
    OBVIOUS
  <2> HIDE DEF i, n
  <2>2. /\ i + 3 \in 1 .. 3 + n /\ i + 3 \in 1 .. 2 + n /\ i + 3 <= 2 + n /\ ~(i + 3 <= 2)
        /\ (i + 3) - 2 = i + 1 /\ i + 1 \in 1 .. n /\ L + 3 + i = L + (i + 3)
    BY <1>1, <2>1
  <2>3. f[i + 3] = w[i + 1]
    BY <1>5, <1>6, <2>2
  <2>4. w[i + 1] = m[x]
    BY <1>3, <2>1, <2>2
  <2>5. u[L + 3 + i] = m[x]
    BY <1>9, <2>2, <2>3, <2>4
  <2> QED BY <2>5 DEF i
<1>12. u[L + 3 + n] = Word(ReturnFromCall, 0)
  <2> HIDE DEF n
  <2>1. 3 + n \in 1 .. 3 + n /\ ~(3 + n <= 2 + n) /\ (3 + n) - (2 + n) = 1 /\ L + 3 + n = L + (3 + n)
    BY <1>1
  <2>2. f[3 + n] = r[1]
    BY <1>6, <2>1
  <2> QED BY <1>4, <1>9, <2>1, <2>2
<1>13. ForwarderBehind(u, m, src, end, child)
  BY <1>7, <1>8, <1>10, <1>11, <1>12 DEF ForwarderBehind, L
<1>14. u = m \o Forwarder(m, src, end - src, child)
  BY DEF u, f, cw, c, w, r, Forwarder
<1> QED BY <1>13, <1>14

HeadsBehind(H, len, src, end) ==
    H \cup {len + 1} \cup {len + 3 + (x - src) : x \in H \cap (src .. end - 1)}
      \cup {len + 3 + (end - src)}

\* A forwarder of some whole instructions that do not end a script is code.
LEMMA ForwarderKeepsCode ==
    ASSUME NEW m, NEW H, CodeOK(m, H), NEW src \in H, NEW end \in H, src < end,
           \A a \in H \cap (src .. end - 1) : getOpcode(m[a]) \notin Ends,
           NEW child \in H \ ParentWords, ParentWords \subseteq 1 .. Len(m),
           NEW u, ForwarderBehind(u, m, src, end, child)
    PROVE  /\ CodeOK(u, HeadsBehind(H, Len(m), src, end))
           /\ Len(m) + 1 \in HeadsBehind(H, Len(m), src, end) \ ParentWords
<1> DEFINE L == Len(m)
           B == H \cap (src .. end - 1)
           cp(x) == L + 3 + (x - src)
           H1 == HeadsBehind(H, L, src, end)
<1>1. /\ m \in Seq(Nat) /\ L \in Nat /\ src \in 1 .. L /\ end \in 1 .. L
      /\ src \in Nat /\ end \in Nat
  BY InstructionAt DEF CodeOK
<1>2. /\ u \in Seq(Nat) /\ Len(u) = cp(end)
      /\ \A x \in 1 .. L : u[x] = m[x]
      /\ u[L + 1] = Word(Call, 1) /\ u[L + 2] = child
      /\ \A x \in src .. end - 1 : u[cp(x)] = m[x]
      /\ u[cp(end)] = Word(ReturnFromCall, 0)
  BY DEF ForwarderBehind
<1>3. /\ H \subseteq H1 /\ L + 1 \in H1 /\ cp(end) \in H1 /\ \A x \in B : cp(x) \in H1
      /\ \A a \in H1 : a \in H \/ a = L + 1 \/ (\E x \in B : a = cp(x)) \/ a = cp(end)
  <2> DEFINE C == {cp(x) : x \in B}
  <2>1. H1 = H \cup {L + 1} \cup C \cup {cp(end)}
    BY DEF HeadsBehind
  <2>2. /\ \A x \in B : cp(x) \in C
        /\ \A a \in C : \E x \in B : a = cp(x)
    OBVIOUS
  <2> HIDE DEF C, cp, B, H1, L
  <2>3. \A a \in H1 : a \in H \/ a = L + 1 \/ a \in C \/ a = cp(end)
    BY <2>1
  <2>4. \A a \in H1 : a \in H \/ a = L + 1 \/ (\E x \in B : a = cp(x)) \/ a = cp(end)
    BY <2>2, <2>3
  <2>5. H \subseteq H1 /\ L + 1 \in H1 /\ cp(end) \in H1 /\ \A x \in B : cp(x) \in H1
    BY <2>1, <2>2
  <2> QED BY <2>4, <2>5
<1>4. \A a \in H \ ParentWords : a \in H1 \ ParentWords
  BY <1>3
<1> HIDE DEF L, H1
<1>5. ASSUME NEW a \in H
      PROVE  /\ a \in 1 .. L /\ u[a] = m[a] /\ After(u, a) = After(m, a) /\ After(m, a) <= L + 1
             /\ getInstructionLength(m[a]) >= 2 => u[a + 1] = m[a + 1]
  <2>1. /\ a \in 1 .. L /\ After(m, a) <= L + 1 /\ After(m, a) \in Nat
        /\ getInstructionLength(m[a]) \in Nat
    BY InstructionAt DEF L
  <2>2. u[a] = m[a]
    BY <1>2, <2>1
  <2>3. ASSUME getInstructionLength(m[a]) >= 2 PROVE u[a + 1] = m[a + 1]
    <3>1. a + 1 \in 1 .. L
      BY <1>1, <2>1, <2>3 DEF After
    <3> QED BY <1>2, <3>1
  <2> QED BY <2>1, <2>2, <2>3 DEF After
<1>6. ASSUME NEW x \in B
      PROVE  /\ x \in Nat /\ src <= x /\ x < end /\ u[cp(x)] = m[x] /\ x \in H
             /\ After(m, x) \in H /\ After(m, x) \in Nat /\ x < After(m, x) /\ After(m, x) <= end
             /\ After(u, cp(x)) = cp(After(m, x)) /\ cp(After(m, x)) \in H1
             /\ getInstructionLength(m[x]) >= 2 => u[cp(x) + 1] = m[x + 1]
  <2>1. x \in Nat /\ src <= x /\ x < end /\ x \in H /\ x \in src .. end - 1
    BY <1>1
  <2>2. u[cp(x)] = m[x]
    BY <1>2, <2>1
  <2>3. After(m, x) \in H
    BY <2>1 DEF CodeOK
  <2>4. After(m, x) \in Nat /\ x < After(m, x) /\ getInstructionLength(m[x]) \in Nat
    BY <2>1, InstructionAt
  <2>5. After(m, x) <= end
    BY <2>1 DEF CodeOK
  <2>6. After(u, cp(x)) = cp(After(m, x))
    <3>1. After(u, cp(x)) = cp(x) + getInstructionLength(m[x])
      BY <2>2 DEF After
    <3> QED BY <1>1, <2>1, <2>4, <3>1 DEF After
  <2>7. cp(After(m, x)) \in H1
    <3>1. CASE After(m, x) = end
      BY <1>3, <3>1
    <3>2. CASE After(m, x) # end
      <4>1. After(m, x) \in B
        BY <1>1, <2>1, <2>3, <2>4, <2>5, <3>2
      <4> QED BY <1>3, <4>1
    <3> QED BY <3>1, <3>2
  <2>8. ASSUME getInstructionLength(m[x]) >= 2 PROVE u[cp(x) + 1] = m[x + 1]
    <3>1. x + 1 \in src .. end - 1 /\ cp(x + 1) = cp(x) + 1
      BY <1>1, <2>1, <2>4, <2>5, <2>8 DEF After
    <3>2. u[cp(x + 1)] = m[x + 1]
      BY <1>2, <3>1
    <3> QED BY <3>1, <3>2
  <2> QED BY <2>1, <2>2, <2>3, <2>4, <2>5, <2>6, <2>7, <2>8
<1>7. /\ getOpcode(u[L + 1]) = Call /\ getInstructionLength(u[L + 1]) = 2
      /\ After(u, L + 1) = cp(src) /\ cp(src) \in H1 /\ u[(L + 1) + 1] = child
  <2>1. getOpcode(u[L + 1]) = Call /\ getInstructionLength(u[L + 1]) = 2
    BY <1>2, WrittenWords
  <2>2. src \in B
    BY <1>1
  <2>3. After(u, L + 1) = cp(src)
    BY <1>1, <2>1 DEF After
  <2>4. (L + 1) + 1 = L + 2
    BY <1>1
  <2> QED BY <1>2, <1>3, <2>1, <2>2, <2>3, <2>4
<1>8. /\ getOpcode(u[cp(end)]) = ReturnFromCall /\ After(u, cp(end)) = cp(end) + 1
  BY <1>2, WrittenWords DEF After
<1>9. H1 \subseteq 1 .. Len(u)
  <2> SUFFICES ASSUME NEW a \in H1 PROVE a \in 1 .. cp(end)
    BY <1>2
  <2>1. CASE a \in H
    <3>1. a \in 1 .. L
      BY <1>5, <2>1
    <3> QED BY <1>1, <3>1
  <2>2. CASE a = L + 1
    BY <1>1, <2>2
  <2>3. ASSUME NEW x \in B, a = cp(x) PROVE a \in 1 .. cp(end)
    BY <1>1, <1>6, <2>3
  <2>4. CASE a = cp(end)
    BY <1>1, <2>4
  <2> QED BY <1>3, <2>1, <2>2, <2>3, <2>4
<1>10. ASSUME NEW a \in H1
       PROVE  /\ After(u, a) <= Len(u) + 1
              /\ getOpcode(u[a]) \notin Ends => After(u, a) \in H1
              /\ getOpcode(u[a]) \in {Lbl, Goto, Call} => getInstructionLength(u[a]) >= 2
              /\ getOpcode(u[a]) = Call => u[a + 1] \in H1 \ ParentWords
  <2>1. CASE a \in H
    <3>1. getOpcode(m[a]) \notin Ends => After(m, a) \in H1
      BY <1>3, <2>1 DEF CodeOK
    <3>2. getOpcode(m[a]) \in {Lbl, Goto, Call} => getInstructionLength(m[a]) >= 2
      BY <2>1 DEF CodeOK
    <3>3. getOpcode(m[a]) = Call => m[a + 1] \in H1 \ ParentWords
      BY <1>4, <2>1 DEF CodeOK
    <3>4. After(m, a) <= Len(u) + 1 /\ u[a] = m[a] /\ After(u, a) = After(m, a)
          /\ (getInstructionLength(m[a]) >= 2 => u[a + 1] = m[a + 1])
      <4>1. After(m, a) <= L + 1 /\ After(m, a) \in Nat
        BY <1>5, <2>1, InstructionAt
      <4>2. After(m, a) <= cp(end) + 1
        BY <1>1, <4>1
      <4> QED BY <1>2, <1>5, <2>1, <4>2
    <3> QED BY <3>1, <3>2, <3>3, <3>4
  <2>2. CASE a = L + 1
    <3>1. cp(src) <= cp(end) + 1
      BY <1>1
    <3>2. child \in H1 \ ParentWords
      BY <1>4
    <3> QED BY <1>2, <1>7, <2>2, <3>1, <3>2
  <2>3. ASSUME NEW x \in B, a = cp(x)
        PROVE  /\ After(u, a) <= Len(u) + 1
               /\ getOpcode(u[a]) \notin Ends => After(u, a) \in H1
               /\ getOpcode(u[a]) \in {Lbl, Goto, Call} => getInstructionLength(u[a]) >= 2
               /\ getOpcode(u[a]) = Call => u[a + 1] \in H1 \ ParentWords
    <3>1. getOpcode(m[x]) \in {Lbl, Goto, Call} => getInstructionLength(m[x]) >= 2
      BY <1>6 DEF CodeOK
    <3>2. getOpcode(m[x]) = Call => m[x + 1] \in H1 \ ParentWords
      BY <1>4, <1>6 DEF CodeOK
    <3>3. After(u, a) = cp(After(m, x)) /\ After(u, a) \in H1 /\ u[a] = m[x]
          /\ (getInstructionLength(m[x]) >= 2 => u[a + 1] = m[x + 1])
      BY <1>6, <2>3
    <3>4. cp(After(m, x)) <= cp(end) + 1
      BY <1>1, <1>6
    <3> QED BY <1>2, <3>1, <3>2, <3>3, <3>4
  <2>4. CASE a = cp(end)
    <3>1. getOpcode(u[a]) = ReturnFromCall /\ After(u, a) = Len(u) + 1
      BY <1>2, <1>8, <2>4
    <3>2. Len(u) + 1 <= Len(u) + 1
      BY <1>2, LenProperties
    <3>3. ReturnFromCall # Call
      BY DEF ReturnFromCall, Call
    <3> QED BY <3>1, <3>2, <3>3, Opcodes
  <2> QED BY <1>3, <2>1, <2>2, <2>3, <2>4
<1>11. ASSUME NEW a \in H1, NEW b \in H1, a < b
       PROVE  After(u, a) <= b
  <2>0. a \in 1 .. cp(end) /\ b \in 1 .. cp(end)
    BY <1>2, <1>9
  <2>1. CASE a \in H
    <3>1. After(u, a) = After(m, a) /\ After(m, a) <= L + 1 /\ After(m, a) \in Nat
      BY <1>5, <2>1, InstructionAt
    <3>2. CASE b \in H
      BY <1>11, <2>1, <3>1, <3>2 DEF CodeOK
    <3>3. CASE b \notin H
      <4>1. b >= L + 1
        <5>1. \A x \in B : cp(x) >= L + 1
          BY <1>1, <1>6
        <5>2. cp(end) >= L + 1 /\ L + 1 >= L + 1
          BY <1>1
        <5> QED BY <1>3, <3>3, <5>1, <5>2
      <4> QED BY <1>1, <2>0, <3>1, <4>1
    <3> QED BY <3>2, <3>3
  <2>2. ASSUME b \in H, a \notin H PROVE FALSE
    <3>1. b <= L
      BY <1>5, <2>2
    <3>2. a >= L + 1
      <4>1. \A x \in B : cp(x) >= L + 1
        BY <1>1, <1>6
      <4>2. cp(end) >= L + 1 /\ L + 1 >= L + 1
        BY <1>1
      <4> QED BY <1>3, <2>2, <4>1, <4>2
    <3> QED BY <1>1, <1>11, <2>0, <3>1, <3>2
  <2>3. CASE a = L + 1 /\ b \notin H
    <3>1. After(u, a) = L + 3
      BY <1>1, <1>7, <2>3
    <3>2. b = cp(end) \/ \E x \in B : b = cp(x)
      BY <1>3, <1>11, <2>3
    <3> QED BY <1>1, <1>6, <3>1, <3>2
  <2>4. ASSUME NEW x \in B, a = cp(x), b \notin H PROVE After(u, a) <= b
    <3>1. After(u, a) = cp(After(m, x)) /\ After(m, x) <= end /\ After(m, x) \in Nat /\ x \in Nat
      BY <1>6, <2>4
    <3>2. b # L + 1
      BY <1>1, <1>6, <1>11, <2>4
    <3>3. CASE b = cp(end)
      BY <1>1, <3>1, <3>3
    <3>4. ASSUME NEW y \in B, b = cp(y) PROVE After(u, a) <= b
      <4>1. x < y /\ y \in Nat
        BY <1>1, <1>6, <1>11, <2>4, <3>4
      <4>2. After(m, x) <= y
        BY <1>6, <4>1 DEF CodeOK
      <4> QED BY <1>1, <3>1, <3>4, <4>1, <4>2
    <3> QED BY <1>3, <2>4, <3>2, <3>3, <3>4
  <2>5. a # cp(end)
    BY <1>1, <1>11, <2>0
  <2> QED BY <1>3, <2>1, <2>2, <2>3, <2>4, <2>5
<1>12. CodeOK(u, H1)
  BY <1>2, <1>9, <1>10, <1>11 DEF CodeOK
<1>13. L + 1 \in H1 \ ParentWords
  <2>1. L + 1 \notin ParentWords
    BY <1>1 DEF L
  <2> QED BY <1>3, <2>1
<1> QED BY <1>12, <1>13 DEF H1, L

\* A call and what is behind memory.
LEMMA CallPutBefore ==
    ASSUME NEW m \in Seq(Nat), NEW src \in 1 .. Len(m), NEW end \in 1 .. Len(m), src + 2 <= end,
           NEW script, NEW u, CallPut(u, m, src, end, script), NEW f \in Seq(Nat)
    PROVE  CallPut(u \o f, m \o f, src, end, script)
<1>1. u \in Seq(Nat) /\ Len(u) = Len(m) /\ Len(m) \in Nat /\ Len(f) \in Nat
  BY LenProperties DEF CallPut
<1>2. /\ u \o f \in Seq(Nat) /\ Len(u \o f) = Len(u) + Len(f)
      /\ \A x \in 1 .. Len(u) + Len(f) : (u \o f)[x] = IF x <= Len(u) THEN u[x] ELSE f[x - Len(u)]
  BY <1>1, ConcatProperties
<1>3. /\ m \o f \in Seq(Nat) /\ Len(m \o f) = Len(m) + Len(f)
      /\ \A x \in 1 .. Len(m) + Len(f) : (m \o f)[x] = IF x <= Len(m) THEN m[x] ELSE f[x - Len(m)]
  BY ConcatProperties
<1> DEFINE uf == u \o f
           mf == m \o f
<1> HIDE DEF uf, mf
<1>4. ASSUME NEW x \in 1 .. Len(mf)
      PROVE  uf[x] = IF x = src THEN Word(Call, 1)
                     ELSE IF x = src + 1 THEN script
                     ELSE IF x \in src .. end - 1 THEN 0 ELSE mf[x]
  <2>1. x \in 1 .. Len(m) + Len(f)
    BY <1>3 DEF mf
  <2>2. CASE x <= Len(m)
    <3>1. x \in 1 .. Len(m)
      BY <1>1, <2>1, <2>2
    <3>2. uf[x] = u[x] /\ mf[x] = m[x]
      BY <1>1, <1>2, <1>3, <2>1, <2>2 DEF uf, mf
    <3> QED BY <3>1, <3>2 DEF CallPut
  <2>3. CASE ~(x <= Len(m))
    <3>1. uf[x] = mf[x]
      BY <1>1, <1>2, <1>3, <2>1, <2>3 DEF uf, mf
    <3>2. x # src /\ x # src + 1 /\ x \notin src .. end - 1
      BY <1>1, <2>3
    <3> QED BY <3>1, <3>2
  <2> QED BY <2>2, <2>3
<1>5. uf \in Seq(Nat) /\ Len(uf) = Len(mf)
  BY <1>1, <1>2, <1>3 DEF uf, mf
<1>6. CallPut(uf, mf, src, end, script)
  BY <1>4, <1>5 DEF CallPut
<1> QED BY <1>6 DEF uf, mf

\* u is m but from src up to end.
Elsewhere(u, m, src, end) == \A x \in (1 .. Len(m)) \ (src .. end - 1) : u[x] = m[x]

\* What is new in the patched script does not end it.
NoNewEnds(u, H1, H, src, end) ==
    \A a \in H1 \cap ParentWords : \/ a \in H /\ a \notin src .. end - 1
                                   \/ getOpcode(u[a]) \notin Ends

\* What is written between the ends of the patched script leaves the scripts what they are.
LEMMA ScriptKept ==
    ASSUME NEW m, NEW H, CodeOK(m, H), ScriptOK(m, H),
           NEW src \in Nat, NEW end \in Nat, Parent <= src, end <= ParentEnd,
           NEW u, Elsewhere(u, m, src, end),
           NEW H1, AddressesKept(H1, H, src, end), NoNewEnds(u, H1, H, src, end)
    PROVE  ScriptOK(u, H1)
<1>a. \A x \in (1 .. Len(m)) \ (src .. end - 1) : u[x] = m[x]
  BY DEF Elsewhere
<1>b. src \in H1 /\ \A a \in H : a \notin src .. end - 1 => a \in H1
  BY DEF AddressesKept
<1>1. Parent \in H /\ ParentEnd \in H /\ Parent \in Nat /\ ParentEnd \in Nat
  BY InstructionAt DEF ScriptOK
<1>2. \A a \in H : a \in 1 .. Len(m)
  BY DEF CodeOK
<1>3. \A a \in H \ ParentWords : a \in H1 /\ u[a] = m[a]
  <2> SUFFICES ASSUME NEW a \in H \ ParentWords PROVE a \in H1 /\ u[a] = m[a]
    OBVIOUS
  <2>1. a \notin src .. end - 1
    BY <1>1 DEF ParentWords
  <2> QED BY <1>2, <1>a, <1>b, <2>1
<1>4. Parent \in H1
  <2>1. CASE Parent = src
    BY <1>b, <2>1
  <2>2. CASE Parent # src
    <3>1. Parent \notin src .. end - 1
      BY <1>1, <2>2
    <3> QED BY <1>1, <1>b, <3>1
  <2> QED BY <2>1, <2>2
<1>5. ParentEnd \in H1 /\ u[ParentEnd] = m[ParentEnd]
  <2>1. ParentEnd \notin src .. end - 1
    BY <1>1
  <2> QED BY <1>1, <1>2, <1>a, <1>b, <2>1
<1>6. ASSUME NEW a \in H1, a \in ParentWords, a # ParentEnd PROVE getOpcode(u[a]) \notin Ends
  <2>1. CASE a \in H /\ a \notin src .. end - 1
    <3>1. u[a] = m[a]
      BY <1>2, <1>a, <2>1
    <3> QED BY <1>6, <2>1, <3>1 DEF ScriptOK
  <2>2. CASE ~(a \in H /\ a \notin src .. end - 1)
    BY <1>6, <2>2 DEF NoNewEnds
  <2> QED BY <2>1, <2>2
<1>7. Children \subseteq H1 \ ParentWords /\ Replacements \subseteq H1 \ ParentWords
  BY <1>3 DEF ScriptOK
<1>8. \A r \in Replacements : u[r] # 0 /\ getOpcode(u[r]) \notin Ends
  BY <1>3 DEF ScriptOK
<1>9. Parent <= ParentEnd /\ getOpcode(u[ParentEnd]) = EvtEnd
  BY <1>5 DEF ScriptOK
<1> QED BY <1>4, <1>5, <1>6, <1>7, <1>8, <1>9 DEF ScriptOK

\* Lines lie in the patched script, and only the last ends it.
LEMMA LinesWithin ==
    ASSUME NEW m, NEW H, CodeOK(m, H), ScriptOK(m, H), NEW lines, NEW ads,
           LinesOK(m, H, lines, ads, Parent), NEW k \in 1 .. Len(lines), k < Len(lines)
    PROVE  /\ Len(lines) \in Nat /\ k + 1 \in 1 .. Len(lines)
           /\ ads[k] \in H /\ ads[k] \in Nat /\ Parent <= ads[k] /\ ads[k] < ParentEnd
           /\ ads[k + 1] \in H /\ ads[k + 1] \in Nat /\ ads[k + 1] <= ParentEnd
           /\ ads[k] < ads[k + 1] /\ Parent \in Nat /\ ParentEnd \in Nat
           /\ getOpcode(m[ads[k]]) \notin Ends
           /\ After(m, ads[k]) \in H /\ After(m, ads[k]) <= ads[k + 1]
<1>1. Len(lines) \in Nat
  BY LenProperties DEF LinesOK
<1>2. k + 1 \in 1 .. Len(lines) /\ k < k + 1 /\ Len(lines) \in 1 .. Len(lines)
  BY <1>1
<1>3. /\ ads[k] \in H /\ ads[k + 1] \in H /\ ads[k] \in ParentWords /\ ads[k + 1] \in ParentWords
  BY <1>2 DEF LinesOK
<1>4. ads[k] < ads[k + 1]
  BY <1>2 DEF LinesOK
<1>5. /\ Parent \in Nat /\ ParentEnd \in Nat /\ ads[k] \in Nat /\ ads[k + 1] \in Nat
  <2>1. \A a \in H : a \in Nat
    BY InstructionAt
  <2> QED BY <1>3, <2>1 DEF ScriptOK
<1>6. Parent <= ads[k] /\ ads[k] < ParentEnd /\ ads[k + 1] <= ParentEnd
  BY <1>3, <1>4, <1>5 DEF ParentWords
<1>7. getOpcode(m[ads[k]]) \notin Ends
  <2>1. ads[k] # ParentEnd
    BY <1>5, <1>6
  <2> QED BY <1>3, <2>1 DEF ScriptOK
<1>8. After(m, ads[k]) \in H /\ After(m, ads[k]) <= ads[k + 1]
  BY <1>3, <1>4, <1>7 DEF CodeOK
<1> QED BY <1>1, <1>2, <1>3, <1>4, <1>5, <1>6, <1>7, <1>8

\* A call written in place of lines i to k; m0 is the memory with a forwarder, if one is used.
LEMMA CallReplaces ==
    ASSUME NEW m, NEW H, CodeOK(m, H), ScriptOK(m, H),
           NEW lines, NEW ads, LinesOK(m, H, lines, ads, Parent),
           NEW i \in 1 .. Len(lines) - 1, NEW k \in i .. Len(lines) - 1,
           NEW src, src = ads[i], NEW end \in H, src + 2 <= end,
           EndsAt(m, ads[k], end, ads[k + 1]),
           NEW m0, NEW H0, CodeOK(m0, H0), Len(m) <= Len(m0), \A x \in 1 .. Len(m) : m0[x] = m[x],
           H \subseteq H0, H0 \cap ParentWords \subseteq H,
           NEW script \in H0 \ ParentWords, NEW u, CallPut(u, m0, src, end, script),
           NEW line, line.words = 2
    PROVE  /\ CodeOK(u, HeadsPut(H0, src, end)) /\ ScriptOK(u, HeadsPut(H0, src, end))
           /\ LinesOK(u, HeadsPut(H0, src, end), Splice(lines, i, k, line),
                      Shifted(ads, i, k, Len(lines)), Parent)
<1> DEFINE H1 == HeadsPut(H0, src, end)
<1>0. Len(lines) \in Nat
  BY LenProperties DEF LinesOK
<1>1. /\ i \in 1 .. Len(lines) /\ i < Len(lines) /\ k \in 1 .. Len(lines) /\ k < Len(lines)
  BY <1>0
<1>2. /\ src \in H /\ src \in Nat /\ Parent <= src /\ Parent \in Nat /\ ParentEnd \in Nat
  BY <1>1, LinesWithin
<1>3. ads[k + 1] <= ParentEnd /\ ads[k + 1] \in Nat /\ ads[k] \in H
  BY <1>1, LinesWithin
<1>4. end \in Nat /\ Len(m) \in Nat /\ src \in 1 .. Len(m) /\ end \in 1 .. Len(m)
      /\ After(m, ads[k]) \in Nat
  <2>1. end \in 1 .. Len(m) /\ Len(m) \in Nat
    BY InstructionAt
  <2>2. src \in 1 .. Len(m)
    BY <1>2, InstructionAt
  <2>3. After(m, ads[k]) \in Nat
    BY <1>3, InstructionAt
  <2> QED BY <2>1, <2>2, <2>3
<1>5. end <= ParentEnd /\ src .. end - 1 \subseteq ParentWords
  <2>1. end <= ads[k + 1]
    BY DEF EndsAt
  <2>2. \A x, y, z \in Nat : x <= y /\ y <= z => x <= z
    OBVIOUS
  <2>3. end <= ParentEnd
    BY <1>2, <1>3, <1>4, <2>1, <2>2
  <2>4. src .. end - 1 \subseteq Parent .. ParentEnd
    BY <1>2, <1>4, <2>3, SMTT(30)
  <2> QED BY <2>3, <2>4 DEF ParentWords
<1>6. Len(m0) \in Nat
  BY LenProperties DEF CodeOK
<1>7. CodeOK(u, H1)
  BY <1>2, <1>5, CallKeepsCode
<1>8. /\ \A x \in (1 .. Len(m)) \ (src .. end - 1) : u[x] = m[x]
      /\ \A x \in src + 2 .. end - 1 : u[x] = 0
      /\ u[src] = Word(Call, 1)
  <2>1. ASSUME NEW x \in (1 .. Len(m)) \ (src .. end - 1) PROVE u[x] = m[x]
    <3>1. x \in 1 .. Len(m0) /\ x # src /\ x # src + 1
      BY <1>4, <1>6
    <3>2. u[x] = m0[x]
      BY <3>1 DEF CallPut
    <3> QED BY <3>2
  <2>2. ASSUME NEW x \in src + 2 .. end - 1 PROVE u[x] = 0
    <3>1. x \in 1 .. Len(m0) /\ x # src /\ x # src + 1 /\ x \in src .. end - 1
      BY <1>4, <1>6
    <3> QED BY <3>1 DEF CallPut
  <2>3. src \in 1 .. Len(m0)
    BY <1>4, <1>6
  <2>4. u[src] = Word(Call, 1)
    BY <2>3 DEF CallPut
  <2> QED BY <2>1, <2>2, <2>4
<1>9. /\ src \in H1
      /\ \A a \in H : a \notin src .. end - 1 => a \in H1
      /\ \A a \in H1 : (a \in H0 /\ a \notin src .. end - 1) \/ a = src \/ a \in src + 2 .. end - 1
  BY DEF HeadsPut
<1> HIDE DEF H1
<1>10. ScriptOK(u, H1)
  <2>1. ASSUME NEW a \in H1 \cap ParentWords
        PROVE  (a \in H /\ a \notin src .. end - 1) \/ getOpcode(u[a]) \notin Ends
    <3>1. CASE a \in H0 /\ a \notin src .. end - 1
      BY <3>1
    <3>2. CASE a = src
      BY <1>8, <3>2, WrittenWords, Opcodes
    <3>3. CASE a \in src + 2 .. end - 1
      BY <1>8, <3>3, WrittenWords, Opcodes
    <3> QED BY <1>9, <3>1, <3>2, <3>3
  <2>2. NoNewEnds(u, H1, H, src, end)
    BY <2>1 DEF NoNewEnds
  <2>3. Elsewhere(u, m, src, end)
    BY <1>8 DEF Elsewhere
  <2>4. AddressesKept(H1, H, src, end)
    BY <1>9 DEF AddressesKept
  <2> QED BY <1>2, <1>4, <1>5, <2>2, <2>3, <2>4, ScriptKept
<1>11. LinesOK(u, H1, Splice(lines, i, k, line), Shifted(ads, i, k, Len(lines)), Parent)
  <2>1. getInstructionLength(u[src]) = 2 /\ u[src] # 0 /\ After(u, src) = src + 2
    BY <1>8, WrittenWords DEF After
  <2>2. InstructionIn(u, m, src, end)
    <3>1. After(u, src) <= end /\ getInstructionLength(u[src]) \in Nat
      BY <2>1
    <3>2. \A b \in After(u, src) .. end - 1 : u[b] = 0
      BY <1>8, <2>1
    <3> QED BY <1>8, <2>1, <3>1, <3>2 DEF InstructionIn
  <2>3. AddressesKept(H1, H, src, end)
    BY <1>9 DEF AddressesKept
  <2>4. line.words = getInstructionLength(u[src]) /\ (line.words < 2 => ads[k + 1] = src + 1)
    BY <2>1
  <2> QED BY <1>4, <2>2, <2>3, <2>4, BlockReplaced
<1> QED BY <1>7, <1>10, <1>11 DEF H1

\* u is m with the words of the instruction at from copied over those of the one at src.
InstructionPut(u, m, src, from) ==
    /\ u \in Seq(Nat) /\ Len(u) = Len(m)
    /\ \A x \in 1 .. Len(m) : u[x] = IF x \in src .. After(m, src) - 1 THEN m[from + (x - src)] ELSE m[x]

LEMMA InstructionIsPut ==
    ASSUME NEW m, NEW H, CodeOK(m, H), NEW src \in H, NEW from \in H,
           getInstructionLength(m[src]) = getInstructionLength(m[from])
    PROVE  InstructionPut(Write(Write(m, src, Cleared(m, src, getInstructionLength(m[src]))),
                                src, Words(m, from, getInstructionLength(m[from]))),
                          m, src, from)
<1> DEFINE n == getInstructionLength(m[src])
           z == Cleared(m, src, n)
           w == Words(m, from, n)
           u == Write(m, src, z)
           v == Write(u, src, w)
<1>1. /\ m \in Seq(Nat) /\ Len(m) \in Nat /\ src \in 1 .. Len(m) /\ from \in 1 .. Len(m)
      /\ n \in Nat /\ n >= 1 /\ from + n <= Len(m) + 1 /\ src + n <= Len(m) + 1
      /\ After(m, src) = src + n
  <2>1. from + n <= Len(m) + 1
    BY InstructionAt DEF After
  <2>2. src + n <= Len(m) + 1
    BY InstructionAt DEF After
  <2> QED BY <2>1, <2>2, InstructionAt DEF CodeOK, After
<1>2. z \in Seq(Nat) /\ Len(z) \in Nat /\ Len(z) <= n
  <2> DEFINE q == n \div 4
             word(i) == IF i <= q THEN 0
                        ELSE IF n % 4 > 1 THEN getOpcode(m[src + i - 1]) ELSE m[src + i - 1]
  <2>1. q \in Nat /\ q + 1 <= n
    <3> HIDE DEF n
    <3> QED BY <1>1
  <2>2. z = [i \in 1 .. q + 1 |-> word(i)]
    BY DEF Cleared
  <2> HIDE DEF z, n, q
  <2>3. ASSUME NEW i \in 1 .. q + 1
        PROVE  word(i) \in Nat
    <3>1. src + i - 1 \in 1 .. Len(m)
      BY <1>1, <2>1
    <3>2. m[src + i - 1] \in Nat
      BY <1>1, <3>1, ElementOfSeq
    <3>3. getOpcode(m[src + i - 1]) \in Nat
      BY <3>2 DEF getOpcode
    <3> QED BY <3>2, <3>3
  <2> HIDE DEF word
  <2>4. z \in Seq(Nat)
    BY <2>1, <2>2, <2>3
  <2>5. Len(z) = q + 1
    BY <2>1, <2>2
  <2> QED BY <2>1, <2>4, <2>5
<1>3. w \in Seq(Nat) /\ Len(w) = n /\ \A i \in 1 .. n : w[i] = m[from + i - 1]
  <2> DEFINE t == from + n - 1
  <2>1. w = SubSeq(m, from, t)
    BY DEF Words
  <2>2. t \in Nat /\ t <= Len(m) /\ from <= t /\ t - from + 1 = n
    <3> HIDE DEF n
    <3> QED BY <1>1
  <2> HIDE DEF t, w, n
  <2>3. \A i \in from .. t : m[i] \in Nat
    BY <1>1, <2>2, ElementOfSeq
  <2>4. /\ SubSeq(m, from, t) \in Seq(Nat)
        /\ Len(SubSeq(m, from, t)) = (IF from <= t THEN t - from + 1 ELSE 0)
        /\ \A i \in 1 .. t - from + 1 : SubSeq(m, from, t)[i] = m[from + i - 1]
    <3>1. from \in Int /\ t \in Int
      BY <1>1, <2>2
    <3> QED BY <2>3, <3>1, SubSeqProperties
  <2> QED BY <2>1, <2>2, <2>4
<1> HIDE DEF z, w
<1>4. Wrote(u, m, src, z)
  BY <1>1, <1>2, WriteWrites
<1>5. u \in Seq(Nat)
  BY <1>4 DEF Wrote
<1> HIDE DEF u
<1>6. Wrote(v, u, src, w)
  BY <1>1, <1>3, <1>5, WriteWrites
<1> HIDE DEF v, n
<1>7. ASSUME NEW x \in 1 .. Len(m)
      PROVE  v[x] = IF x \in src .. src + n - 1 THEN m[from + (x - src)] ELSE m[x]
  <2>1. x \in Nat /\ x >= 1
    BY <1>1
  <2>2. v[x] = IF x \in src .. src + n - 1 THEN w[x - src + 1] ELSE u[x]
    BY <1>3, <1>4, <1>6 DEF Wrote
  <2>3. CASE x \in src .. src + n - 1
    <3>1. x - src + 1 \in 1 .. n /\ from + (x - src + 1) - 1 = from + (x - src)
      BY <1>1, <2>1, <2>3
    <3> QED BY <1>3, <2>2, <2>3, <3>1
  <2>4. CASE x \notin src .. src + n - 1
    <3>1. x \notin src .. src + Len(z) - 1
      BY <1>1, <1>2, <2>1, <2>4
    <3>2. u[x] = m[x]
      BY <1>4, <3>1 DEF Wrote
    <3> QED BY <2>2, <2>4, <3>2
  <2> QED BY <2>3, <2>4
<1>8. v \in Seq(Nat) /\ Len(v) = Len(m)
  BY <1>4, <1>6 DEF Wrote
<1>9. InstructionPut(v, m, src, from)
  BY <1>1, <1>7, <1>8 DEF InstructionPut
<1> QED BY <1>9 DEF v, u, w, z, n

\* An instruction of the same length leaves code, and the line it replaces its place.
LEMMA InstructionReplaces ==
    ASSUME NEW m, NEW H, CodeOK(m, H), ScriptOK(m, H),
           NEW lines, NEW ads, LinesOK(m, H, lines, ads, Parent),
           NEW i \in 1 .. Len(lines) - 1, NEW src, src = ads[i],
           NEW from \in Replacements, getInstructionLength(m[src]) = getInstructionLength(m[from]),
           NEW u, InstructionPut(u, m, src, from),
           NEW line, line.words = getInstructionLength(m[from])
    PROVE  /\ CodeOK(u, H) /\ ScriptOK(u, H)
           /\ LinesOK(u, H, Splice(lines, i, i, line), Shifted(ads, i, i, Len(lines)), Parent)
<1> DEFINE end == After(m, src)
<1>0. Len(lines) \in Nat
  BY LenProperties DEF LinesOK
<1>1. i \in 1 .. Len(lines) /\ i < Len(lines) /\ i \in i .. Len(lines) - 1
  BY <1>0
<1>2. /\ src \in H /\ src \in Nat /\ Parent <= src /\ Parent \in Nat /\ ParentEnd \in Nat
      /\ src < ParentEnd /\ end \in H /\ end <= ads[i + 1] /\ ads[i + 1] <= ParentEnd
      /\ ads[i + 1] \in Nat
  BY <1>1, LinesWithin
<1>3. /\ m \in Seq(Nat) /\ Len(m) \in Nat /\ src \in 1 .. Len(m) /\ end \in Nat /\ src < end
      /\ getInstructionLength(m[src]) \in Nat /\ getInstructionLength(m[src]) >= 1
  BY <1>2, InstructionAt DEF CodeOK
<1>4. /\ from \in H /\ from \notin ParentWords /\ m[from] # 0 /\ getOpcode(m[from]) \notin Ends
  BY DEF ScriptOK
<1>5. u \in Seq(Nat) /\ Len(u) = Len(m)
  BY DEF InstructionPut
<1>6. Elsewhere(u, m, src, end)
  BY DEF InstructionPut, Elsewhere
<1>7. \A x \in (1 .. Len(m)) \ (src .. end - 1) : u[x] = m[x]
  BY <1>6 DEF Elsewhere
<1>8. u[src] = m[from] /\ After(u, src) = end
  <2>1. src \in src .. end - 1 /\ from + (src - src) = from
    <3>1. from \in Nat
      BY <1>4, InstructionAt
    <3> HIDE DEF end
    <3> QED BY <1>3, <3>1
  <2>2. u[src] = m[from]
    BY <1>3, <2>1 DEF InstructionPut
  <2> QED BY <2>2 DEF After
<1>9. getInstructionLength(m[from]) >= 2 => u[src + 1] = m[from + 1]
  <2> SUFFICES ASSUME getInstructionLength(m[src]) >= 2 PROVE u[src + 1] = m[from + 1]
    OBVIOUS
  <2>1. from \in Nat /\ end \in 1 .. Len(m)
    <3>1. \A a \in H : a \in Nat /\ a \in 1 .. Len(m)
      BY InstructionAt
    <3> QED BY <1>2, <1>4, <3>1
  <2>2. end >= src + 2
    BY <1>3 DEF After
  <2> HIDE DEF end
  <2>3. src + 1 \in src .. end - 1 /\ src + 1 \in 1 .. Len(m)
    <3>1. src \in Nat /\ src >= 1 /\ end \in Nat /\ Len(m) \in Nat /\ end <= Len(m)
      BY <1>3, <2>1
    <3>2. \A a, b, c \in Nat : a >= 1 /\ b <= c /\ b >= a + 2 => a + 1 \in a .. b - 1 /\ a + 1 \in 1 .. c
      OBVIOUS
    <3> QED BY <2>2, <3>1, <3>2
  <2>4. from + ((src + 1) - src) = from + 1
    BY <1>3, <2>1
  <2> QED BY <2>3, <2>4 DEF InstructionPut, end
<1>10. ASSUME NEW a \in H
       PROVE  /\ After(u, a) = After(m, a) /\ After(m, a) <= Len(u) + 1
              /\ getOpcode(u[a]) \notin Ends => After(u, a) \in H
              /\ getOpcode(u[a]) \in {Lbl, Goto, Call} => getInstructionLength(u[a]) >= 2
              /\ getOpcode(u[a]) = Call => u[a + 1] \in H \ ParentWords
  <2>1. /\ a \in 1 .. Len(m) /\ After(m, a) \in Nat /\ After(m, a) <= Len(m) + 1
        /\ getInstructionLength(m[a]) \in Nat
    BY InstructionAt
  <2>2. CASE a = src
    <3>1. getOpcode(m[from]) \in {Lbl, Goto, Call} => getInstructionLength(m[from]) >= 2
      BY <1>4 DEF CodeOK
    <3>2. getOpcode(m[from]) = Call => m[from + 1] \in H \ ParentWords
      BY <1>4 DEF CodeOK
    <3>3. getOpcode(m[from]) = Call => getInstructionLength(m[from]) >= 2
      BY <3>1
    <3>4. After(u, a) \in H /\ After(u, a) = After(m, a)
      BY <1>2, <1>8, <2>2
    <3> QED BY <1>5, <1>8, <1>9, <2>1, <2>2, <3>1, <3>2, <3>3, <3>4
  <2>3. CASE a # src
    <3>1. a < src => After(m, a) <= src
      BY <1>2 DEF CodeOK
    <3>2. src < a => end <= a
      BY <1>2 DEF CodeOK
    <3>3. a \notin src .. end - 1
      <4> HIDE DEF end
      <4> QED BY <1>3, <2>1, <2>3, <3>2
    <3>4. u[a] = m[a] /\ After(u, a) = After(m, a)
      BY <1>7, <2>1, <3>3 DEF After
    <3>5. ASSUME getInstructionLength(m[a]) >= 2 PROVE u[a + 1] = m[a + 1]
      <4>1. a + 2 <= After(m, a)
        BY <2>1, <3>5 DEF After
      <4>2. a + 1 \in 1 .. Len(m)
        BY <1>3, <2>1, <4>1
      <4>3. a + 1 \notin src .. end - 1
        <5> HIDE DEF end
        <5> QED BY <1>3, <2>1, <2>3, <3>1, <3>2, <4>1, SMTT(30)
      <4> QED BY <1>7, <4>2, <4>3
    <3>6. getOpcode(m[a]) \notin Ends => After(m, a) \in H
      BY DEF CodeOK
    <3>7. getOpcode(m[a]) \in {Lbl, Goto, Call} => getInstructionLength(m[a]) >= 2
      BY DEF CodeOK
    <3>8. getOpcode(m[a]) = Call => m[a + 1] \in H \ ParentWords
      BY DEF CodeOK
    <3> QED BY <1>5, <2>1, <3>4, <3>5, <3>6, <3>7, <3>8
  <2> QED BY <2>2, <2>3
<1>11. CodeOK(u, H)
  <2>1. \A a, b \in H : a < b => After(u, a) <= b
    BY <1>10 DEF CodeOK
  <2>2. H \subseteq 1 .. Len(u)
    BY <1>5 DEF CodeOK
  <2> QED BY <1>5, <1>10, <2>1, <2>2 DEF CodeOK
<1>12. AddressesKept(H, H, src, end)
  BY <1>2 DEF AddressesKept
<1>13. ScriptOK(u, H)
  <2>1. ASSUME NEW a \in H \cap ParentWords
        PROVE  (a \in H /\ a \notin src .. end - 1) \/ getOpcode(u[a]) \notin Ends
    <3>1. CASE a = src
      BY <1>4, <1>8, <3>1
    <3>2. CASE a # src
      <4>1. a \in Nat
        BY InstructionAt
      <4>2. src < a => end <= a
        BY <1>2 DEF CodeOK
      <4>3. a \notin src .. end - 1
        <5> HIDE DEF end
        <5> QED BY <1>3, <3>2, <4>1, <4>2
      <4> QED BY <4>3
    <3> QED BY <3>1, <3>2
  <2>2. NoNewEnds(u, H, H, src, end)
    BY <2>1 DEF NoNewEnds
  <2>3. end <= ParentEnd
    <3> HIDE DEF end
    <3> QED BY <1>2, <1>3
  <2> HIDE DEF end
  <2> QED BY <1>2, <1>3, <1>6, <1>12, <2>2, <2>3, ScriptKept
<1>14. LinesOK(u, H, Splice(lines, i, i, line), Shifted(ads, i, i, Len(lines)), Parent)
  <2>1. EndsAt(m, ads[i], end, ads[i + 1])
    <3>1. \A b \in After(m, ads[i]) .. ads[i + 1] - 1 : m[b] = 0
      BY DEF LinesOK
    <3>2. After(m, ads[i]) <= end
      <4>1. After(m, ads[i]) = end
        OBVIOUS
      <4> HIDE DEF end
      <4> QED BY <1>3, <4>1
    <3> QED BY <1>2, <3>1, <3>2 DEF EndsAt
  <2>2. InstructionIn(u, m, src, end)
    <3>1. getInstructionLength(u[src]) \in Nat /\ u[src] # 0
      BY <1>3, <1>4, <1>8
    <3>2. After(u, src) <= end
      <4> HIDE DEF end
      <4> QED BY <1>3, <1>8
    <3>3. \A b \in After(u, src) .. end - 1 : FALSE
      <4> HIDE DEF end
      <4> QED BY <1>3, <1>8
    <3> QED BY <1>7, <3>1, <3>2, <3>3 DEF InstructionIn
  <2>3. line.words = getInstructionLength(u[src])
    BY <1>8
  <2>4. line.words < 2 => ads[i + 1] = src + 1
    <3>1. lines[i].words = getInstructionLength(m[ads[i]])
      BY <1>1 DEF LinesOK
    <3>2. line.words = lines[i].words
      BY <3>1
    <3> QED BY <3>2 DEF LinesOK
  <2> HIDE DEF end
  <2> QED BY <1>1, <1>3, <1>12, <2>1, <2>2, <2>3, <2>4, BlockReplaced
<1> QED BY <1>11, <1>13, <1>14
-----------------------------------------------------------------------------
(* The room a call takes.                                                  *)

\* The loop of getInstructionBlockLength, when g is what it comes to.
LengthStep(m, at, limit, g) ==
    [n \in Nat |-> IF n >= limit THEN n ELSE g[n + getInstructionLength(m[at + n])]]

LEMMA BlockLength ==
    ASSUME NEW m \in Seq(Nat), NEW at \in 1 .. Len(m), at + 1 \in 1 .. Len(m)
    PROVE  getInstructionBlockLength(m, at, 2) =
             IF getInstructionLength(m[at]) >= 2 THEN getInstructionLength(m[at])
             ELSE 1 + getInstructionLength(m[at + 1])
<1> DEFINE l0 == getInstructionLength(m[at])
           l1 == getInstructionLength(m[at + 1])
           g == [n \in Nat |-> IF n >= 2 THEN n
                               ELSE IF n = 1 THEN 1 + l1
                               ELSE IF l0 >= 2 THEN l0 ELSE 1 + l1]
           h == CHOOSE f : f = LengthStep(m, at, 2, f)
<1>1. l0 \in Nat /\ l0 >= 1 /\ l1 \in Nat /\ l1 >= 1 /\ at + 0 = at
  <2>1. m[at] \in Nat /\ m[at + 1] \in Nat /\ at \in Nat
    BY ElementOfSeq, LenProperties
  <2>2. l0 \in Nat /\ l0 >= 1
    BY <2>1, Lengths
  <2>3. l1 \in Nat /\ l1 >= 1
    BY <2>1, Lengths
  <2>4. at + 0 = at
    BY <2>1
  <2> QED BY <2>2, <2>3, <2>4
<1> HIDE DEF l0, l1
<1>2. /\ \A n \in Nat : n >= 2 => g[n] = n
      /\ g[1] = 1 + l1 /\ g[0] = (IF l0 >= 2 THEN l0 ELSE 1 + l1)
      /\ g = [n \in Nat |-> g[n]]
  OBVIOUS
<1> HIDE DEF g
<1>3. \A n \in Nat : g[n] = IF n >= 2 THEN n ELSE g[n + getInstructionLength(m[at + n])]
  <2> SUFFICES ASSUME NEW n \in Nat, n < 2
               PROVE  g[n] = g[n + getInstructionLength(m[at + n])]
    BY <1>2
  <2>1. CASE n = 0
    <3>1. getInstructionLength(m[at + n]) = l0 /\ n + l0 = l0
      BY <1>1, <2>1 DEF l0
    <3>2. CASE l0 >= 2
      BY <1>1, <1>2, <2>1, <3>1, <3>2
    <3>3. CASE ~(l0 >= 2)
      <4>1. l0 = 1
        BY <1>1, <3>3
      <4> QED BY <1>2, <2>1, <3>1, <3>3, <4>1
    <3> QED BY <3>2, <3>3
  <2>2. CASE n = 1
    <3>1. getInstructionLength(m[at + n]) = l1 /\ n + l1 = 1 + l1 /\ 1 + l1 \in Nat /\ 1 + l1 >= 2
      BY <1>1, <2>2 DEF l1
    <3> QED BY <1>2, <2>2, <3>1
  <2> QED BY <2>1, <2>2
<1>4. g = LengthStep(m, at, 2, g)
  BY <1>2, <1>3 DEF LengthStep
<1>5. h = LengthStep(m, at, 2, h)
  BY <1>4
<1>6. getInstructionBlockLength(m, at, 2) = h[l0]
  BY DEF getInstructionBlockLength, LengthStep, l0
<1> HIDE DEF h
<1>7. \A n \in Nat : h[n] = IF n >= 2 THEN n ELSE h[n + getInstructionLength(m[at + n])]
  BY <1>5 DEF LengthStep
<1>8. CASE l0 >= 2
  BY <1>1, <1>6, <1>7, <1>8 DEF l0
<1>9. CASE ~(l0 >= 2)
  <2>1. l0 = 1 /\ 1 \in Nat /\ ~(1 >= 2) /\ 1 + l1 \in Nat /\ 1 + l1 >= 2
    BY <1>1, <1>9
  <2>2. h[1] = h[1 + l1]
    BY <1>7, <2>1 DEF l1
  <2>3. h[1 + l1] = 1 + l1
    BY <1>7, <2>1
  <2> QED BY <1>6, <1>9, <2>1, <2>2, <2>3 DEF l0, l1
<1> QED BY <1>8, <1>9

\* The instructions that hookEvt and hookEvtReplace move or drop are those of the lines whose
\* words the call takes.
LEMMA RoomForCall ==
    ASSUME NEW m, NEW H, CodeOK(m, H), ScriptOK(m, H),
           NEW lines, NEW ads, LinesOK(m, H, lines, ads, Parent),
           NEW i \in 1 .. Len(lines), NEW k, k = LastCovered(lines, i), k < Len(lines),
           NEW src, src = ads[i],
           NEW len, len = getInstructionBlockLength(m, src, TRAMPOLINE_CALL_LENGTH)
    PROVE  /\ i \in 1 .. Len(lines) - 1 /\ k \in i .. Len(lines) - 1
           /\ src \in H /\ len \in Nat /\ len >= 2 /\ src + len \in H
           /\ src + len = After(m, ads[k])
           /\ EndsAt(m, ads[k], src + len, ads[k + 1])
<1>0. Len(lines) \in Nat
  BY LenProperties DEF LinesOK
<1>1. k = (IF lines[i].words < 2 THEN i + 1 ELSE i) /\ i \in Nat
  BY DEF LastCovered, TRAMPOLINE_CALL_LENGTH
<1>2. i \in 1 .. Len(lines) - 1 /\ k \in i .. Len(lines) - 1 /\ k \in 1 .. Len(lines)
      /\ i < Len(lines) /\ i \in 1 .. Len(lines) - 1
  BY <1>0, <1>1
<1>3. /\ src \in H /\ src \in Nat /\ After(m, src) \in H /\ getOpcode(m[src]) \notin Ends
  BY <1>2, LinesWithin
<1>4. /\ m \in Seq(Nat) /\ Len(m) \in Nat /\ src \in 1 .. Len(m)
      /\ getInstructionLength(m[src]) \in Nat /\ getInstructionLength(m[src]) >= 1
      /\ After(m, src) \in 1 .. Len(m)
  <2>1. After(m, src) \in 1 .. Len(m)
    BY <1>3, InstructionAt
  <2> QED BY <1>3, <2>1, InstructionAt DEF CodeOK
<1>5. src + 1 \in 1 .. Len(m)
  BY <1>3, <1>4, SMTT(30) DEF After
<1>6. len = IF getInstructionLength(m[src]) >= 2 THEN getInstructionLength(m[src])
            ELSE 1 + getInstructionLength(m[src + 1])
  BY <1>4, <1>5, BlockLength DEF TRAMPOLINE_CALL_LENGTH
<1>7. lines[i].words = getInstructionLength(m[src])
  BY DEF LinesOK
<1>8. /\ ads[k] \in H /\ After(m, ads[k]) \in H /\ After(m, ads[k]) <= ads[k + 1]
      /\ \A b \in After(m, ads[k]) .. ads[k + 1] - 1 : m[b] = 0
  <2>1. k \in 1 .. Len(lines) /\ k < Len(lines) /\ k \in 1 .. Len(lines) - 1
    BY <1>0, <1>2
  <2>2. \A b \in After(m, ads[k]) .. ads[k + 1] - 1 : m[b] = 0
    BY <2>1 DEF LinesOK
  <2>3. ads[k] \in H /\ After(m, ads[k]) \in H /\ After(m, ads[k]) <= ads[k + 1]
    BY <2>1, LinesWithin
  <2> QED BY <2>2, <2>3
<1>9. len \in Nat /\ len >= 2 /\ src + len = After(m, ads[k])
  <2>1. CASE getInstructionLength(m[src]) >= 2
    <3>1. k = i
      BY <1>1, <1>4, <1>7, <2>1
    <3> QED BY <1>4, <1>6, <2>1, <3>1 DEF After
  <2>2. CASE ~(getInstructionLength(m[src]) >= 2)
    <3>1. k = i + 1 /\ ads[k] = src + 1
      <4>1. k = i + 1 /\ lines[i].words < 2
        BY <1>1, <1>4, <1>7, <2>2
      <4>2. ads[i + 1] = ads[i] + 1
        BY <1>2, <4>1 DEF LinesOK
      <4> QED BY <4>1, <4>2
    <3>2. getInstructionLength(m[src + 1]) \in Nat /\ getInstructionLength(m[src + 1]) >= 1
      BY <1>8, <3>1, InstructionAt
    <3>3. src + (1 + getInstructionLength(m[src + 1])) = (src + 1) + getInstructionLength(m[src + 1])
      BY <1>3, <3>2
    <3> QED BY <1>6, <2>2, <3>1, <3>2, <3>3 DEF After
  <2> QED BY <2>1, <2>2
<1>10. EndsAt(m, ads[k], src + len, ads[k + 1])
  <2>1. After(m, ads[k]) <= After(m, ads[k])
    <3>1. After(m, ads[k]) \in Nat
      BY <1>8, InstructionAt
    <3> QED BY <3>1
  <2> QED BY <1>8, <1>9, <2>1 DEF EndsAt
<1> QED BY <1>2, <1>3, <1>8, <1>9, <1>10
-----------------------------------------------------------------------------
(* The scripts before the first patch.                                     *)

LEMMA ImageIsCode == CodeOK(Image, Heads) /\ ScriptOK(Image, Heads)
<1> DEFINE E == {a \in Heads : a >= Parent /\ getOpcode(Image[a]) = EvtEnd}
<1>1. /\ Image \in Seq(Nat) /\ Len(Image) \in Nat /\ Heads \subseteq 1 .. Len(Image)
      /\ Parent \in Heads
  BY EvtAssumption, LenProperties
<1>2. \A a \in Heads : a \in Nat
  BY <1>1
<1>3. PICK e \in E : \A b \in E : e <= b
  <2>1. E # {}
    BY EvtAssumption
  <2>2. E \in SUBSET Nat
    BY <1>2
  <2> HIDE DEF E
  <2> QED BY <2>1, <2>2, SmallestIn
<1>4. /\ ParentEnd \in Heads /\ Parent <= ParentEnd /\ getOpcode(Image[ParentEnd]) = EvtEnd
      /\ \A b \in Heads : b >= Parent /\ getOpcode(Image[b]) = EvtEnd => ParentEnd <= b
  <2>1. /\ e \in Heads /\ Parent <= e /\ getOpcode(Image[e]) = EvtEnd
        /\ \A b \in Heads : b >= Parent /\ getOpcode(Image[b]) = EvtEnd => e <= b
    BY <1>1, <1>2, <1>3
  <2> QED BY <2>1 DEF ParentEnd
<1>5. ASSUME NEW a \in Heads
      PROVE  /\ After(Image, a) <= Len(Image) + 1
             /\ getOpcode(Image[a]) \notin Ends => After(Image, a) \in Heads
             /\ getOpcode(Image[a]) \in {Lbl, Goto, Call} => getInstructionLength(Image[a]) >= 2
             /\ getOpcode(Image[a]) = Call => Image[a + 1] \in Heads \ ParentWords
             /\ \A b \in Heads : a < b => After(Image, a) <= b
  <2>1. HeadOK(a)
    BY EvtAssumption
  <2>2. /\ After(Image, a) <= Len(Image) + 1
        /\ getOpcode(Image[a]) \notin Ends => After(Image, a) \in Heads
        /\ \A b \in Heads : a < b => After(Image, a) <= b
    BY <2>1 DEF HeadOK, After, Ends
  <2>3. getOpcode(Image[a]) \in {Lbl, Goto, Call} => getNumArgs(Image[a]) > 0
    BY <2>1 DEF HeadOK
  <2>4. getOpcode(Image[a]) = Call => Image[a + 1] \in Children
    BY <2>1 DEF HeadOK
  <2>5. getNumArgs(Image[a]) \in Nat
    <3>1. Image[a] \in Nat
      BY <1>1, ElementOfSeq
    <3> QED BY <3>1 DEF getNumArgs
  <2>6. getNumArgs(Image[a]) > 0 => getInstructionLength(Image[a]) >= 2
    BY <2>5 DEF getInstructionLength
  <2>7. Children \subseteq Heads \ ParentWords
    BY EvtAssumption
  <2> QED BY <2>2, <2>3, <2>4, <2>6, <2>7
<1>6. CodeOK(Image, Heads)
  BY <1>1, <1>5 DEF CodeOK
<1>7. ASSUME NEW a \in Heads, a \in ParentWords, a # ParentEnd
      PROVE  getOpcode(Image[a]) \notin Ends
  <2>1. a \in Nat /\ ParentEnd \in Nat /\ Parent \in Nat
    BY <1>1, <1>2, <1>4
  <2>2. Parent <= a /\ a < ParentEnd
    BY <1>7, <2>1 DEF ParentWords
  <2>3. getOpcode(Image[a]) # EvtEnd
    BY <1>4, <2>1, <2>2
  <2>4. getOpcode(Image[a]) # ReturnFromCall
    BY <1>7, EvtAssumption
  <2> QED BY <2>3, <2>4 DEF Ends
<1>8. /\ Children \subseteq Heads \ ParentWords /\ Replacements \subseteq Heads \ ParentWords
      /\ \A r \in Replacements : Image[r] # 0 /\ getOpcode(Image[r]) \notin Ends
  BY EvtAssumption DEF Ends
<1>9. ScriptOK(Image, Heads)
  BY <1>1, <1>4, <1>7, <1>8 DEF ScriptOK
<1> QED BY <1>6, <1>9

\* Each line is what the instruction at its address says.
SaysWhatIsAt(m, lines, ads) == \A j \in 1 .. Len(lines) : lines[j] = LineAt(m, ads[j])

\* The lines of the patched script are its instructions.
LEMMA FirstLines == \E ads : /\ LinesOK(Image, Heads, LinesOf(Image, Parent), ads, Parent)
                             /\ SaysWhatIsAt(Image, LinesOf(Image, Parent), ads)
<1> DEFINE C == Heads \cap ParentWords
           Has(a) == \E ads : /\ LinesOK(Image, Heads, LinesOf(Image, a), ads, a)
                              /\ SaysWhatIsAt(Image, LinesOf(Image, a), ads)
           S == {n \in Nat : \A a \in C : ParentEnd - a < n => Has(a)}
<1>1. CodeOK(Image, Heads) /\ ScriptOK(Image, Heads)
  BY ImageIsCode
<1>2. /\ ParentEnd \in Nat /\ Parent \in Nat /\ Parent \in C /\ \A a \in C : a \in Nat
      /\ ParentEnd \in C /\ \A a \in C : a <= ParentEnd
  <2>1. \A a \in Heads : a \in Nat
    BY <1>1, InstructionAt
  <2>2. Parent \in Heads /\ ParentEnd \in Heads /\ Parent <= ParentEnd
    BY <1>1 DEF ScriptOK
  <2> QED BY <2>1, <2>2 DEF ParentWords
<1>3. \A a \in C : /\ a \in Heads /\ a \in ParentWords /\ a \in Addresses /\ a \in 1 .. Len(Image)
                   /\ Image[a] # 0 /\ Image[a] \in Nat
                   /\ getInstructionLength(Image[a]) \in Nat
                   /\ After(Image, a) \in Nat /\ After(Image, a) > a
  <2> SUFFICES ASSUME NEW a \in C
               PROVE  /\ a \in Heads /\ a \in ParentWords /\ a \in Addresses /\ a \in 1 .. Len(Image)
                      /\ Image[a] # 0 /\ Image[a] \in Nat
                      /\ getInstructionLength(Image[a]) \in Nat
                      /\ After(Image, a) \in Nat /\ After(Image, a) > a
    OBVIOUS
  <2>1. Image[a] # 0
    BY EvtAssumption
  <2>2. a \in 1 .. Len(Image) /\ a \in Addresses
    BY <1>1, InstructionAt DEF Addresses
  <2> QED BY <1>1, <2>1, <2>2, InstructionAt
<1>4. \A a \in C : LineAt(Image, a).words = getInstructionLength(Image[a])
                   /\ LineAt(Image, a).flow = getOpcode(Image[a])
  BY DEF LineAt
<1>5. 0 \in S
  BY <1>2
<1>6. ASSUME NEW n \in S PROVE n + 1 \in S
  <2> SUFFICES ASSUME NEW a \in C, ParentEnd - a < n + 1 PROVE Has(a)
    BY <1>6
  <2>0. n \in Nat
    BY <1>6
  <2>1. LinesOf(Image, a) = <<LineAt(Image, a)>> \o
           (IF getOpcode(Image[a]) \in Ends THEN <<>> ELSE LinesOf(Image, After(Image, a)))
    <3>1. Image \in Seq(Nat) /\ a \in Addresses /\ ~(a > Len(Image))
      BY <1>1, <1>3, LenProperties DEF CodeOK
    <3> QED BY <3>1, LinesOfStep
  <2> DEFINE l == LineAt(Image, a)
  <2>2. l.words = getInstructionLength(Image[a]) /\ l.flow = getOpcode(Image[a])
    BY <1>4
  <2> HIDE DEF l
  <2>3. CASE a = ParentEnd
    <3> DEFINE ads == [j \in 1 .. 1 |-> a]
    <3>1. getOpcode(Image[a]) = EvtEnd /\ getOpcode(Image[a]) \in Ends
      BY <1>1, <2>3, Opcodes DEF ScriptOK
    <3>2. LinesOf(Image, a) = <<l>> \o <<>>
      BY <2>1, <3>1 DEF l
    <3>3. <<l>> \o <<>> = <<l>> /\ <<l>> \in Seq({l}) /\ Len(<<l>>) = 1 /\ <<l>>[1] = l
      <4>1. <<l>> \in Seq({l})
        OBVIOUS
      <4> QED BY <4>1, ConcatEmptySeq
    <3>4. LinesOK(Image, Heads, <<l>>, ads, a)
      <4> DEFINE lines == <<l>>
      <4>1. Len(lines) = 1 /\ lines[1] = l /\ \E T : lines \in Seq(T)
        BY <3>3
      <4> HIDE DEF lines
      <4>2. ads \in [1 .. 1 -> Heads \cap ParentWords] /\ ads[1] = a
        OBVIOUS
      <4> HIDE DEF ads
      <4>3. \A j \in 1 .. 1 : j = 1
        OBVIOUS
      <4>4. Image[a] # 0
        BY <1>3
      <4>5. LinesOK(Image, Heads, lines, ads, a)
        BY <2>2, <2>3, <3>1, <4>1, <4>2, <4>3, <4>4 DEF LinesOK
      <4> QED BY <4>5 DEF lines
    <3>5. LinesOf(Image, a) = <<l>>
      BY <3>2, <3>3
    <3>6. SaysWhatIsAt(Image, <<l>>, ads)
      <4>1. \A j \in 1 .. 1 : j = 1 /\ ads[j] = a
        OBVIOUS
      <4> QED BY <3>3, <4>1 DEF SaysWhatIsAt, l
    <3> HIDE DEF ads
    <3> QED BY <3>4, <3>5, <3>6
  <2>4. CASE a # ParentEnd
    <3> DEFINE b == After(Image, a)
               rest == LinesOf(Image, b)
               lines == <<l>> \o rest
    <3>1. getOpcode(Image[a]) \notin Ends
      BY <1>1, <1>3, <2>4 DEF ScriptOK
    <3>2. a < ParentEnd
      BY <1>2, <2>4
    <3>3. b \in Heads /\ b <= ParentEnd
      <4>1. b \in Heads
        BY <1>1, <1>3, <3>1 DEF CodeOK
      <4>2. ParentEnd \in Heads
        BY <1>2
      <4>3. b <= ParentEnd
        BY <1>1, <1>3, <3>2, <4>2 DEF CodeOK
      <4> QED BY <4>1, <4>3
    <3>4. b \in C /\ b \in Nat /\ b > a
      <4>1. b \in Nat /\ b > a
        BY <1>3
      <4> HIDE DEF b
      <4>2. Parent <= a
        BY <1>2, <1>3 DEF ParentWords
      <4> QED BY <1>2, <3>3, <4>1, <4>2 DEF ParentWords
    <3>5. Has(b)
      <4>1. ParentEnd - b < n
        <5> HIDE DEF b
        <5> QED BY <1>2, <2>0, <3>4
      <4> QED BY <1>6, <3>4, <4>1
    <3>6. PICK r : LinesOK(Image, Heads, rest, r, b) /\ SaysWhatIsAt(Image, rest, r)
      BY <3>5
    <3> DEFINE w == Len(rest)
               ads == [j \in 1 .. w + 1 |-> IF j = 1 THEN a ELSE r[j - 1]]
    <3>7. LinesOf(Image, a) = lines
      BY <2>1, <3>1 DEF l
    <3>8. PICK T : rest \in Seq(T)
      BY <3>6 DEF LinesOK
    <3> HIDE DEF rest, b
    <3>9. /\ \E U : lines \in Seq(U)
          /\ w \in Nat /\ w >= 1
          /\ Len(lines) = w + 1 /\ lines[1] = l /\ \A j \in 2 .. w + 1 : lines[j] = rest[j - 1]
      <4> DEFINE U == T \cup {l}
      <4>1. T \subseteq U /\ l \in U
        OBVIOUS
      <4> HIDE DEF U
      <4>2. rest \in Seq(U) /\ <<l>> \in Seq(U) /\ Len(<<l>>) = 1 /\ <<l>>[1] = l
        BY <3>8, <4>1, SeqMonotonic
      <4>3. /\ lines \in Seq(U) /\ Len(lines) = Len(<<l>>) + Len(rest)
            /\ \A j \in 1 .. Len(<<l>>) + Len(rest) :
                 lines[j] = IF j <= Len(<<l>>) THEN <<l>>[j] ELSE rest[j - Len(<<l>>)]
        BY <4>2, ConcatProperties
      <4>4. w \in Nat /\ w >= 1
        BY <3>6, <3>8, LenProperties DEF LinesOK
      <4> HIDE DEF lines
      <4>5. Len(lines) = w + 1
        BY <4>2, <4>3, <4>4
      <4>6. lines[1] = l
        BY <4>2, <4>3, <4>4
      <4>7. \A j \in 2 .. w + 1 : lines[j] = rest[j - 1]
        BY <4>2, <4>3, <4>4
      <4> QED BY <4>3, <4>4, <4>5, <4>6, <4>7
    <3> HIDE DEF lines, w
    <3>10. /\ r \in [1 .. w -> Heads \cap ParentWords] /\ r[1] = b /\ r[w] = ParentEnd
           /\ rest[w].flow = EvtEnd
           /\ \A j, k \in 1 .. w : j < k => r[j] < r[k]
           /\ \A j \in 1 .. w : Image[r[j]] # 0 /\ rest[j].words = getInstructionLength(Image[r[j]])
           /\ \A j \in 1 .. w - 1 :
                /\ \A x \in After(Image, r[j]) .. r[j + 1] - 1 : Image[x] = 0
                /\ rest[j].words < 2 => r[j + 1] = r[j] + 1
      BY <3>6 DEF LinesOK, w
    <3>11. /\ ads[1] = a /\ \A j \in 2 .. w + 1 : ads[j] = r[j - 1] /\ j - 1 \in 1 .. w
           /\ ads \in [1 .. w + 1 -> Heads \cap ParentWords]
      <4>1. ads[1] = a
        BY <3>9
      <4>2. \A j \in 2 .. w + 1 : ads[j] = r[j - 1] /\ j - 1 \in 1 .. w
        BY <3>9
      <4>3. \A j \in 1 .. w + 1 : j = 1 \/ j - 1 \in 1 .. w
        BY <3>9
      <4> QED BY <3>10, <4>1, <4>2, <4>3
    <3> HIDE DEF ads
    <3>12. \A j \in 1 .. w + 1 : j = 1 \/ j \in 2 .. w + 1
      BY <3>9
    <3>13. ads[w + 1] = ParentEnd /\ lines[w + 1].flow = EvtEnd
      <4>1. w + 1 \in 2 .. w + 1 /\ (w + 1) - 1 = w
        BY <3>9, SMTT(30)
      <4> QED BY <3>9, <3>10, <3>11, <4>1
    <3>14. \A j \in 1 .. w : r[j] \in Nat /\ r[j] >= b
      <4> SUFFICES ASSUME NEW j \in 1 .. w PROVE r[j] \in Nat /\ r[j] >= b
        OBVIOUS
      <4>0. r[j] \in C
        BY <3>10
      <4>1. r[j] \in Nat /\ 1 \in 1 .. w
        <5>1. r[j] \in Nat
          <6> HIDE DEF C
          <6> QED BY <1>2, <4>0
        <5>2. 1 \in 1 .. w
          BY <3>9
        <5> QED BY <5>1, <5>2
      <4>2. CASE j = 1
        BY <3>4, <3>10, <4>2
      <4>3. CASE j # 1
        <5>1. 1 < j
          BY <3>9, <4>3
        <5>2. r[1] < r[j]
          BY <3>10, <4>1, <5>1
        <5> QED BY <3>4, <3>10, <4>1, <5>2
      <4> QED BY <4>2, <4>3
    <3>15. ASSUME NEW j \in 1 .. w + 1, NEW k \in 1 .. w + 1, j < k PROVE ads[j] < ads[k]
      <4>1. k \in 2 .. w + 1 /\ ads[k] = r[k - 1] /\ k - 1 \in 1 .. w
        BY <3>9, <3>11, <3>15
      <4>2. CASE j = 1
        <5>1. r[k - 1] >= b /\ r[k - 1] \in Nat
          BY <3>14, <4>1
        <5>2. a \in Nat
          BY <1>2
        <5> QED BY <3>4, <3>11, <4>1, <4>2, <5>1, <5>2
      <4>3. CASE j # 1
        <5>1. ads[j] = r[j - 1] /\ j - 1 \in 1 .. w /\ j - 1 < k - 1
          BY <3>9, <3>11, <3>12, <3>15, <4>3, SMTT(30)
        <5> QED BY <3>10, <4>1, <5>1
      <4> QED BY <4>2, <4>3
    <3>16. ASSUME NEW j \in 1 .. w + 1
           PROVE  Image[ads[j]] # 0 /\ lines[j].words = getInstructionLength(Image[ads[j]])
      <4>1. CASE j = 1
        BY <1>3, <2>2, <3>9, <3>11, <4>1
      <4>2. CASE j \in 2 .. w + 1
        BY <3>9, <3>10, <3>11, <4>2, SMTT(30)
      <4> QED BY <3>12, <4>1, <4>2
    <3>17. ASSUME NEW j \in 1 .. (w + 1) - 1
           PROVE  /\ \A x \in After(Image, ads[j]) .. ads[j + 1] - 1 : Image[x] = 0
                  /\ lines[j].words < 2 => ads[j + 1] = ads[j] + 1
      <4>1. j + 1 \in 2 .. w + 1 /\ (j + 1) - 1 = j /\ ads[j + 1] = r[j]
        BY <3>9, <3>11
      <4>2. CASE j = 1
        <5>1. ads[j] = a /\ ads[j + 1] = b /\ lines[j] = l /\ After(Image, a) = b
          BY <3>9, <3>10, <3>11, <4>1, <4>2 DEF b
        <5>2. \A x \in b .. b - 1 : FALSE
          BY <3>4
        <5>3. l.words < 2 => b = a + 1
          <6>1. getInstructionLength(Image[a]) \in Nat /\ getInstructionLength(Image[a]) >= 1
            BY <1>1, <1>3, InstructionAt
          <6> QED BY <2>2, <6>1 DEF b, After
        <5> QED BY <5>1, <5>2, <5>3
      <4>3. CASE j # 1
        <5>1. /\ j \in 2 .. w + 1 /\ ads[j] = r[j - 1] /\ lines[j] = rest[j - 1]
              /\ j - 1 \in 1 .. w - 1 /\ (j - 1) + 1 = j
          BY <3>9, <3>11, <4>3
        <5> QED BY <3>10, <4>1, <5>1
      <4> QED BY <4>2, <4>3
    <3>18. LinesOK(Image, Heads, lines, ads, a)
      <4>1. Len(lines) >= 1
        BY <3>9
      <4> QED BY <3>9, <3>11, <3>13, <3>15, <3>16, <3>17, <4>1 DEF LinesOK
    <3>19. SaysWhatIsAt(Image, lines, ads)
      <4> SUFFICES ASSUME NEW j \in 1 .. w + 1 PROVE lines[j] = LineAt(Image, ads[j])
        BY <3>9 DEF SaysWhatIsAt
      <4>1. CASE j = 1
        BY <3>9, <3>11, <4>1 DEF l
      <4>2. CASE j \in 2 .. w + 1
        BY <3>6, <3>9, <3>11, <4>2 DEF SaysWhatIsAt, w
      <4> QED BY <3>12, <4>1, <4>2
    <3> QED BY <3>7, <3>18, <3>19
  <2> QED BY <2>3, <2>4
<1> HIDE DEF S, Has
<1>7. S = Nat
  <2>1. S \in SUBSET Nat
    BY DEF S
  <2> QED BY <1>5, <1>6, <2>1, SetInduction
<1>8. Has(Parent)
  <2>1. ParentEnd - Parent + 1 \in S
    BY <1>2, <1>7
  <2> QED BY <1>2, <2>1 DEF S
<1> QED BY <1>8 DEF Has
-----------------------------------------------------------------------------
(* The patches.                                                            *)

\* The memory is code, in which the patched script has these lines.
CodeHas(m, lines) ==
    \E H : CodeOK(m, H) /\ ScriptOK(m, H) /\ HasLines(m, H, lines, Parent)

\* The lines that a patch takes are not the last one.
LEMMA TakenBeforeEnd ==
    ASSUME NEW m, NEW H, NEW ads, LinesOK(m, H, evtLines, ads, Parent),
           NEW i \in 1 .. Len(evtLines), NEW k \in Nat, i <= k, NEW kept, Patching(i, k, kept),
           EvtEnd \in kept
    PROVE  k < Len(evtLines)
<1>1. Len(evtLines) \in Nat
  BY LenProperties DEF LinesOK
<1>2. k <= Len(evtLines) /\ \A j \in i .. k : evtLines[j].flow \notin kept
  BY DEF Patching
<1>3. k # Len(evtLines)
  <2>1. evtLines[Len(evtLines)].flow = EvtEnd
    BY DEF LinesOK
  <2>2. k \in i .. k
    BY <1>1
  <2> QED BY <1>2, <2>1, <2>2
<1> QED BY <1>1, <1>2, <1>3

LEMMA CoveredFrom ==
    ASSUME NEW lines, NEW i \in 1 .. Len(lines), Len(lines) \in Nat
    PROVE  LastCovered(lines, i) \in Nat /\ i <= LastCovered(lines, i)
BY DEF LastCovered

\* hookEvtReplace and hookEvtReplaceBlock, which need no forwarder.
LEMMA CallInPlace ==
    ASSUME NEW m, NEW H, CodeOK(m, H), ScriptOK(m, H),
           NEW lines, NEW ads, LinesOK(m, H, lines, ads, Parent),
           NEW i \in 1 .. Len(lines) - 1, NEW k \in i .. Len(lines) - 1,
           NEW src, src = ads[i], NEW end \in H, src + 2 <= end,
           EndsAt(m, ads[k], end, ads[k + 1]),
           NEW child \in Children, NEW line, line.words = 2,
           NEW u, u = Write(Write(m, src, Zeros(end - src)), src, TrampolineCall(child))
    PROVE  /\ CallPut(u, m, src, end, child)
           /\ LaidOut(u, HeadsPut(H, src, end), Splice(lines, i, k, line),
                      Shifted(ads, i, k, Len(lines)))
<1>1. m \in Seq(Nat) /\ Len(m) \in Nat
  BY LenProperties DEF CodeOK
<1>2. src \in Nat /\ end \in Nat /\ child \in Nat /\ child \in H \ ParentWords
  <2>1. child \in H \ ParentWords
    BY DEF ScriptOK
  <2>2. src \in H
    <3>1. i \in 1 .. Len(lines)
      BY LenProperties DEF LinesOK
    <3> QED BY <3>1 DEF LinesOK
  <2>3. src \in Nat /\ end \in Nat
    <3>1. \A a \in H : a \in 1 .. Len(m)
      BY InstructionAt
    <3> QED BY <2>2, <3>1
  <2>4. child \in Nat
    BY <2>1, InstructionAt
  <2> QED BY <2>1, <2>3, <2>4
<1>3. CallPut(u, m, src, end, child)
  BY <1>1, <1>2, CallIsPut
<1>4. Len(m) <= Len(m) /\ (\A x \in 1 .. Len(m) : m[x] = m[x]) /\ H \subseteq H
      /\ H \cap ParentWords \subseteq H
  BY <1>1
<1>5. /\ CodeOK(u, HeadsPut(H, src, end)) /\ ScriptOK(u, HeadsPut(H, src, end))
      /\ LinesOK(u, HeadsPut(H, src, end), Splice(lines, i, k, line),
                 Shifted(ads, i, k, Len(lines)), Parent)
  BY <1>2, <1>3, <1>4, CallReplaces
<1> QED BY <1>3, <1>5 DEF LaidOut

\* hookEvt: the call goes to a forwarder behind memory.
LEMMA CallOfForwarder ==
    ASSUME NEW m, NEW H, CodeOK(m, H), ScriptOK(m, H),
           NEW lines, NEW ads, LinesOK(m, H, lines, ads, Parent),
           NEW i \in 1 .. Len(lines) - 1, NEW k \in i .. Len(lines) - 1,
           NEW src, src = ads[i], NEW end \in H, src + 2 <= end,
           EndsAt(m, ads[k], end, ads[k + 1]),
           NEW child \in Children, NEW line, line.words = 2,
           NEW u, u = Write(Write(m, src, Zeros(end - src)), src, TrampolineCall(Len(m) + 1))
                        \o Forwarder(m, src, end - src, child)
    PROVE  \E m0 : /\ ForwarderBehind(m0, m, src, end, child)
                   /\ CallPut(u, m0, src, end, Len(m) + 1)
                   /\ LaidOut(u, HeadsPut(HeadsBehind(H, Len(m), src, end), src, end),
                              Splice(lines, i, k, line), Shifted(ads, i, k, Len(lines)))
<1> DEFINE v == Write(Write(m, src, Zeros(end - src)), src, TrampolineCall(Len(m) + 1))
           f == Forwarder(m, src, end - src, child)
           m0 == m \o f
           H0 == HeadsBehind(H, Len(m), src, end)
<1>u. u = v \o f
  OBVIOUS
<1>0. Len(lines) \in Nat
  BY LenProperties DEF LinesOK
<1>1. i \in 1 .. Len(lines) /\ i < Len(lines) /\ k \in 1 .. Len(lines) /\ k < Len(lines)
  BY <1>0
<1>2. /\ src \in H /\ src \in Nat /\ Parent <= src /\ Parent \in Nat /\ ParentEnd \in Nat
  BY <1>1, LinesWithin
<1>3. ads[k + 1] <= ParentEnd /\ ads[k + 1] \in Nat
  BY <1>1, LinesWithin
<1>4. /\ m \in Seq(Nat) /\ Len(m) \in Nat /\ src \in 1 .. Len(m) /\ end \in 1 .. Len(m)
      /\ end \in Nat /\ src < end
  <2>1. src \in 1 .. Len(m) /\ Len(m) \in Nat
    BY <1>2, InstructionAt
  <2>2. end \in 1 .. Len(m)
    BY InstructionAt
  <2> QED BY <1>2, <2>1, <2>2 DEF CodeOK
<1>5. end <= ParentEnd
  <2>1. end <= ads[k + 1]
    BY DEF EndsAt
  <2>2. \A x, y, z \in Nat : x <= y /\ y <= z => x <= z
    OBVIOUS
  <2> QED BY <1>2, <1>3, <1>4, <2>1, <2>2
<1>6. child \in H \ ParentWords /\ child \in Nat
  <2>1. child \in H \ ParentWords
    BY DEF ScriptOK
  <2> QED BY <2>1, InstructionAt
<1>7. ParentWords \subseteq 1 .. Len(m)
  <2>1. ParentEnd \in 1 .. Len(m) /\ Parent \in 1 .. Len(m)
    BY InstructionAt DEF ScriptOK
  <2> QED BY <1>4, <2>1 DEF ParentWords
<1>8. \A a \in H \cap (src .. end - 1) : getOpcode(m[a]) \notin Ends
  <2> SUFFICES ASSUME NEW a \in H \cap (src .. end - 1) PROVE getOpcode(m[a]) \notin Ends
    OBVIOUS
  <2>1. a \in ParentWords /\ a # ParentEnd
    BY <1>2, <1>4, <1>5, SMTT(30) DEF ParentWords
  <2> QED BY <2>1 DEF ScriptOK
<1>9. ForwarderBehind(m0, m, src, end, child)
  BY <1>4, <1>6, ForwarderIsBehind
<1>10. f \in Seq(Nat)
  <2>1. end - src \in Nat /\ Word(Call, 1) \in Nat /\ Word(ReturnFromCall, 0) \in Nat
    BY <1>2, <1>4, WrittenWords, SMTT(30)
  <2>2. TrampolineCall(child) \in Seq(Nat) /\ <<Word(ReturnFromCall, 0)>> \in Seq(Nat)
    BY <1>6, <2>1 DEF TrampolineCall
  <2>3. Words(m, src, end - src) \in Seq(Nat)
    <3>1. src + (end - src) - 1 = end - 1
      BY <1>2, <1>4, SMTT(30)
    <3>2. \A x \in src .. end - 1 : m[x] \in Nat
      <4>1. \A x \in src .. end - 1 : x \in 1 .. Len(m)
        BY <1>2, <1>4, SMTT(30)
      <4> QED BY <1>4, <4>1, ElementOfSeq
    <3>3. SubSeq(m, src, end - 1) \in Seq(Nat)
      <4>1. src \in Int /\ end - 1 \in Int
        BY <1>2, <1>4
      <4> QED BY <3>2, <4>1, SubSeqProperties
    <3> QED BY <3>1, <3>3 DEF Words
  <2>4. TrampolineCall(child) \o Words(m, src, end - src) \in Seq(Nat)
    BY <2>2, <2>3, ConcatProperties
  <2> QED BY <2>2, <2>4, ConcatProperties DEF Forwarder
<1>11. CallPut(v, m, src, end, Len(m) + 1)
  <2>1. Len(m) + 1 \in Nat
    BY <1>4
  <2> QED BY <1>2, <1>4, <2>1, CallIsPut
<1> HIDE DEF v, f
<1>12. CallPut(u, m0, src, end, Len(m) + 1)
  BY <1>u, <1>4, <1>10, <1>11, CallPutBefore
<1> HIDE DEF m0
<1>13. CodeOK(m0, H0) /\ Len(m) + 1 \in H0 \ ParentWords
  BY <1>2, <1>4, <1>6, <1>7, <1>8, <1>9, ForwarderKeepsCode
<1>14. Len(m) <= Len(m0) /\ \A x \in 1 .. Len(m) : m0[x] = m[x]
  <2>1. Len(m0) = Len(m) + 3 + (end - src) /\ \A x \in 1 .. Len(m) : m0[x] = m[x]
    BY <1>9 DEF ForwarderBehind
  <2>2. end - src \in Nat
    BY <1>2, <1>4, SMTT(30)
  <2>3. Len(m) <= Len(m) + 3 + (end - src)
    BY <1>4, <2>2
  <2> QED BY <2>1, <2>3
<1>15. H \subseteq H0 /\ H0 \cap ParentWords \subseteq H
  <2>1. H \subseteq H0
    BY DEF HeadsBehind
  <2>2. ASSUME NEW a \in H0, a \in ParentWords PROVE a \in H
    <3>1. a \in 1 .. Len(m)
      BY <1>7, <2>2
    <3>2. a # Len(m) + 1 /\ a # Len(m) + 3 + (end - src)
      <4>1. end - src \in Nat /\ a \in Nat /\ a <= Len(m)
        BY <1>2, <1>4, <3>1, SMTT(30)
      <4>2. \A x, y, z \in Nat : x <= y => x # y + 1 /\ x # y + 3 + z
        OBVIOUS
      <4> QED BY <1>4, <4>1, <4>2
    <3>3. \A x \in H \cap (src .. end - 1) : a # Len(m) + 3 + (x - src)
      <4>1. \A x \in src .. end - 1 : a # Len(m) + 3 + (x - src)
        BY <1>2, <1>4, <3>1, SMTT(30)
      <4> QED BY <4>1
    <3> QED BY <2>2, <3>2, <3>3 DEF HeadsBehind
  <2> QED BY <2>1, <2>2
<1> HIDE DEF H0
<1>16. /\ CodeOK(u, HeadsPut(H0, src, end)) /\ ScriptOK(u, HeadsPut(H0, src, end))
       /\ LinesOK(u, HeadsPut(H0, src, end), Splice(lines, i, k, line),
                  Shifted(ads, i, k, Len(lines)), Parent)
  <2> DEFINE script == Len(m) + 1
  <2>1. script \in H0 \ ParentWords /\ CallPut(u, m0, src, end, script)
    BY <1>12, <1>13
  <2>2. CodeOK(m0, H0) /\ Len(m) <= Len(m0) /\ (\A x \in 1 .. Len(m) : m0[x] = m[x])
        /\ H \subseteq H0 /\ H0 \cap ParentWords \subseteq H
    BY <1>13, <1>14, <1>15
  <2> HIDE DEF script
  <2> QED BY <2>1, <2>2, CallReplaces, ZenonT(150)
<1>17. LaidOut(u, HeadsPut(H0, src, end), Splice(lines, i, k, line),
               Shifted(ads, i, k, Len(lines)))
  BY <1>16 DEF LaidOut
<1> QED BY <1>9, <1>12, <1>17 DEF H0

\* Where a call is written over lines i to k: the words from src up to end, which are theirs.
CallFits(H, ads, i, k, src, end) ==
    /\ i \in 1 .. Len(evtLines) - 1 /\ k \in i .. Len(evtLines) - 1
    /\ src = ads[i] /\ end \in H /\ src + 2 <= end
    /\ EndsAt(evtMem, ads[k], end, ads[k + 1])

\* What hookEvt does.
HookDoes(H, ads, i, k, src, end, child) ==
    /\ CallFits(H, ads, i, k, src, end)
    /\ k = LastCovered(evtLines, i) /\ end = After(evtMem, ads[k]) /\ child \in Children
    /\ \A j \in i .. k : evtLines[j].flow \notin {Lbl, EvtEnd}
    /\ evtMem' = Write(Write(evtMem, src, Zeros(end - src)), src, TrampolineCall(Len(evtMem) + 1))
                   \o Forwarder(evtMem, src, end - src, child)
    /\ evtLines' = Splice(evtLines, i, k, Joined(evtLines, i, k, ActsOf(evtMem, child)))

\* What hookEvtReplace and hookEvtReplaceBlock do.
ReplaceDoes(H, ads, i, k, src, end, child) ==
    /\ CallFits(H, ads, i, k, src, end) /\ child \in Children
    /\ \A j \in i .. k : evtLines[j].flow \notin {Lbl, EvtEnd, Return}
    /\ evtMem' = Write(Write(evtMem, src, Zeros(end - src)), src, TrampolineCall(child))
    /\ evtLines' = Splice(evtLines, i, k, CallLine(child))

\* What patchEvtInstruction does with an instruction of the same length.
InstructionDoes(ads, i, src, new) ==
    /\ i \in 1 .. Len(evtLines) - 1 /\ src = ads[i] /\ new \in Replacements
    /\ getInstructionLength(evtMem[src]) = getInstructionLength(evtMem[new])
    /\ evtLines[i].flow \notin {Lbl, EvtEnd, Return}
    /\ InstructionPut(evtMem', evtMem, src, new)
    /\ evtLines' = Splice(evtLines, i, i, LineAt(evtMem, new))

\* The lines whose words a call takes, and how many words those are.
LEMMA CoveredFits ==
    ASSUME NEW H, NEW ads, LaidOut(evtMem, H, evtLines, ads),
           NEW i \in 1 .. Len(evtLines), NEW k, k = LastCovered(evtLines, i),
           NEW kept, Patching(i, k, kept), EvtEnd \in kept,
           NEW src, src = getLineOffset(evtMem, Parent, i),
           NEW len, len = getInstructionBlockLength(evtMem, src, TRAMPOLINE_CALL_LENGTH)
    PROVE  /\ CallFits(H, ads, i, k, src, src + len)
           /\ src + len = After(evtMem, ads[k]) /\ (src + len) - src = len
<1>1. CodeOK(evtMem, H) /\ ScriptOK(evtMem, H) /\ LinesOK(evtMem, H, evtLines, ads, Parent)
  BY DEF LaidOut
<1>2. src = ads[i]
  BY <1>1, OffsetOfLine
<1>3. Len(evtLines) \in Nat
  BY <1>1, LenProperties DEF LinesOK
<1>4. k \in Nat /\ i <= k
  BY <1>3, CoveredFrom
<1>5. k < Len(evtLines)
  BY <1>1, <1>4, TakenBeforeEnd
<1>6. /\ i \in 1 .. Len(evtLines) - 1 /\ k \in i .. Len(evtLines) - 1
      /\ src \in H /\ len \in Nat /\ len >= 2 /\ src + len \in H
      /\ src + len = After(evtMem, ads[k])
      /\ EndsAt(evtMem, ads[k], src + len, ads[k + 1])
  BY <1>1, <1>2, <1>5, RoomForCall
<1>7. src \in Nat
  BY <1>1, <1>6, InstructionAt
<1>8. src + 2 <= src + len /\ (src + len) - src = len
  BY <1>6, <1>7
<1> QED BY <1>2, <1>6, <1>8 DEF CallFits

LEMMA HookUnpacked ==
    ASSUME NEW H, NEW ads, LaidOut(evtMem, H, evtLines, ads), hookEvt
    PROVE  \E i, k, src, end, child : HookDoes(H, ads, i, k, src, end, child)
<1>1. PICK i \in 1 .. Len(evtLines), child \in Children :
        LET k == LastCovered(evtLines, i) IN
        /\ Patching(i, k, {Lbl, EvtEnd})
        /\ hookEvtByOffset(getLineOffset(evtMem, Parent, i), child)
        /\ evtLines' = Splice(evtLines, i, k, Joined(evtLines, i, k, ActsOf(evtMem, child)))
  BY DEF hookEvt
<1> DEFINE k == LastCovered(evtLines, i)
           src == getLineOffset(evtMem, Parent, i)
           len == getInstructionBlockLength(evtMem, src, TRAMPOLINE_CALL_LENGTH)
           end == src + len
<1>2. /\ Patching(i, k, {Lbl, EvtEnd}) /\ EvtEnd \in {Lbl, EvtEnd}
      /\ evtLines' = Splice(evtLines, i, k, Joined(evtLines, i, k, ActsOf(evtMem, child)))
  BY <1>1
<1>3. evtMem' = Write(Write(evtMem, src, Zeros(len)), src, TrampolineCall(Len(evtMem) + 1))
                  \o Forwarder(evtMem, src, len, child)
  BY <1>1 DEF hookEvtByOffset, Forwarder
<1>4. k = LastCovered(evtLines, i) /\ src = getLineOffset(evtMem, Parent, i)
      /\ len = getInstructionBlockLength(evtMem, src, TRAMPOLINE_CALL_LENGTH)
  OBVIOUS
<1> HIDE DEF k, src, len
<1>5. CallFits(H, ads, i, k, src, end) /\ end = After(evtMem, ads[k]) /\ end - src = len
  BY <1>2, <1>4, CoveredFits
<1>6. \A j \in i .. k : evtLines[j].flow \notin {Lbl, EvtEnd}
  BY <1>2 DEF Patching
<1> HIDE DEF end
<1>7. HookDoes(H, ads, i, k, src, end, child)
  BY <1>2, <1>3, <1>4, <1>5, <1>6 DEF HookDoes
<1> QED BY <1>7

LEMMA ReplaceUnpacked ==
    ASSUME NEW H, NEW ads, LaidOut(evtMem, H, evtLines, ads), hookEvtReplace
    PROVE  \E i, k, src, end, child : ReplaceDoes(H, ads, i, k, src, end, child)
<1>1. PICK i \in 1 .. Len(evtLines), child \in Children :
        LET k == LastCovered(evtLines, i) IN
        /\ Patching(i, k, {Lbl, EvtEnd, Return})
        /\ hookEvtReplaceByOffset(getLineOffset(evtMem, Parent, i), child)
        /\ evtLines' = Splice(evtLines, i, k, CallLine(child))
  BY DEF hookEvtReplace
<1> DEFINE k == LastCovered(evtLines, i)
           src == getLineOffset(evtMem, Parent, i)
           len == getInstructionBlockLength(evtMem, src, TRAMPOLINE_CALL_LENGTH)
           end == src + len
<1>2. /\ Patching(i, k, {Lbl, EvtEnd, Return}) /\ EvtEnd \in {Lbl, EvtEnd, Return}
      /\ evtLines' = Splice(evtLines, i, k, CallLine(child))
  BY <1>1
<1>3. evtMem' = Write(Write(evtMem, src, Zeros(len)), src, TrampolineCall(child))
  BY <1>1 DEF hookEvtReplaceByOffset
<1>4. k = LastCovered(evtLines, i) /\ src = getLineOffset(evtMem, Parent, i)
      /\ len = getInstructionBlockLength(evtMem, src, TRAMPOLINE_CALL_LENGTH)
  OBVIOUS
<1> HIDE DEF k, src, len
<1>5. CallFits(H, ads, i, k, src, end) /\ end - src = len
  BY <1>2, <1>4, CoveredFits
<1>6. \A j \in i .. k : evtLines[j].flow \notin {Lbl, EvtEnd, Return}
  BY <1>2 DEF Patching
<1> HIDE DEF end
<1>7. ReplaceDoes(H, ads, i, k, src, end, child)
  BY <1>2, <1>3, <1>5, <1>6 DEF ReplaceDoes
<1> QED BY <1>7

LEMMA ReplaceBlockUnpacked ==
    ASSUME NEW H, NEW ads, LaidOut(evtMem, H, evtLines, ads), hookEvtReplaceBlock
    PROVE  \E i, k, src, end, child : ReplaceDoes(H, ads, i, k, src, end, child)
<1>1. CodeOK(evtMem, H) /\ ScriptOK(evtMem, H) /\ LinesOK(evtMem, H, evtLines, ads, Parent)
  BY DEF LaidOut
<1>2. PICK i \in 1 .. Len(evtLines), k \in 1 .. Len(evtLines), child \in Children :
        LET src == getLineOffset(evtMem, Parent, i)
            end == getLineOffset(evtMem, Parent, k + 1)
        IN /\ i <= k /\ k < Len(evtLines)
           /\ Patching(i, k, {Lbl, EvtEnd, Return})
           /\ end - src >= TRAMPOLINE_CALL_LENGTH
           /\ hookEvtReplaceBlockByOffset(src, child, end)
           /\ evtLines' = Splice(evtLines, i, k, CallLine(child))
  BY DEF hookEvtReplaceBlock
<1> DEFINE src == getLineOffset(evtMem, Parent, i)
           end == getLineOffset(evtMem, Parent, k + 1)
<1>3. /\ i <= k /\ k < Len(evtLines) /\ end - src >= 2 /\ Patching(i, k, {Lbl, EvtEnd, Return})
      /\ evtMem' = Write(Write(evtMem, src, Zeros(end - src)), src, TrampolineCall(child))
      /\ evtLines' = Splice(evtLines, i, k, CallLine(child))
  BY <1>2 DEF hookEvtReplaceBlockByOffset, TRAMPOLINE_CALL_LENGTH
<1>4. /\ Len(evtLines) \in Nat /\ k + 1 \in 1 .. Len(evtLines) /\ ads[k + 1] \in H
      /\ ads[k + 1] \in Nat /\ After(evtMem, ads[k]) <= ads[k + 1]
  BY <1>1, <1>3, LinesWithin
<1>5. src = ads[i] /\ end = ads[k + 1]
  <2>1. src = ads[i]
    BY <1>1, OffsetOfLine
  <2>2. end = ads[k + 1]
    BY <1>1, <1>4, OffsetOfLine
  <2> QED BY <2>1, <2>2
<1> HIDE DEF src, end
<1>6. i \in 1 .. Len(evtLines) - 1 /\ k \in i .. Len(evtLines) - 1
  BY <1>3, <1>4
<1>7. src \in Nat /\ end \in Nat
  <2>1. ads[i] \in H
    BY <1>1 DEF LinesOK
  <2> QED BY <1>1, <1>4, <1>5, <2>1, InstructionAt
<1>8. EndsAt(evtMem, ads[k], end, ads[k + 1])
  <2>1. \A b \in end .. end - 1 : FALSE
    BY <1>7
  <2> QED BY <1>4, <1>5, <1>7, <2>1 DEF EndsAt
<1>9. end \in H /\ src + 2 <= end
  BY <1>3, <1>4, <1>5, <1>7
<1>10. \A j \in i .. k : evtLines[j].flow \notin {Lbl, EvtEnd, Return}
  BY <1>3 DEF Patching
<1>11. ReplaceDoes(H, ads, i, k, src, end, child)
  BY <1>3, <1>5, <1>6, <1>8, <1>9, <1>10 DEF ReplaceDoes, CallFits
<1> QED BY <1>11

\* A shorter instruction would leave words of the old one to be executed.
LEMMA InstructionUnpacked ==
    ASSUME NEW H, NEW ads, LaidOut(evtMem, H, evtLines, ads), patchEvtInstruction, ~PatchShorter
    PROVE  \E i, src, new : InstructionDoes(ads, i, src, new)
<1>1. CodeOK(evtMem, H) /\ ScriptOK(evtMem, H) /\ LinesOK(evtMem, H, evtLines, ads, Parent)
  BY DEF LaidOut
<1>2. PICK i \in 1 .. Len(evtLines), new \in Replacements :
        LET src == getLineOffset(evtMem, Parent, i)
            old == getInstructionLength(evtMem[src])
            line == LineAt(evtMem, new)
        IN /\ Patching(i, i, {Lbl, EvtEnd, Return})
           /\ old >= line.words /\ (PatchShorter \/ old = line.words)
           /\ patchEvtInstructionByOffset(src, new)
           /\ evtLines' = Splice(evtLines, i, i, line)
  BY DEF patchEvtInstruction
<1> DEFINE src == getLineOffset(evtMem, Parent, i)
           line == LineAt(evtMem, new)
           n == getInstructionLength(evtMem[new])
           old == getInstructionLength(evtMem[src])
<1>3. /\ Patching(i, i, {Lbl, EvtEnd, Return}) /\ old = line.words
      /\ patchEvtInstructionByOffset(src, new) /\ evtLines' = Splice(evtLines, i, i, line)
  BY <1>2
<1>4. line.words = n
  BY DEF LineAt
<1>5. evtMem' = Write(Write(evtMem, src, Cleared(evtMem, src, old)), src, Words(evtMem, new, n))
  BY <1>3 DEF patchEvtInstructionByOffset
<1>6. src = ads[i]
  BY <1>1, OffsetOfLine
<1>7. Len(evtLines) \in Nat
  BY <1>1, LenProperties DEF LinesOK
<1>8. i < Len(evtLines) /\ evtLines[i].flow \notin {Lbl, EvtEnd, Return}
  <2>1. EvtEnd \in {Lbl, EvtEnd, Return} /\ i \in Nat /\ i <= i /\ i \in i .. i
    BY <1>7
  <2>2. i < Len(evtLines)
    BY <1>1, <1>3, <2>1, TakenBeforeEnd
  <2> QED BY <1>3, <2>1, <2>2 DEF Patching
<1>9. src \in H /\ new \in H
  BY <1>1, <1>6 DEF LinesOK, ScriptOK
<1>10. getInstructionLength(evtMem[src]) = getInstructionLength(evtMem[new])
  BY <1>3, <1>4
<1> HIDE DEF src
<1>11. InstructionPut(evtMem', evtMem, src, new)
  <2>1. InstructionPut(Write(Write(evtMem, src, Cleared(evtMem, src, getInstructionLength(evtMem[src]))),
                             src, Words(evtMem, new, getInstructionLength(evtMem[new]))),
                       evtMem, src, new)
    BY <1>1, <1>9, <1>10, InstructionIsPut
  <2> QED BY <1>5, <2>1
<1>12. i \in 1 .. Len(evtLines) - 1
  BY <1>7, <1>8
<1>13. InstructionDoes(ads, i, src, new)
  BY <1>3, <1>6, <1>8, <1>10, <1>11, <1>12 DEF InstructionDoes
<1> QED BY <1>13

\* Where everything is after a hook.
LEMMA HookLaysOut ==
    ASSUME NEW H, NEW ads, LaidOut(evtMem, H, evtLines, ads),
           NEW i, NEW k, NEW src, NEW end, NEW child, HookDoes(H, ads, i, k, src, end, child)
    PROVE  \E m0 : /\ ForwarderBehind(m0, evtMem, src, end, child)
                   /\ CallPut(evtMem', m0, src, end, Len(evtMem) + 1)
                   /\ LaidOut(evtMem', HeadsPut(HeadsBehind(H, Len(evtMem), src, end), src, end),
                              evtLines', Shifted(ads, i, k, Len(evtLines)))
<1> DEFINE line == Joined(evtLines, i, k, ActsOf(evtMem, child))
           u == evtMem'
<1>1. line.words = 2
  BY DEF Joined, TRAMPOLINE_CALL_LENGTH
<1>2. /\ u = Write(Write(evtMem, src, Zeros(end - src)), src, TrampolineCall(Len(evtMem) + 1))
                   \o Forwarder(evtMem, src, end - src, child)
      /\ evtLines' = Splice(evtLines, i, k, line)
  BY DEF HookDoes
<1> HIDE DEF line, u
<1>3. /\ CodeOK(evtMem, H) /\ ScriptOK(evtMem, H) /\ LinesOK(evtMem, H, evtLines, ads, Parent)
      /\ i \in 1 .. Len(evtLines) - 1 /\ k \in i .. Len(evtLines) - 1
      /\ src = ads[i] /\ end \in H /\ src + 2 <= end
      /\ EndsAt(evtMem, ads[k], end, ads[k + 1]) /\ child \in Children
  BY DEF LaidOut, HookDoes, CallFits
<1>4. PICK m0 : /\ ForwarderBehind(m0, evtMem, src, end, child)
                /\ CallPut(u, m0, src, end, Len(evtMem) + 1)
                /\ LaidOut(u, HeadsPut(HeadsBehind(H, Len(evtMem), src, end), src, end),
                           Splice(evtLines, i, k, line), Shifted(ads, i, k, Len(evtLines)))
  BY <1>1, <1>2, <1>3, CallOfForwarder
<1> QED BY <1>2, <1>4 DEF u

\* And after a replacement by a call.
LEMMA ReplaceLaysOut ==
    ASSUME NEW H, NEW ads, LaidOut(evtMem, H, evtLines, ads),
           NEW i, NEW k, NEW src, NEW end, NEW child, ReplaceDoes(H, ads, i, k, src, end, child)
    PROVE  /\ CallPut(evtMem', evtMem, src, end, child)
           /\ LaidOut(evtMem', HeadsPut(H, src, end), evtLines', Shifted(ads, i, k, Len(evtLines)))
<1> DEFINE line == CallLine(child)
           u == evtMem'
<1>1. line.words = 2
  BY DEF CallLine, TRAMPOLINE_CALL_LENGTH
<1>2. /\ u = Write(Write(evtMem, src, Zeros(end - src)), src, TrampolineCall(child))
      /\ evtLines' = Splice(evtLines, i, k, line)
  BY DEF ReplaceDoes
<1> HIDE DEF line, u
<1>3. /\ CodeOK(evtMem, H) /\ ScriptOK(evtMem, H) /\ LinesOK(evtMem, H, evtLines, ads, Parent)
      /\ i \in 1 .. Len(evtLines) - 1 /\ k \in i .. Len(evtLines) - 1
      /\ src = ads[i] /\ end \in H /\ src + 2 <= end
      /\ EndsAt(evtMem, ads[k], end, ads[k + 1]) /\ child \in Children
  BY DEF LaidOut, ReplaceDoes, CallFits
<1>4. /\ CallPut(u, evtMem, src, end, child)
      /\ LaidOut(u, HeadsPut(H, src, end), Splice(evtLines, i, k, line),
                 Shifted(ads, i, k, Len(evtLines)))
  BY <1>1, <1>2, <1>3, CallInPlace
<1> QED BY <1>2, <1>4 DEF u

LEMMA InstructionLaysOut ==
    ASSUME NEW H, NEW ads, LaidOut(evtMem, H, evtLines, ads),
           NEW i, NEW src, NEW new, InstructionDoes(ads, i, src, new)
    PROVE  LaidOut(evtMem', H, evtLines', Shifted(ads, i, i, Len(evtLines)))
<1> DEFINE line == LineAt(evtMem, new)
           u == evtMem'
<1>1. line.words = getInstructionLength(evtMem[new])
  BY DEF LineAt
<1>2. InstructionPut(u, evtMem, src, new) /\ evtLines' = Splice(evtLines, i, i, line)
  BY DEF InstructionDoes
<1> HIDE DEF line, u
<1>3. /\ CodeOK(evtMem, H) /\ ScriptOK(evtMem, H) /\ LinesOK(evtMem, H, evtLines, ads, Parent)
      /\ i \in 1 .. Len(evtLines) - 1 /\ src = ads[i] /\ new \in Replacements
      /\ getInstructionLength(evtMem[src]) = getInstructionLength(evtMem[new])
  BY DEF LaidOut, InstructionDoes
<1>4. /\ CodeOK(u, H) /\ ScriptOK(u, H)
      /\ LinesOK(u, H, Splice(evtLines, i, i, line), Shifted(ads, i, i, Len(evtLines)), Parent)
  BY <1>1, <1>2, <1>3, InstructionReplaces
<1> QED BY <1>2, <1>4 DEF u, LaidOut

\* Every patch of the game leaves it code, in which the script has the edited lines.
LEMMA PatchKeepsCode ==
    ASSUME CodeHas(evtMem, evtLines), Patch, ~PatchShorter
    PROVE  CodeHas(evtMem', evtLines')
<1>1. PICK H, ads : LaidOut(evtMem, H, evtLines, ads)
  BY DEF CodeHas, HasLines, LaidOut
<1>2. ASSUME NEW G, NEW bds, LaidOut(evtMem', G, evtLines', bds)
      PROVE  CodeHas(evtMem', evtLines')
  BY <1>2 DEF CodeHas, HasLines, LaidOut
<1>3. CASE hookEvt
  <2>1. PICK i, k, src, end, child : HookDoes(H, ads, i, k, src, end, child)
    BY <1>1, <1>3, HookUnpacked
  <2>2. PICK m0 : LaidOut(evtMem', HeadsPut(HeadsBehind(H, Len(evtMem), src, end), src, end),
                          evtLines', Shifted(ads, i, k, Len(evtLines)))
    BY <1>1, <2>1, HookLaysOut
  <2> QED BY <1>2, <2>2
<1>4. CASE hookEvtReplace \/ hookEvtReplaceBlock
  <2>1. PICK i, k, src, end, child : ReplaceDoes(H, ads, i, k, src, end, child)
    BY <1>1, <1>4, ReplaceUnpacked, ReplaceBlockUnpacked
  <2> QED BY <1>1, <1>2, <2>1, ReplaceLaysOut
<1>5. CASE patchEvtInstruction
  <2>1. PICK i, src, new : InstructionDoes(ads, i, src, new)
    BY <1>1, <1>5, InstructionUnpacked
  <2> QED BY <1>1, <1>2, <2>1, InstructionLaysOut
<1> QED BY <1>3, <1>4, <1>5 DEF Patch
-----------------------------------------------------------------------------
(* What the event manager runs.                                            *)

\* An entry's next instruction and the targets of its labels are instructions.
EntryOK(entry, H) ==
    /\ entry \in [on : BOOLEAN, pc : H \cup {0}, jump : Seq(Rows(H))]
    /\ entry.on => entry.pc \in H

RunsOK(entries, stacks, H) ==
    /\ DOMAIN entries = Entries /\ entries = [e \in Entries |-> entries[e]]
    /\ stacks \in [Entries -> Seq(H)]
    /\ \A e \in Entries : EntryOK(entries[e], H)

CodeInv(m, lines, entries, stacks) ==
    \E H : CodeOK(m, H) /\ ScriptOK(m, H) /\ HasLines(m, H, lines, Parent)
           /\ RunsOK(entries, stacks, H)

\* The patches are applied before anything runs.
EvtInv ==
    /\ evtPatched \in 0 .. MaxPatches /\ evtRuns \in 0 .. MaxRuns
    /\ CodeInv(evtMem, evtLines, evtEntries, returnStacks)
    /\ evtRuns = 0 => RunsOK(evtEntries, returnStacks, {})

LEMMA RowsMonotonic ==
    ASSUME NEW H, NEW G, H \subseteq G
    PROVE  Seq(Rows(H)) \subseteq Seq(Rows(G)) /\ Seq(H) \subseteq Seq(G)
<1>1. Rows(H) \subseteq Rows(G)
  BY DEF Rows
<1> QED BY <1>1, SeqMonotonic

LEMMA IdleIsOK ==
    ASSUME NEW H
    PROVE  EntryOK(Idle, H)
<1>1. <<>> \in Seq(Rows(H))
  BY EmptySeq
<1>2. Idle.on = FALSE /\ Idle \in [on : BOOLEAN, pc : H \cup {0}, jump : Seq(Rows(H))]
  BY <1>1 DEF Idle
<1> QED BY <1>2 DEF EntryOK

LEMMA NothingRuns ==
    ASSUME NEW entries, NEW stacks, RunsOK(entries, stacks, {})
    PROVE  /\ \A H : RunsOK(entries, stacks, H)
           /\ \A e \in Entries : entries[e].on = FALSE
<1>1. \A e \in Entries : entries[e].on = FALSE
  BY DEF RunsOK, EntryOK
<1>2. ASSUME NEW H PROVE RunsOK(entries, stacks, H)
  <2>1. Seq(Rows({})) \subseteq Seq(Rows(H)) /\ Seq({}) \subseteq Seq(H)
    BY RowsMonotonic
  <2>2. stacks \in [Entries -> Seq(H)]
    BY <2>1 DEF RunsOK
  <2>3. ASSUME NEW e \in Entries PROVE EntryOK(entries[e], H)
    <3>1. entries[e] \in [on : BOOLEAN, pc : {} \cup {0}, jump : Seq(Rows({}))]
      BY DEF RunsOK, EntryOK
    <3>2. entries[e] \in [on : BOOLEAN, pc : H \cup {0}, jump : Seq(Rows(H))]
      BY <2>1, <3>1
    <3> QED BY <1>1, <3>2 DEF EntryOK
  <2> QED BY <2>2, <2>3 DEF RunsOK
<1> QED BY <1>1, <1>2

LEMMA OneEntryRuns ==
    ASSUME NEW entries, NEW stacks, NEW H, RunsOK(entries, stacks, H),
           NEW e \in Entries, NEW entry, EntryOK(entry, H), NEW stack \in Seq(H)
    PROVE  RunsOK([entries EXCEPT ![e] = entry], [stacks EXCEPT ![e] = stack], H)
<1> DEFINE n == [entries EXCEPT ![e] = entry]
           t == [stacks EXCEPT ![e] = stack]
<1>1. DOMAIN n = Entries /\ n = [f \in Entries |-> n[f]]
  BY DEF RunsOK
<1>2. t \in [Entries -> Seq(H)]
  BY DEF RunsOK
<1>3. ASSUME NEW f \in Entries PROVE EntryOK(n[f], H)
  <2>1. CASE f = e
    <3>1. n[f] = entry
      BY <2>1 DEF RunsOK
    <3> QED BY <3>1
  <2>2. CASE f # e
    <3>1. n[f] = entries[f]
      BY <2>2 DEF RunsOK
    <3> QED BY <3>1 DEF RunsOK
  <2> QED BY <2>1, <2>2
<1> HIDE DEF n, t
<1>4. RunsOK(n, t, H)
  BY <1>1, <1>2, <1>3 DEF RunsOK
<1> QED BY <1>4 DEF n, t

\* An entry that goes on somewhere else, with another table.
LEMMA MovedEntry ==
    ASSUME NEW H, NEW x, EntryOK(x, H), NEW pc \in H, NEW jump \in Seq(Rows(H))
    PROVE  EntryOK([x EXCEPT !.pc = pc], H) /\ EntryOK([x EXCEPT !.pc = pc, !.jump = jump], H)
<1>1. PICK a \in BOOLEAN, b \in H \cup {0}, c \in Seq(Rows(H)) : x = [on |-> a, pc |-> b, jump |-> c]
  BY DEF EntryOK
<1>2. [x EXCEPT !.pc = pc] = [on |-> a, pc |-> pc, jump |-> c]
  BY <1>1
<1>3. [x EXCEPT !.pc = pc, !.jump = jump] = [on |-> a, pc |-> pc, jump |-> jump]
  <2>1. [x EXCEPT !.pc = pc, !.jump = jump] = [[x EXCEPT !.pc = pc] EXCEPT !.jump = jump]
    OBVIOUS
  <2> DEFINE y == [x EXCEPT !.pc = pc]
  <2>2. y = [on |-> a, pc |-> pc, jump |-> c]
    BY <1>2
  <2> HIDE DEF y
  <2>3. [y EXCEPT !.jump = jump] = [on |-> a, pc |-> pc, jump |-> jump]
    BY <2>2
  <2> QED BY <2>1, <2>3 DEF y
<1>4. \A j \in Seq(Rows(H)) : EntryOK([on |-> a, pc |-> pc, jump |-> j], H)
  BY DEF EntryOK
<1> QED BY <1>1, <1>2, <1>3, <1>4

\* A step of what runs.
LEMMA RunStep ==
    ASSUME EvtInv, evtPatched' = evtPatched, evtMem' = evtMem, evtLines' = evtLines,
           evtRuns' \in 1 .. MaxRuns,
           NEW H, CodeOK(evtMem, H), ScriptOK(evtMem, H), HasLines(evtMem, H, evtLines, Parent),
           RunsOK(evtEntries', returnStacks', H)
    PROVE  EvtInv'
<1>1. CodeInv(evtMem, evtLines, evtEntries', returnStacks')
  BY DEF CodeInv
<1>2. evtRuns' \in 0 .. MaxRuns /\ evtRuns' # 0
  BY EvtAssumption
<1> QED BY <1>1, <1>2 DEF EvtInv

LEMMA TableOfChild ==
    ASSUME NEW m, NEW H, CodeOK(m, H), ScriptOK(m, H), NEW jump \in Seq(Rows(H)), NEW child \in H
    PROVE  evt_patch_make_jump_table(jump, m, child) \in Seq(Rows(H))
<1> DEFINE new == LabelsFrom(m, child, {EvtEnd, ReturnFromCall})
           kept == SubSeq(jump, Len(new) + 1, Len(jump))
<1>1. new \in Seq(Rows(H))
  BY ScriptLabels
<1> HIDE DEF new
<1>2. Len(new) \in Nat /\ Len(jump) \in Nat
  BY <1>1, LenProperties
<1>3. kept \in Seq(Rows(H))
  <2>1. Len(new) + 1 \in Int /\ Len(jump) \in Int
    BY <1>2
  <2>2. \A i \in Len(new) + 1 .. Len(jump) : jump[i] \in Rows(H)
    <3>1. \A i \in Len(new) + 1 .. Len(jump) : i \in 1 .. Len(jump)
      BY <1>2
    <3> QED BY <3>1, ElementOfSeq
  <2> QED BY <2>1, <2>2, SubSeqProperties
<1>4. new \o kept \in Seq(Rows(H))
  BY <1>1, <1>3, ConcatProperties
<1> QED BY <1>4 DEF evt_patch_make_jump_table, new

\* What an entry fetches: the instruction after it and, of a call, the script it names.
LEMMA Fetched ==
    ASSUME NEW H, CodeOK(evtMem, H), RunsOK(evtEntries, returnStacks, H),
           NEW e \in Entries, NEW ops, Fetches(e, ops)
    PROVE  /\ evtEntries[e].pc \in H /\ evtEntries[e].on = TRUE
           /\ evtEntries[e].jump \in Seq(Rows(H)) /\ returnStacks[e] \in Seq(H)
           /\ EntryOK(evtEntries[e], H)
           /\ ops \cap Ends = {} => NextPc(e) \in H
           /\ ops = {Call} => Arg(e) \in H
<1>1. EntryOK(evtEntries[e], H) /\ returnStacks[e] \in Seq(H)
  BY DEF RunsOK
<1>2. evtEntries[e].on \in BOOLEAN /\ evtEntries[e].jump \in Seq(Rows(H))
  BY <1>1 DEF EntryOK
<1>3. evtEntries[e].on = TRUE /\ evtEntries[e].pc \in H
  BY <1>1, <1>2 DEF EntryOK, Fetches
<1> DEFINE pc == evtEntries[e].pc
<1>4. getOpcode(evtMem[pc]) \in ops
  BY DEF Fetches
<1>5. NextPc(e) = After(evtMem, pc)
  BY DEF NextPc, After
<1>6. Arg(e) = evtMem[pc + 1]
  BY DEF Arg
<1>7. pc \in H
  BY <1>3
<1> HIDE DEF pc
<1>8. getOpcode(evtMem[pc]) \notin Ends => After(evtMem, pc) \in H
  BY <1>7 DEF CodeOK
<1>9. getOpcode(evtMem[pc]) = Call => evtMem[pc + 1] \in H
  BY <1>7 DEF CodeOK
<1> QED BY <1>1, <1>2, <1>3, <1>4, <1>5, <1>6, <1>8, <1>9

LEMMA EvtStep ==
    ASSUME EvtInv, EvtNext, ~PatchShorter
    PROVE  EvtInv'
<1>1. CASE Patch
  <2>1. /\ evtRuns = 0 /\ evtPatched < MaxPatches /\ evtPatched' = evtPatched + 1
        /\ UNCHANGED <<evtRuns, evtEntries, returnStacks>>
    BY <1>1 DEF Patch, hookEvt, hookEvtReplace, hookEvtReplaceBlock, patchEvtInstruction, Patching
  <2>2. CodeHas(evtMem, evtLines)
    BY DEF EvtInv, CodeInv, CodeHas
  <2>3. CodeHas(evtMem', evtLines')
    BY <1>1, <2>2, PatchKeepsCode
  <2>4. RunsOK(evtEntries, returnStacks, {})
    BY <2>1 DEF EvtInv
  <2>5. CodeInv(evtMem', evtLines', evtEntries', returnStacks')
    <3>1. PICK H : CodeOK(evtMem', H) /\ ScriptOK(evtMem', H) /\ HasLines(evtMem', H, evtLines', Parent)
      BY <2>3 DEF CodeHas
    <3>2. RunsOK(evtEntries', returnStacks', H)
      BY <2>1, <2>4, NothingRuns
    <3> QED BY <3>1, <3>2 DEF CodeInv
  <2>6. evtPatched' \in 0 .. MaxPatches
    <3>1. evtPatched \in 0 .. MaxPatches /\ MaxPatches \in Nat
      BY EvtAssumption DEF EvtInv
    <3> QED BY <2>1, <3>1
  <2>7. evtRuns' \in 0 .. MaxRuns /\ RunsOK(evtEntries', returnStacks', {})
    BY <2>1, <2>4 DEF EvtInv
  <2> QED BY <2>5, <2>6, <2>7 DEF EvtInv
<1>2. PICK H : /\ CodeOK(evtMem, H) /\ ScriptOK(evtMem, H) /\ HasLines(evtMem, H, evtLines, Parent)
               /\ RunsOK(evtEntries, returnStacks, H)
  BY DEF EvtInv, CodeInv
<1>3. evtRuns \in 0 .. MaxRuns /\ MaxRuns \in Nat
  BY EvtAssumption DEF EvtInv
<1>4. ASSUME NEW e \in Entries, evtEntries[e].on
      PROVE  evtRuns \in 1 .. MaxRuns
  <2>1. evtRuns # 0
    <3>1. evtRuns = 0 => evtEntries[e].on = FALSE
      BY NothingRuns DEF EvtInv
    <3> QED BY <1>4, <3>1
  <2> QED BY <1>3, <2>1
<1>5. ASSUME NEW e \in Entries, Begin(e)
      PROVE  EvtInv'
  <2> DEFINE table == LabelsFrom(evtMem, Parent, {EvtEnd})
             entry == [on |-> TRUE, pc |-> Parent, jump |-> table]
  <2>1. /\ evtRuns' = evtRuns + 1 /\ evtRuns < MaxRuns
        /\ evtEntries' = [evtEntries EXCEPT ![e] = entry] /\ returnStacks' = returnStacks
        /\ evtPatched' = evtPatched /\ evtMem' = evtMem /\ evtLines' = evtLines
    BY <1>5 DEF Begin
  <2>2. table \in Seq(Rows(H)) /\ Parent \in H
    BY <1>2, ScriptLabels DEF ScriptOK
  <2> HIDE DEF table
  <2>3. EntryOK(entry, H)
    BY <2>2 DEF EntryOK
  <2> HIDE DEF entry
  <2>4. returnStacks' = [returnStacks EXCEPT ![e] = returnStacks[e]] /\ returnStacks[e] \in Seq(H)
    BY <1>2, <2>1 DEF RunsOK
  <2>5. RunsOK(evtEntries', returnStacks', H)
    <3>1. RunsOK([evtEntries EXCEPT ![e] = entry], [returnStacks EXCEPT ![e] = returnStacks[e]], H)
      BY <1>2, <2>3, <2>4, OneEntryRuns
    <3>2. evtEntries' = [evtEntries EXCEPT ![e] = entry]
      BY <2>1
    <3> QED BY <2>4, <3>1, <3>2
  <2>6. evtRuns' \in 1 .. MaxRuns
    BY <1>3, <2>1
  <2> QED BY <1>2, <2>1, <2>5, <2>6, RunStep
<1>6. ASSUME NEW e \in Entries, evtEntries[e].on, evtDelete(e)
      PROVE  EvtInv'
  <2>1. /\ evtEntries' = [evtEntries EXCEPT ![e] = Idle]
        /\ returnStacks' = [returnStacks EXCEPT ![e] = <<>>]
        /\ evtPatched' = evtPatched /\ evtMem' = evtMem /\ evtLines' = evtLines
        /\ evtRuns' = evtRuns
    BY <1>6 DEF evtDelete, evtmgrDestroyReturnStack, historyVars
  <2>2. <<>> \in Seq(H) /\ EntryOK(Idle, H)
    BY IdleIsOK, EmptySeq
  <2>3. RunsOK(evtEntries', returnStacks', H)
    BY <1>2, <2>1, <2>2, OneEntryRuns
  <2> QED BY <1>2, <1>4, <1>6, <2>1, <2>3, RunStep
<1>7. CASE evtmgrReInit
  <2>1. /\ evtEntries' = [e \in Entries |-> Idle] /\ returnStacks' = [e \in Entries |-> <<>>]
        /\ evtPatched' = evtPatched /\ evtMem' = evtMem /\ evtLines' = evtLines
        /\ evtRuns' = evtRuns
    BY <1>7 DEF evtmgrReInit, historyVars
  <2>2. PICK e \in Entries : evtEntries[e].on
    BY <1>7 DEF evtmgrReInit
  <2>3. <<>> \in Seq(H) /\ EntryOK(Idle, H)
    BY IdleIsOK, EmptySeq
  <2>4. RunsOK(evtEntries', returnStacks', H)
    BY <2>1, <2>3 DEF RunsOK
  <2> QED BY <1>2, <1>4, <2>1, <2>2, <2>4, RunStep
<1>8. ASSUME NEW e \in Entries, GoesOn(e) \/ Jumps(e)
      PROVE  EvtInv'
  <2>1. PICK pc \in H : evtEntries' = [evtEntries EXCEPT ![e].pc = pc]
    <3>1. CASE GoesOn(e)
      <4>1. Fetches(e, {Nop, Lbl, Act}) /\ evtEntries' = [evtEntries EXCEPT ![e].pc = NextPc(e)]
        BY <3>1 DEF GoesOn
      <4>2. {Nop, Lbl, Act} \cap Ends = {}
        BY DEF Nop, Lbl, Act, Ends, EvtEnd, ReturnFromCall
      <4>3. NextPc(e) \in H
        BY <1>2, <4>1, <4>2, Fetched
      <4> QED BY <4>1, <4>3
    <3>2. CASE Jumps(e)
      <4>1. Fetches(e, {Goto})
        BY <3>2 DEF Jumps
      <4>2. PICK row \in Range(evtEntries[e].jump) : evtEntries' = [evtEntries EXCEPT ![e].pc = row.at]
        BY <3>2 DEF Jumps
      <4> DEFINE jump == evtEntries[e].jump
      <4>3. jump \in Seq(Rows(H))
        BY <1>2, <4>1, Fetched
      <4>4. row \in Range(jump)
        BY <4>2
      <4> HIDE DEF jump
      <4>5. row \in Rows(H)
        <5>1. PICK i \in DOMAIN jump : row = jump[i]
          BY <4>4 DEF Range
        <5>2. i \in 1 .. Len(jump)
          BY <4>3, <5>1, LenProperties
        <5> QED BY <4>3, <5>1, <5>2, ElementOfSeq
      <4>6. row.at \in H
        BY <4>5 DEF Rows
      <4> QED BY <4>2, <4>6
    <3> QED BY <1>8, <3>1, <3>2
  <2>2. /\ returnStacks' = returnStacks /\ evtPatched' = evtPatched /\ evtMem' = evtMem
        /\ evtLines' = evtLines /\ evtRuns' = evtRuns
    BY <1>8 DEF GoesOn, Jumps, historyVars
  <2>3. PICK ops : Fetches(e, ops)
    BY <1>8 DEF GoesOn, Jumps
  <2>4. /\ EntryOK(evtEntries[e], H) /\ returnStacks[e] \in Seq(H) /\ evtEntries[e].on
        /\ evtEntries[e].jump \in Seq(Rows(H))
    BY <1>2, <2>3, Fetched
  <2> DEFINE entry == [evtEntries[e] EXCEPT !.pc = pc]
  <2>5. evtEntries' = [evtEntries EXCEPT ![e] = entry]
    BY <2>1
  <2>6. EntryOK(entry, H)
    BY <2>4, MovedEntry
  <2> HIDE DEF entry
  <2>7. returnStacks' = [returnStacks EXCEPT ![e] = returnStacks[e]]
    BY <1>2, <2>2 DEF RunsOK
  <2>8. RunsOK(evtEntries', returnStacks', H)
    BY <1>2, <2>4, <2>5, <2>6, <2>7, OneEntryRuns
  <2> QED BY <1>2, <1>4, <2>2, <2>4, <2>8, RunStep
<1>9. ASSUME NEW e \in Entries, evtOpcodeCall(e)
      PROVE  EvtInv'
  <2> DEFINE pc == Arg(e)
             next == NextPc(e)
             jump == evt_patch_make_jump_table(evtEntries[e].jump, evtMem, Arg(e))
             entry == [evtEntries[e] EXCEPT !.pc = pc, !.jump = jump]
  <2>1. Fetches(e, {Call}) /\ {Call} \cap Ends = {}
    BY <1>9 DEF evtOpcodeCall, Call, Ends, EvtEnd, ReturnFromCall
  <2>2. /\ EntryOK(evtEntries[e], H) /\ returnStacks[e] \in Seq(H) /\ evtEntries[e].on
        /\ evtEntries[e].jump \in Seq(Rows(H)) /\ next \in H /\ pc \in H
    BY <1>2, <2>1, Fetched
  <2>3. jump \in Seq(Rows(H))
    BY <1>2, <2>2, TableOfChild
  <2>4. evtEntries' = [evtEntries EXCEPT ![e] = entry]
    BY <1>2, <1>9 DEF evtOpcodeCall, RunsOK
  <2>5. returnStacks' = [returnStacks EXCEPT ![e] = Append(returnStacks[e], next)]
    BY <1>9 DEF evtOpcodeCall
  <2>6. /\ evtPatched' = evtPatched /\ evtMem' = evtMem
        /\ evtLines' = evtLines /\ evtRuns' = evtRuns
    BY <1>9 DEF evtOpcodeCall
  <2> HIDE DEF pc, next, jump
  <2>7. EntryOK(entry, H)
    BY <2>2, <2>3, MovedEntry
  <2> HIDE DEF entry
  <2>8. Append(returnStacks[e], next) \in Seq(H)
    BY <2>2, AppendProperties
  <2>9. RunsOK(evtEntries', returnStacks', H)
    BY <1>2, <2>4, <2>5, <2>7, <2>8, OneEntryRuns
  <2> QED BY <1>2, <1>4, <2>2, <2>6, <2>9, RunStep
<1>10. ASSUME NEW e \in Entries, evtOpcodeReturnFromCall(e)
      PROVE  EvtInv'
  <2> DEFINE pc == Last(returnStacks[e])
             entry == [evtEntries[e] EXCEPT !.pc = pc]
  <2>1. Fetches(e, {ReturnFromCall}) /\ returnStacks[e] # <<>>
    BY <1>10 DEF evtOpcodeReturnFromCall
  <2>2. /\ EntryOK(evtEntries[e], H) /\ returnStacks[e] \in Seq(H) /\ evtEntries[e].on
        /\ evtEntries[e].jump \in Seq(Rows(H))
    BY <1>2, <2>1, Fetched
  <2>3. evtEntries' = [evtEntries EXCEPT ![e] = entry]
    BY <1>10 DEF evtOpcodeReturnFromCall
  <2>4. returnStacks' = [returnStacks EXCEPT ![e] = Front(returnStacks[e])]
    BY <1>10 DEF evtOpcodeReturnFromCall
  <2>5. /\ evtPatched' = evtPatched /\ evtMem' = evtMem
        /\ evtLines' = evtLines /\ evtRuns' = evtRuns
    BY <1>10 DEF evtOpcodeReturnFromCall
  <2>6. pc \in H
    <3>1. Len(returnStacks[e]) \in 1 .. Len(returnStacks[e])
      BY <2>1, <2>2, EmptySeq, LenProperties
    <3> QED BY <2>2, <3>1, ElementOfSeq DEF Last
  <2> HIDE DEF pc
  <2>7. EntryOK(entry, H)
    BY <2>2, <2>6, MovedEntry
  <2> HIDE DEF entry
  <2>8. Front(returnStacks[e]) \in Seq(H)
    BY <2>2, FrontDrops
  <2>9. RunsOK(evtEntries', returnStacks', H)
    BY <1>2, <2>3, <2>4, <2>7, <2>8, OneEntryRuns
  <2> QED BY <1>2, <1>4, <2>2, <2>5, <2>9, RunStep
<1>11. ASSUME NEW e \in Entries, Returns(e)
       PROVE  EvtInv'
  BY <1>6, <1>11 DEF Returns, Fetches
<1> QED
  BY <1>1, <1>5, <1>6, <1>7, <1>8, <1>9, <1>10, <1>11
     DEF EvtNext, evtEntry, evtRestart, Terminated, evtmgrCmd

LEMMA EvtInvImpliesTypes ==
    ASSUME EvtInv
    PROVE  EvtTypeOK
<1>1. PICK H : CodeOK(evtMem, H) /\ RunsOK(evtEntries, returnStacks, H)
  BY DEF EvtInv, CodeInv
<1>2. evtMem \in Seq(Nat) /\ H \subseteq 1 .. Len(evtMem) /\ Len(evtMem) \in Nat
  BY <1>1, LenProperties DEF CodeOK
<1> DEFINE G == 1 .. Len(evtMem)
<1>3. H \subseteq G
  BY <1>2
<1> HIDE DEF G
<1>4. Seq(Rows(H)) \subseteq Seq(Rows(G)) /\ Seq(H) \subseteq Seq(G)
  BY <1>3, RowsMonotonic
<1>5. returnStacks \in [Entries -> Seq(G)]
  BY <1>1, <1>4 DEF RunsOK
<1>6. ASSUME NEW e \in Entries
      PROVE  /\ evtEntries[e].on \in BOOLEAN /\ evtEntries[e].pc \in 0 .. Len(evtMem)
             /\ evtEntries[e].jump \in Seq(Rows(G))
  <2>1. evtEntries[e].on \in BOOLEAN /\ evtEntries[e].pc \in H \cup {0}
        /\ evtEntries[e].jump \in Seq(Rows(H))
    BY <1>1 DEF RunsOK, EntryOK
  <2>2. evtEntries[e].pc \in 0 .. Len(evtMem)
    <3>1. \A x \in H \cup {0} : x \in 0 .. Len(evtMem)
      BY <1>2
    <3> QED BY <2>1, <3>1
  <2> QED BY <1>4, <2>1, <2>2
<1> QED BY <1>2, <1>5, <1>6 DEF EvtInv, EvtTypeOK, Rows, G

LEMMA EvtInvHolds == ~PatchShorter => (EvtSpec => []EvtInv)
<1> SUFFICES ASSUME ~PatchShorter PROVE EvtSpec => []EvtInv
  OBVIOUS
<1>1. EvtInit => EvtInv
  <2> SUFFICES ASSUME EvtInit PROVE EvtInv
    OBVIOUS
  <2>1. RunsOK(evtEntries, returnStacks, {})
    BY IdleIsOK, EmptySeq DEF EvtInit, RunsOK
  <2>2. RunsOK(evtEntries, returnStacks, Heads)
    BY <2>1, NothingRuns
  <2>3. CodeInv(evtMem, evtLines, evtEntries, returnStacks)
    <3>1. HasLines(Image, Heads, LinesOf(Image, Parent), Parent)
      BY FirstLines DEF HasLines
    <3> QED BY <2>2, <3>1, ImageIsCode DEF EvtInit, CodeInv
  <2>4. evtPatched \in 0 .. MaxPatches /\ evtRuns \in 0 .. MaxRuns
    BY EvtAssumption DEF EvtInit
  <2> QED BY <2>1, <2>3, <2>4 DEF EvtInv
<1>2. EvtInv /\ [EvtNext]_evtVars => EvtInv'
  <2>1. CASE EvtInv /\ EvtNext
    BY <2>1, EvtStep
  <2>2. CASE EvtInv /\ UNCHANGED evtVars
    BY <2>2 DEF evtVars, EvtInv
  <2> QED BY <2>1, <2>2
<1> QED BY <1>1, <1>2, PTL DEF EvtSpec

\* Every address the event manager holds, as the next instruction of an entry, in its jump
\* table or on its return stack, is one of memory, whatever whole scripts there are,
\* whichever of their lines main hooks or replaces, however often, and whatever runs
\* then.  Not claimed of a replacement shorter than the instruction it is put over.
THEOREM EvtTypeCorrect == ~PatchShorter => (EvtSpec => []EvtTypeOK)
<1>1. EvtInv => EvtTypeOK
  BY EvtInvImpliesTypes
<1> QED BY <1>1, EvtInvHolds, PTL
-----------------------------------------------------------------------------
(* What comes of executing a script from an address on: the work it does,  *)
(* and how it goes on after that, back to where it was called from, at a   *)
(* label of the patched script, or not at all.                             *)

Outcomes == {o \in [acts : Seq(Nat), flow : {ReturnFromCall, Return, Goto}, label : Nat] :
               o.flow # Goto => o.label = 0}

\* Nothing, and back.
Unit == [acts |-> <<>>, flow |-> ReturnFromCall, label |-> 0]

\* Of one line.  Those of the patched script also end and have labels.
OutcomeOf(line) ==
    [acts |-> line.acts,
     flow |-> IF line.flow \in {Return, Goto, Lbl, EvtEnd} THEN line.flow ELSE ReturnFromCall,
     label |-> IF line.flow \in {Goto, Lbl} THEN line.label ELSE 0]

\* Of one and then another.
Then(s, t) == IF s.flow \in {Return, Goto} THEN s
              ELSE [acts |-> s.acts \o t.acts, flow |-> t.flow, label |-> t.label]

\* Of the instruction at an address, when O has those of the scripts that are called.
OutcomeAt(m, O, a) == IF getOpcode(m[a]) = Call THEN O[m[a + 1]] ELSE OutcomeOf(LineAt(m, a))

LEMMA UnitOutcome ==
    /\ Unit \in Outcomes /\ Unit.acts = <<>> /\ Unit.flow = ReturnFromCall /\ Unit.label = 0
    /\ Unit.flow \notin {Return, Goto}
BY EmptySeq DEF Unit, Outcomes, ReturnFromCall, Return, Goto

LEMMA OutcomeFields ==
    ASSUME NEW s \in Outcomes
    PROVE  /\ s.acts \in Seq(Nat) /\ s.flow \in {ReturnFromCall, Return, Goto} /\ s.label \in Nat
           /\ s = [acts |-> s.acts, flow |-> s.flow, label |-> s.label]
           /\ s.flow # Goto => s.label = 0
BY DEF Outcomes

LEMMA ThenOutcome ==
    ASSUME NEW s \in Outcomes, NEW t \in Outcomes
    PROVE  Then(s, t) \in Outcomes
<1>1. /\ s.acts \in Seq(Nat) /\ t.acts \in Seq(Nat)
      /\ t.flow \in {ReturnFromCall, Return, Goto} /\ t.label \in Nat
      /\ t.flow # Goto => t.label = 0
  BY OutcomeFields
<1>2. s.acts \o t.acts \in Seq(Nat)
  BY <1>1, ConcatProperties
<1>3. [acts |-> s.acts \o t.acts, flow |-> t.flow, label |-> t.label] \in Outcomes
  BY <1>1, <1>2 DEF Outcomes
<1> QED BY <1>3 DEF Then

LEMMA ThenUnit ==
    ASSUME NEW s \in Outcomes
    PROVE  Then(s, Unit) = s
<1>1. /\ s.acts \in Seq(Nat) /\ s.flow \in {ReturnFromCall, Return, Goto}
      /\ s = [acts |-> s.acts, flow |-> s.flow, label |-> s.label]
      /\ s.flow # Goto => s.label = 0
  BY OutcomeFields
<1>2. s.acts \o Unit.acts = s.acts
  BY <1>1, ConcatEmptySeq, UnitOutcome
<1>3. CASE s.flow \in {Return, Goto}
  BY <1>3 DEF Then
<1>4. CASE s.flow \notin {Return, Goto}
  BY <1>1, <1>2, <1>4, UnitOutcome DEF Then, Goto, ReturnFromCall
<1> QED BY <1>3, <1>4

\* An instruction that is neither a label nor an end.
LEMMA PlainOutcome ==
    ASSUME NEW line, line.acts \in Seq(Nat), line.flow \notin {Lbl, EvtEnd},
           line.flow = Goto => line.label \in Nat
    PROVE  /\ OutcomeOf(line) \in Outcomes /\ OutcomeOf(line).acts = line.acts
           /\ line.flow \in {Return, Goto} => OutcomeOf(line).flow = line.flow
           /\ line.flow \notin {Return, Goto} => OutcomeOf(line).flow = ReturnFromCall
           /\ line.flow = Goto => OutcomeOf(line).label = line.label
           /\ line.flow # Goto => OutcomeOf(line).label = 0
BY DEF OutcomeOf, Outcomes, Lbl, EvtEnd, Return, Goto, ReturnFromCall

\* u has at b the instruction that m has at a.
SameAt(u, b, m, a) == u[b] = m[a] /\ (getInstructionLength(m[a]) >= 2 => u[b + 1] = m[a + 1])

LEMMA ArgsAndLength ==
    ASSUME NEW w \in Nat
    PROVE  getNumArgs(w) > 0 <=> getInstructionLength(w) >= 2
<1>1. getNumArgs(w) \in Nat
  BY DEF getNumArgs
<1> QED BY <1>1 DEF getInstructionLength

LEMMA SameLine ==
    ASSUME NEW m, NEW H, CodeOK(m, H), NEW a \in H, NEW u, NEW b, SameAt(u, b, m, a)
    PROVE  LineAt(u, b) = LineAt(m, a)
<1>1. m[a] \in Nat /\ u[b] = m[a]
  BY InstructionAt DEF SameAt
<1>2. getNumArgs(m[a]) > 0 => u[b + 1] = m[a + 1]
  BY <1>1, ArgsAndLength DEF SameAt
<1>3. getOpcode(m[a]) \in {Lbl, Goto} => u[b + 1] = m[a + 1]
  BY DEF CodeOK, SameAt
<1> DEFINE op == getOpcode(m[a])
           n == getNumArgs(m[a])
<1>4. /\ LineAt(m, a) = [acts |-> IF op = Act /\ n > 0 THEN <<m[a + 1]>>
                                  ELSE IF op = Act THEN <<0>> ELSE <<>>,
                         flow |-> op, label |-> IF op \in {Lbl, Goto} THEN m[a + 1] ELSE 0,
                         words |-> getInstructionLength(m[a])]
      /\ LineAt(u, b) = [acts |-> IF op = Act /\ n > 0 THEN <<u[b + 1]>>
                                  ELSE IF op = Act THEN <<0>> ELSE <<>>,
                         flow |-> op, label |-> IF op \in {Lbl, Goto} THEN u[b + 1] ELSE 0,
                         words |-> getInstructionLength(m[a])]
  BY <1>1 DEF LineAt
<1>5. (n > 0 => u[b + 1] = m[a + 1]) /\ (op \in {Lbl, Goto} => u[b + 1] = m[a + 1])
  BY <1>2, <1>3
<1> HIDE DEF op, n
<1>6. CASE u[b + 1] = m[a + 1]
  BY <1>4, <1>6
<1>7. CASE ~(n > 0) /\ op \notin {Lbl, Goto}
  BY <1>4, <1>7
<1> QED BY <1>5, <1>6, <1>7

\* The line of an instruction.
LEMMA LineTypes ==
    ASSUME NEW m, NEW H, CodeOK(m, H), NEW a \in H
    PROVE  /\ LineAt(m, a).acts \in Seq(Nat) /\ LineAt(m, a).label \in Nat
           /\ LineAt(m, a).flow = getOpcode(m[a])
           /\ getOpcode(m[a]) # Act => LineAt(m, a).acts = <<>>
           /\ getOpcode(m[a]) \in {Lbl, Goto} => LineAt(m, a).label = m[a + 1]
           /\ LineAt(m, a).words = getInstructionLength(m[a])
<1>1. m \in Seq(Nat)
  BY DEF CodeOK
<1>2. /\ Len(m) \in Nat /\ a \in 1 .. Len(m) /\ m[a] \in Nat
      /\ getInstructionLength(m[a]) \in Nat /\ a + getInstructionLength(m[a]) <= Len(m) + 1
  BY InstructionAt DEF After
<1>3. getInstructionLength(m[a]) >= 2 => m[a + 1] \in Nat
  <2> SUFFICES ASSUME getInstructionLength(m[a]) >= 2 PROVE m[a + 1] \in Nat
    OBVIOUS
  <2>1. a + 1 \in 1 .. Len(m)
    BY <1>2
  <2> QED BY <1>1, <2>1, ElementOfSeq
<1>4. getNumArgs(m[a]) > 0 => m[a + 1] \in Nat
  BY <1>2, <1>3, ArgsAndLength
<1>5. getOpcode(m[a]) \in {Lbl, Goto} => m[a + 1] \in Nat
  BY <1>3 DEF CodeOK
<1>6. \A x \in Nat : <<x>> \in Seq(Nat)
  OBVIOUS
<1>7. LineAt(m, a).acts \in Seq(Nat)
  BY <1>4, <1>6, EmptySeq DEF LineAt
<1>8. LineAt(m, a).label \in Nat
  BY <1>5 DEF LineAt
<1> QED BY <1>7, <1>8 DEF LineAt

LEMMA InstructionOutcome ==
    ASSUME NEW m, NEW H, CodeOK(m, H), NEW a \in H, getOpcode(m[a]) \notin {Lbl, EvtEnd}
    PROVE  /\ OutcomeOf(LineAt(m, a)) \in Outcomes
           /\ OutcomeOf(LineAt(m, a)).acts = LineAt(m, a).acts
           /\ getOpcode(m[a]) \in {Return, Goto} =>
                OutcomeOf(LineAt(m, a)).flow = getOpcode(m[a])
           /\ getOpcode(m[a]) \notin {Return, Goto} =>
                OutcomeOf(LineAt(m, a)).flow = ReturnFromCall
           /\ getOpcode(m[a]) = Goto => OutcomeOf(LineAt(m, a)).label = m[a + 1]
<1>1. /\ LineAt(m, a).acts \in Seq(Nat) /\ LineAt(m, a).label \in Nat
      /\ LineAt(m, a).flow = getOpcode(m[a])
      /\ getOpcode(m[a]) \in {Lbl, Goto} => LineAt(m, a).label = m[a + 1]
  BY LineTypes
<1> DEFINE line == LineAt(m, a)
<1> HIDE DEF line
<1>2. /\ OutcomeOf(line) \in Outcomes /\ OutcomeOf(line).acts = line.acts
      /\ line.flow \in {Return, Goto} => OutcomeOf(line).flow = line.flow
      /\ line.flow \notin {Return, Goto} => OutcomeOf(line).flow = ReturnFromCall
      /\ line.flow = Goto => OutcomeOf(line).label = line.label
  BY <1>1, PlainOutcome DEF line
<1> QED BY <1>1, <1>2 DEF line

LEMMA SameOutcome ==
    ASSUME NEW m, NEW H, CodeOK(m, H), NEW a \in H, NEW u, NEW b, SameAt(u, b, m, a),
           NEW O, NEW O1, getOpcode(m[a]) = Call => O1[m[a + 1]] = O[m[a + 1]]
    PROVE  OutcomeAt(u, O1, b) = OutcomeAt(m, O, a)
<1>1. u[b] = m[a] /\ LineAt(u, b) = LineAt(m, a)
  BY SameLine DEF SameAt
<1>2. getOpcode(m[a]) = Call => u[b + 1] = m[a + 1]
  BY DEF CodeOK, SameAt
<1> QED BY <1>1, <1>2 DEF OutcomeAt
-----------------------------------------------------------------------------
(* What a patched image means.  Scripts that run outside the patched one,  *)
(* the mod's and the forwarders, have an outcome from each of their        *)
(* instructions on; a line of the patched script has the outcome of the    *)
(* instruction at its address.                                             *)

\* The instruction at a, one of those in K, and what comes of it by O.
KeptAt(m, K, O, a) ==
    /\ getOpcode(m[a]) \notin {Lbl, EvtEnd}
    /\ getOpcode(m[a]) # ReturnFromCall => After(m, a) \in K
    /\ getOpcode(m[a]) = Call => m[a + 1] \in K
    /\ O[a] = IF getOpcode(m[a]) = ReturnFromCall THEN Unit
              ELSE Then(OutcomeAt(m, O, a), O[After(m, a)])

KeptOK(m, H, K, O) ==
    /\ K \subseteq H \ ParentWords /\ O \in [K -> Outcomes]
    /\ \A a \in K : KeptAt(m, K, O, a)

\* The line is what the instruction at a is.
LineFits(m, K, O, a, line) ==
    /\ getOpcode(m[a]) = Call => m[a + 1] \in K
    /\ OutcomeOf(line) = OutcomeAt(m, O, a)

LinesFit(m, K, O, ads, lines) == \A j \in 1 .. Len(lines) : LineFits(m, K, O, ads[j], lines[j])

\* The mod's scripts and single instructions are still what they were.
AsideOK(m, K) ==
    /\ Children \subseteq Straight /\ Straight \subseteq K
    /\ \A a \in Straight : /\ getOpcode(m[a]) \in {Nop, Act, ReturnFromCall}
                           /\ getOpcode(m[a]) # ReturnFromCall => After(m, a) \in Straight
    /\ \A r \in Replacements : getOpcode(m[r]) \in {Nop, Act, Return}

Whole(m, H, lines, ads, K, O) ==
    /\ LaidOut(m, H, lines, ads) /\ KeptOK(m, H, K, O) /\ LinesFit(m, K, O, ads, lines)
    /\ GoesForward(lines) /\ AsideOK(m, K)

\* The words of instructions that do not touch.
LEMMA WordsAway ==
    ASSUME NEW m, NEW H, CodeOK(m, H), ScriptOK(m, H), NEW a \in H \ ParentWords
    PROVE  \A x \in a .. After(m, a) - 1 : x \notin ParentWords
<1>1. Parent \in H /\ ParentEnd \in H
  BY DEF ScriptOK
<1>2. a \in Nat /\ Parent \in Nat /\ ParentEnd \in Nat /\ After(m, a) \in Nat
  BY <1>1, InstructionAt
<1>3. a < Parent \/ a > ParentEnd
  BY <1>2 DEF ParentWords
<1>4. a < Parent => After(m, a) <= Parent
  BY <1>1 DEF CodeOK
<1> QED BY <1>2, <1>3, <1>4 DEF ParentWords

LEMMA WordsApart ==
    ASSUME NEW m, NEW H, CodeOK(m, H), NEW a \in H, NEW src \in H, NEW end \in Nat,
           a \notin src .. end - 1
    PROVE  \A x \in a .. After(m, a) - 1 : x \notin src .. end - 1
<1>1. a \in Nat /\ src \in Nat /\ After(m, a) \in Nat
  BY InstructionAt
<1>2. a < src \/ a >= end
  BY <1>1
<1>3. a < src => After(m, a) <= src
  BY DEF CodeOK
<1> QED BY <1>1, <1>2, <1>3

LEMMA SameElsewhere ==
    ASSUME NEW m, NEW H, CodeOK(m, H), NEW a \in H, NEW u, NEW src, NEW end,
           Elsewhere(u, m, src, end), \A x \in a .. After(m, a) - 1 : x \notin src .. end - 1
    PROVE  SameAt(u, a, m, a) /\ After(u, a) = After(m, a)
<1>1. /\ Len(m) \in Nat /\ a \in 1 .. Len(m)
      /\ getInstructionLength(m[a]) \in Nat /\ getInstructionLength(m[a]) >= 1
      /\ a + getInstructionLength(m[a]) <= Len(m) + 1
  BY InstructionAt DEF After
<1>2. u[a] = m[a]
  <2>1. a \in a .. After(m, a) - 1
    BY <1>1 DEF After
  <2> QED BY <1>1, <2>1 DEF Elsewhere
<1>3. getInstructionLength(m[a]) >= 2 => u[a + 1] = m[a + 1]
  <2> SUFFICES ASSUME getInstructionLength(m[a]) >= 2 PROVE u[a + 1] = m[a + 1]
    OBVIOUS
  <2>1. a + 1 \in 1 .. Len(m)
    BY <1>1
  <2>2. a + 1 \in a .. After(m, a) - 1
    BY <1>1 DEF After
  <2> QED BY <2>1, <2>2 DEF Elsewhere
<1> QED BY <1>2, <1>3 DEF SameAt, After

\* What a patch does not touch keeps its outcome.
LEMMA KeptStays ==
    ASSUME NEW m, NEW H, CodeOK(m, H), ScriptOK(m, H), NEW K, NEW O, KeptOK(m, H, K, O),
           NEW u, NEW src, NEW end, Elsewhere(u, m, src, end), src .. end - 1 \subseteq ParentWords,
           NEW K1, K \subseteq K1, NEW O1, \A a \in K : O1[a] = O[a],
           NEW a \in K
    PROVE  KeptAt(u, K1, O1, a)
<1>1. a \in H \ ParentWords /\ KeptAt(m, K, O, a)
  BY DEF KeptOK
<1>2. SameAt(u, a, m, a) /\ After(u, a) = After(m, a)
  <2>1. \A x \in a .. After(m, a) - 1 : x \notin src .. end - 1
    BY <1>1, WordsAway
  <2> QED BY <1>1, <2>1, SameElsewhere
<1>3. u[a] = m[a]
  BY <1>2 DEF SameAt
<1>4. getOpcode(m[a]) = Call => u[a + 1] = m[a + 1] /\ O1[m[a + 1]] = O[m[a + 1]]
  <2>1. getOpcode(m[a]) = Call => u[a + 1] = m[a + 1]
    BY <1>1, <1>2 DEF SameAt, CodeOK
  <2>2. getOpcode(m[a]) = Call => m[a + 1] \in K
    BY <1>1 DEF KeptAt
  <2> QED BY <2>1, <2>2
<1>5. OutcomeAt(u, O1, a) = OutcomeAt(m, O, a)
  BY <1>1, <1>2, <1>4, SameOutcome
<1>6. getOpcode(m[a]) # ReturnFromCall => O1[After(m, a)] = O[After(m, a)]
  BY <1>1 DEF KeptAt
<1>7. O1[a] = IF getOpcode(u[a]) = ReturnFromCall THEN Unit
              ELSE Then(OutcomeAt(u, O1, a), O1[After(u, a)])
  BY <1>1, <1>2, <1>3, <1>5, <1>6 DEF KeptAt
<1> QED BY <1>1, <1>2, <1>3, <1>4, <1>7 DEF KeptAt

LEMMA LineStays ==
    ASSUME NEW m, NEW H, CodeOK(m, H), NEW K, NEW O,
           NEW a \in H, NEW line, LineFits(m, K, O, a, line),
           NEW u, NEW src \in H, NEW end \in Nat, Elsewhere(u, m, src, end),
           a \notin src .. end - 1,
           NEW K1, K \subseteq K1, NEW O1, \A b \in K : O1[b] = O[b]
    PROVE  LineFits(u, K1, O1, a, line)
<1>1. SameAt(u, a, m, a)
  BY WordsApart, SameElsewhere
<1>2. u[a] = m[a]
  BY <1>1 DEF SameAt
<1>3. getOpcode(m[a]) = Call =>
        u[a + 1] = m[a + 1] /\ O1[m[a + 1]] = O[m[a + 1]] /\ m[a + 1] \in K
  <2>1. getOpcode(m[a]) = Call => u[a + 1] = m[a + 1]
    BY <1>1 DEF SameAt, CodeOK
  <2>2. getOpcode(m[a]) = Call => m[a + 1] \in K
    BY DEF LineFits
  <2> QED BY <2>1, <2>2
<1>4. OutcomeAt(u, O1, a) = OutcomeAt(m, O, a)
  BY <1>1, <1>3, SameOutcome
<1> QED BY <1>2, <1>3, <1>4 DEF LineFits

LEMMA AsideStays ==
    ASSUME NEW m, NEW H, CodeOK(m, H), ScriptOK(m, H), NEW K, NEW O, KeptOK(m, H, K, O),
           AsideOK(m, K), NEW u, NEW src, NEW end, Elsewhere(u, m, src, end),
           src .. end - 1 \subseteq ParentWords, NEW K1, K \subseteq K1
    PROVE  AsideOK(u, K1)
<1>1. ASSUME NEW a \in H \ ParentWords PROVE u[a] = m[a]
  <2>1. a \in 1 .. Len(m)
    BY InstructionAt
  <2> QED BY <2>1 DEF Elsewhere
<1>2. \A a \in Straight : u[a] = m[a] /\ After(u, a) = After(m, a)
  <2>1. \A a \in Straight : a \in H \ ParentWords
    BY DEF AsideOK, KeptOK
  <2> QED BY <1>1, <2>1 DEF After
<1>3. \A r \in Replacements : u[r] = m[r]
  BY <1>1 DEF ScriptOK
<1> QED BY <1>2, <1>3 DEF AsideOK

\* Where line j of a script, in which one line took the place of lines i to k, was before.
OldPlace(j, i, k) == IF j <= i THEN j ELSE j + (k - i)

LEMMA OldPlaces ==
    ASSUME NEW n \in Nat, NEW i \in 1 .. n - 1, NEW k \in i .. n - 1
    PROVE  /\ n - (k - i) \in Nat /\ i \in 1 .. n - (k - i) /\ i \in Nat /\ k \in Nat
           /\ \A j \in 1 .. n - (k - i) :
                /\ OldPlace(j, i, k) \in 1 .. n
                /\ j # i => OldPlace(j, i, k) \notin i .. k
           /\ \A p \in (1 .. n) \ (i .. k) : \E j \in 1 .. n - (k - i) : j # i /\ OldPlace(j, i, k) = p
           /\ \A j, l \in 1 .. n - (k - i) : j < l <=> OldPlace(j, i, k) < OldPlace(l, i, k)
<1>1. /\ n - (k - i) \in Nat /\ i \in 1 .. n - (k - i) /\ i \in Nat /\ k \in Nat
      /\ i >= 1 /\ i <= k /\ k <= n - 1
  OBVIOUS
<1>2. ASSUME NEW j \in 1 .. n - (k - i)
      PROVE  OldPlace(j, i, k) \in 1 .. n /\ (j # i => OldPlace(j, i, k) \notin i .. k)
  BY <1>1 DEF OldPlace
<1>3. ASSUME NEW p \in (1 .. n) \ (i .. k)
      PROVE  \E j \in 1 .. n - (k - i) : j # i /\ OldPlace(j, i, k) = p
  <2>1. CASE p < i
    <3>1. p \in 1 .. n - (k - i) /\ p # i /\ OldPlace(p, i, k) = p
      BY <1>1, <2>1 DEF OldPlace
    <3> QED BY <3>1
  <2>2. CASE p > k
    <3>1. p - (k - i) \in 1 .. n - (k - i) /\ p - (k - i) # i /\ OldPlace(p - (k - i), i, k) = p
      BY <1>1, <2>2 DEF OldPlace
    <3> QED BY <3>1
  <2> QED BY <1>1, <2>1, <2>2
<1>4. ASSUME NEW j \in 1 .. n - (k - i), NEW l \in 1 .. n - (k - i)
      PROVE  j < l <=> OldPlace(j, i, k) < OldPlace(l, i, k)
  BY <1>1 DEF OldPlace
<1> QED BY <1>1, <1>2, <1>3, <1>4

\* A line that is not a label, and goes on where one of those it replaces did if it is a goto.
NewLine(lines, i, k, line) ==
    /\ line.flow \notin {Lbl, EvtEnd}
    /\ line.flow = Goto => \E t \in i .. k : lines[t].flow = Goto /\ lines[t].label = line.label

LEMMA ForwardStays ==
    ASSUME NEW S, NEW lines \in Seq(S), GoesForward(lines),
           NEW i \in 1 .. Len(lines) - 1, NEW k \in i .. Len(lines) - 1,
           \A j \in i .. k : lines[j].flow # Lbl,
           NEW line, NewLine(lines, i, k, line)
    PROVE  GoesForward(Splice(lines, i, k, line))
<1> DEFINE n == Len(lines)
           u == Splice(lines, i, k, line)
           N == n - (k - i)
<1>1. n \in Nat /\ i \in 1 .. n /\ k \in i .. n
  BY LenProperties
<1>2. Spliced(u, lines, i, k, line)
  BY <1>1, SpliceAt
<1> HIDE DEF u
<1>3. /\ N \in Nat /\ i \in 1 .. N /\ i \in Nat /\ k \in Nat
      /\ \A j \in 1 .. N : /\ OldPlace(j, i, k) \in 1 .. n
                           /\ j # i => OldPlace(j, i, k) \notin i .. k
      /\ \A p \in (1 .. n) \ (i .. k) : \E j \in 1 .. N : j # i /\ OldPlace(j, i, k) = p
      /\ \A j, l \in 1 .. N : j < l <=> OldPlace(j, i, k) < OldPlace(l, i, k)
  BY <1>1, OldPlaces
<1>4. Len(u) = N /\ u[i] = line /\ \A j \in 1 .. N : j # i => u[j] = lines[OldPlace(j, i, k)]
  <2>1. Len(u) = N /\ u[i] = line
    BY <1>2, <1>3 DEF Spliced
  <2>2. ASSUME NEW j \in 1 .. N, j # i PROVE u[j] = lines[OldPlace(j, i, k)]
    BY <1>1, <1>2, <2>2 DEF Spliced, OldPlace
  <2> QED BY <2>1, <2>2
<1>5. \A j \in 1 .. N : u[j].flow = Lbl => j # i
  BY <1>4 DEF NewLine
\* The target of an old goto is where it was, seen from the new lines.
<1>6. ASSUME NEW t \in 1 .. n, lines[t].flow = Goto
      PROVE  \E j \in 1 .. N : /\ j # i /\ t < OldPlace(j, i, k)
                               /\ u[j].flow = Lbl /\ u[j].label = lines[t].label
  <2>1. PICK p \in 1 .. n : t < p /\ lines[p].flow = Lbl /\ lines[p].label = lines[t].label
    BY <1>6 DEF GoesForward
  <2>2. p \notin i .. k
    BY <2>1
  <2>3. PICK j \in 1 .. N : j # i /\ OldPlace(j, i, k) = p
    BY <1>3, <2>2
  <2> QED BY <1>4, <2>1, <2>3
<1>7. ASSUME NEW j \in 1 .. N, u[j].flow = Goto
      PROVE  \E l \in 1 .. N : j < l /\ u[l].flow = Lbl /\ u[l].label = u[j].label
  <2>1. CASE j # i
    <3> DEFINE t == OldPlace(j, i, k)
    <3>1. t \in 1 .. n /\ lines[t] = u[j]
      BY <1>3, <1>4, <2>1
    <3>2. \A l \in 1 .. N : j < l <=> t < OldPlace(l, i, k)
      BY <1>3
    <3> HIDE DEF t
    <3>3. PICK l \in 1 .. N : t < OldPlace(l, i, k) /\ u[l].flow = Lbl /\ u[l].label = lines[t].label
      BY <1>6, <1>7, <3>1
    <3> QED BY <3>1, <3>2, <3>3
  <2>2. CASE j = i
    <3>1. PICK t \in i .. k : lines[t].flow = Goto /\ lines[t].label = line.label
      BY <1>4, <1>7, <2>2 DEF NewLine
    <3>2. t \in 1 .. n /\ t >= i
      BY <1>1
    <3>3. PICK l \in 1 .. N : /\ t < OldPlace(l, i, k)
                              /\ u[l].flow = Lbl /\ u[l].label = lines[t].label
      BY <1>6, <3>1, <3>2
    <3>4. OldPlace(i, i, k) = i /\ OldPlace(l, i, k) \in Nat
      BY <1>3 DEF OldPlace
    <3>5. i < l
      <4>1. i < l <=> OldPlace(i, i, k) < OldPlace(l, i, k)
        BY <1>3
      <4>2. t \in Nat
        BY <3>2
      <4> QED BY <1>3, <3>2, <3>3, <3>4, <4>1, <4>2
    <3> QED BY <1>4, <2>2, <3>1, <3>3, <3>5
  <2> QED BY <2>1, <2>2
<1>8. ASSUME NEW j \in 1 .. N, NEW l \in 1 .. N,
             u[j].flow = Lbl, u[l].flow = Lbl, u[j].label = u[l].label
      PROVE  j = l
  <2>1. j # i /\ l # i
    BY <1>5, <1>8
  <2>2. OldPlace(j, i, k) = OldPlace(l, i, k)
    <3>1. u[j] = lines[OldPlace(j, i, k)] /\ u[l] = lines[OldPlace(l, i, k)]
      BY <1>4, <2>1
    <3>2. OldPlace(j, i, k) \in 1 .. n /\ OldPlace(l, i, k) \in 1 .. n
      BY <1>3
    <3> QED BY <1>8, <3>1, <3>2 DEF GoesForward
  <2>3. ~(j < l) /\ ~(l < j)
    <3>1. OldPlace(j, i, k) \in Nat /\ OldPlace(l, i, k) \in Nat
      BY <1>3
    <3>2. j < l <=> OldPlace(j, i, k) < OldPlace(l, i, k)
      BY <1>3
    <3>3. l < j <=> OldPlace(l, i, k) < OldPlace(j, i, k)
      BY <1>3
    <3> QED BY <2>2, <3>1, <3>2, <3>3
  <2> QED BY <1>3, <2>3
<1>9. GoesForward(u)
  BY <1>4, <1>7, <1>8 DEF GoesForward
<1> QED BY <1>9 DEF u

\* The other lines keep their outcomes.
LEMMA LinesFitStay ==
    ASSUME NEW m, NEW H, NEW lines, NEW ads, LaidOut(m, H, lines, ads),
           NEW K, NEW O, LinesFit(m, K, O, ads, lines),
           NEW i \in 1 .. Len(lines) - 1, NEW k \in i .. Len(lines) - 1,
           NEW src, src = ads[i], NEW end \in Nat, end <= ads[k + 1],
           NEW u, Elsewhere(u, m, src, end),
           NEW K1, K \subseteq K1, NEW O1, \A b \in K : O1[b] = O[b],
           NEW line, LineFits(u, K1, O1, src, line)
    PROVE  LinesFit(u, K1, O1, Shifted(ads, i, k, Len(lines)), Splice(lines, i, k, line))
<1> DEFINE n == Len(lines)
           v == Splice(lines, i, k, line)
           N == n - (k - i)
           bds == Shifted(ads, i, k, n)
<1>1. /\ CodeOK(m, H) /\ ads \in [1 .. n -> H \cap ParentWords]
      /\ \A j, l \in 1 .. n : j < l => ads[j] < ads[l]
  BY DEF LaidOut, LinesOK
<1>2. PICK S : lines \in Seq(S)
  BY DEF LaidOut, LinesOK
<1>3. n \in Nat /\ i \in 1 .. n /\ k \in i .. n
  BY <1>2, LenProperties
<1>4. Spliced(v, lines, i, k, line)
  BY <1>2, <1>3, SpliceAt
<1> HIDE DEF v
<1>5. /\ N \in Nat /\ i \in 1 .. N
      /\ \A j \in 1 .. N : /\ OldPlace(j, i, k) \in 1 .. n
                           /\ j # i => OldPlace(j, i, k) \notin i .. k
  BY <1>3, OldPlaces
<1>6. /\ Len(v) = N /\ v[i] = line
      /\ \A j \in 1 .. N : j # i => v[j] = lines[OldPlace(j, i, k)]
  <2>1. Len(v) = N /\ v[i] = line
    BY <1>4, <1>5 DEF Spliced
  <2>2. ASSUME NEW j \in 1 .. N, j # i PROVE v[j] = lines[OldPlace(j, i, k)]
    BY <1>3, <1>4, <2>2 DEF Spliced, OldPlace
  <2> QED BY <2>1, <2>2
<1>7. \A j \in 1 .. N : bds[j] = ads[OldPlace(j, i, k)]
  BY <1>3 DEF Shifted, OldPlace
<1> HIDE DEF bds
<1>8. OldPlace(i, i, k) = i
  BY DEF OldPlace
<1>9. ASSUME NEW j \in 1 .. N PROVE LineFits(u, K1, O1, bds[j], v[j])
  <2>1. CASE j = i
    BY <1>6, <1>7, <1>8, <2>1
  <2>2. CASE j # i
    <3> DEFINE p == OldPlace(j, i, k)
    <3>1. p \in 1 .. n /\ p \notin i .. k /\ bds[j] = ads[p] /\ v[j] = lines[p]
      BY <1>5, <1>6, <1>7, <2>2
    <3> HIDE DEF p
    <3>2. LineFits(m, K, O, ads[p], lines[p]) /\ ads[p] \in H /\ src \in H
      BY <1>1, <1>3, <3>1 DEF LinesFit
    <3>3. ads[p] \notin src .. end - 1
      <4>1. ads[p] \in Nat /\ src \in Nat
        BY <1>1, <3>2, InstructionAt
      <4>2. CASE p < i
        BY <1>1, <1>3, <3>1, <4>1, <4>2
      <4>3. CASE p > k
        <5>1. k + 1 \in 1 .. n /\ ads[k + 1] \in H
          BY <1>1, <1>3
        <5>2. ads[k + 1] \in Nat
          BY <1>1, <5>1, InstructionAt
        <5>3. p = k + 1 \/ k + 1 < p
          BY <1>3, <3>1, <4>3
        <5>4. ads[k + 1] <= ads[p]
          BY <1>1, <3>1, <4>1, <5>1, <5>2, <5>3, SMTT(30)
        <5> QED BY <4>1, <5>2, <5>4
      <4> QED BY <1>3, <3>1, <4>2, <4>3
    <3>4. LineFits(u, K1, O1, ads[p], lines[p])
      BY <1>1, <3>2, <3>3, LineStays
    <3> QED BY <3>1, <3>4
  <2> QED BY <2>1, <2>2
<1>10. LinesFit(u, K1, O1, bds, v)
  BY <1>6, <1>9 DEF LinesFit
<1> QED BY <1>10 DEF bds, v

\* The words of lines i to k.
LEMMA TakenWords ==
    ASSUME NEW m, NEW H, NEW lines, NEW ads, LaidOut(m, H, lines, ads),
           NEW i \in 1 .. Len(lines) - 1, NEW k \in i .. Len(lines) - 1,
           NEW src, src = ads[i], NEW end \in Nat, end <= ads[k + 1]
    PROVE  src .. end - 1 \subseteq ParentWords /\ src \in H
<1>1. CodeOK(m, H) /\ ScriptOK(m, H) /\ LinesOK(m, H, lines, ads, Parent)
  BY DEF LaidOut
<1>2. Len(lines) \in Nat
  BY <1>1, LenProperties DEF LinesOK
<1>3. i \in 1 .. Len(lines) /\ k + 1 \in 1 .. Len(lines)
  BY <1>2
<1>4. src \in H \cap ParentWords /\ ads[k + 1] \in H \cap ParentWords
  BY <1>1, <1>3 DEF LinesOK
<1>5. src \in Nat /\ ads[k + 1] \in Nat /\ Parent \in Nat /\ ParentEnd \in Nat
  <2>1. Parent \in H /\ ParentEnd \in H
    BY <1>1 DEF ScriptOK
  <2>2. \A a \in H : a \in Nat
    BY <1>1, InstructionAt
  <2> QED BY <1>4, <2>1, <2>2
<1>6. Parent <= src /\ ads[k + 1] <= ParentEnd
  BY <1>4, <1>5 DEF ParentWords
<1> QED BY <1>4, <1>5, <1>6 DEF ParentWords

\* A patch of lines i to k leaves a whole image when what it adds is.
LEMMA Edited ==
    ASSUME NEW m, NEW H, NEW lines, NEW ads, NEW K, NEW O, Whole(m, H, lines, ads, K, O),
           NEW i \in 1 .. Len(lines) - 1, NEW k \in i .. Len(lines) - 1,
           NEW src, src = ads[i], NEW end \in Nat, end <= ads[k + 1],
           NEW u, Elsewhere(u, m, src, end),
           NEW line, NewLine(lines, i, k, line), \A j \in i .. k : lines[j].flow # Lbl,
           NEW H1, LaidOut(u, H1, Splice(lines, i, k, line), Shifted(ads, i, k, Len(lines))),
           NEW K1, K \subseteq K1, K1 \subseteq H1 \ ParentWords,
           NEW O1 \in [K1 -> Outcomes], \A a \in K : O1[a] = O[a],
           \A a \in K1 \ K : KeptAt(u, K1, O1, a),
           LineFits(u, K1, O1, src, line)
    PROVE  Whole(u, H1, Splice(lines, i, k, line), Shifted(ads, i, k, Len(lines)), K1, O1)
<1>1. /\ LaidOut(m, H, lines, ads) /\ KeptOK(m, H, K, O) /\ LinesFit(m, K, O, ads, lines)
      /\ GoesForward(lines) /\ AsideOK(m, K)
  BY DEF Whole
<1>2. CodeOK(m, H) /\ ScriptOK(m, H) /\ LinesOK(m, H, lines, ads, Parent)
  BY <1>1 DEF LaidOut
<1>3. PICK S : lines \in Seq(S)
  BY <1>2 DEF LinesOK
<1>4. src .. end - 1 \subseteq ParentWords
  BY <1>1, TakenWords
<1>5. \A a \in K : KeptAt(u, K1, O1, a)
  BY <1>1, <1>2, <1>4, KeptStays
<1>6. KeptOK(u, H1, K1, O1)
  BY <1>5 DEF KeptOK
<1>7. LinesFit(u, K1, O1, Shifted(ads, i, k, Len(lines)), Splice(lines, i, k, line))
  BY <1>1, LinesFitStay
<1>8. GoesForward(Splice(lines, i, k, line))
  BY <1>1, <1>3, ForwardStays
<1>9. AsideOK(u, K1)
  BY <1>1, <1>2, <1>4, AsideStays
<1> QED BY <1>6, <1>7, <1>8, <1>9 DEF Whole
-----------------------------------------------------------------------------
(* The mod's scripts do what ActsOf says.                                  *)

ActsSeq(lines) == [i \in 1 .. Len(lines) |-> lines[i].acts]

LEMMA ActsPrepend ==
    ASSUME NEW S, NEW lines \in Seq(S), ActsSeq(lines) \in Seq(Seq(Nat)),
           NEW l, l.acts \in Seq(Nat)
    PROVE  /\ \E T : <<l>> \o lines \in Seq(T)
           /\ ActsSeq(<<l>> \o lines) \in Seq(Seq(Nat))
           /\ ActsSeq(<<l>> \o lines) = <<l.acts>> \o ActsSeq(lines)
<1> DEFINE T == S \cup {l}
           o == <<l>>
           w == <<l.acts>>
           n == Len(lines)
           v == ActsSeq(lines)
<1>1. n \in Nat /\ v \in Seq(Seq(Nat)) /\ Len(v) = n /\ \A i \in 1 .. n : v[i] = lines[i].acts
  BY LenProperties DEF ActsSeq
<1>2. S \subseteq T /\ o \in Seq(T) /\ Len(o) = 1 /\ o[1] = l
  OBVIOUS
<1>3. w \in Seq(Seq(Nat)) /\ Len(w) = 1 /\ w[1] = l.acts
  OBVIOUS
<1> HIDE DEF T, o, w, v, n
<1>4. lines \in Seq(T) /\ Len(lines) = n
  BY <1>2, SeqMonotonic DEF n
<1>5. /\ o \o lines \in Seq(T) /\ Len(o \o lines) = 1 + n
      /\ \A i \in 1 .. 1 + n : (o \o lines)[i] = IF i <= 1 THEN o[i] ELSE lines[i - 1]
  <2>1. /\ o \o lines \in Seq(T) /\ Len(o \o lines) = Len(o) + Len(lines)
        /\ \A i \in 1 .. Len(o) + Len(lines) :
             (o \o lines)[i] = IF i <= Len(o) THEN o[i] ELSE lines[i - Len(o)]
    BY <1>2, <1>4, ConcatProperties
  <2> QED BY <1>2, <1>4, <2>1
<1>6. /\ w \o v \in Seq(Seq(Nat)) /\ Len(w \o v) = 1 + n
      /\ \A i \in 1 .. 1 + n : (w \o v)[i] = IF i <= 1 THEN w[i] ELSE v[i - 1]
  <2>1. /\ w \o v \in Seq(Seq(Nat)) /\ Len(w \o v) = Len(w) + Len(v)
        /\ \A i \in 1 .. Len(w) + Len(v) :
             (w \o v)[i] = IF i <= Len(w) THEN w[i] ELSE v[i - Len(w)]
    BY <1>1, <1>3, ConcatProperties
  <2> QED BY <1>1, <1>3, <2>1
<1>7. ASSUME NEW i \in 1 .. 1 + n PROVE (o \o lines)[i].acts = (w \o v)[i]
  <2>1. CASE i = 1
    <3>1. 1 \in 1 .. 1 + n /\ 1 <= 1
      BY <1>1
    <3>2. (o \o lines)[1] = l /\ (w \o v)[1] = l.acts
      BY <1>2, <1>3, <1>5, <1>6, <3>1
    <3> QED BY <2>1, <3>2
  <2>2. CASE i # 1
    <3>1. i - 1 \in 1 .. n /\ ~(i <= 1)
      BY <1>1, <2>2
    <3> QED BY <1>1, <1>5, <1>6, <3>1
  <2> QED BY <2>1, <2>2
<1>8. ActsSeq(o \o lines) = w \o v
  <2>1. w \o v = [i \in 1 .. 1 + n |-> (w \o v)[i]]
    <3> DEFINE x == w \o v
    <3>1. x \in Seq(Seq(Nat)) /\ Len(x) = 1 + n
      BY <1>6
    <3> HIDE DEF x
    <3>2. x = [i \in 1 .. Len(x) |-> x[i]]
      BY <3>1
    <3>3. x = [i \in 1 .. 1 + n |-> x[i]]
      BY <3>1, <3>2
    <3> QED BY <3>3 DEF x
  <2>2. ActsSeq(o \o lines) = [i \in 1 .. 1 + n |-> (o \o lines)[i].acts]
    BY <1>5 DEF ActsSeq
  <2> QED BY <1>7, <2>1, <2>2
<1> QED BY <1>5, <1>6, <1>8 DEF o, w, v

\* Between its head and its return a script of the mod does its work.
LEMMA PlainActs ==
    ASSUME NEW m, NEW H, CodeOK(m, H), NEW K, NEW O, KeptOK(m, H, K, O), AsideOK(m, K),
           NEW child \in Straight
    PROVE  /\ ActsOf(m, child) \in Seq(Nat)
           /\ O[child] = [acts |-> ActsOf(m, child), flow |-> ReturnFromCall, label |-> 0]
<1> DEFINE Does(a) == /\ \E S : LinesOf(m, a) \in Seq(S)
                      /\ ActsSeq(LinesOf(m, a)) \in Seq(Seq(Nat))
                      /\ O[a] = [acts |-> FlattenSeq(ActsSeq(LinesOf(m, a))),
                                 flow |-> ReturnFromCall, label |-> 0]
           N == {n \in Nat : \A a \in Straight : Len(m) - a < n => Does(a)}
<1>1. \A a \in Straight : a \in H /\ a \in K
  BY DEF AsideOK, KeptOK
<1>2. m \in Seq(Nat) /\ Len(m) \in Nat /\ \A a \in H : a \in 1 .. Len(m)
  BY LenProperties DEF CodeOK
<1>3. 0 \in N
  BY <1>1, <1>2
<1>4. ASSUME NEW n \in N PROVE n + 1 \in N
  <2> SUFFICES ASSUME NEW a \in Straight, Len(m) - a < n + 1 PROVE Does(a)
    BY <1>4
  <2> DEFINE l == LineAt(m, a)
             op == getOpcode(m[a])
             b == After(m, a)
  <2>1. n \in Nat /\ a \in H /\ a \in K /\ a \in Addresses /\ ~(a > Len(m)) /\ a \in 1 .. Len(m)
    BY <1>1, <1>2, <1>4 DEF Addresses
  <2>2. LinesOf(m, a) = <<l>> \o (IF op \in Ends THEN <<>> ELSE LinesOf(m, b))
    BY <1>2, <2>1, LinesOfStep
  <2>3. op \in {Nop, Act, ReturnFromCall} /\ (op # ReturnFromCall => b \in Straight)
    BY DEF AsideOK
  <2>4. KeptAt(m, K, O, a)
    BY <2>1 DEF KeptOK
  <2>5. O[a] = IF op = ReturnFromCall THEN Unit ELSE Then(OutcomeAt(m, O, a), O[b])
    BY <2>4 DEF KeptAt
  <2>6. op \notin {Lbl, EvtEnd, Call, Return, Goto} /\ (op = ReturnFromCall <=> op \in Ends)
    BY <2>3 DEF Ends, Nop, Act, ReturnFromCall, Lbl, EvtEnd, Call, Return, Goto
  <2>7. /\ l.acts \in Seq(Nat) /\ (op = ReturnFromCall => l.acts = <<>>)
        /\ OutcomeOf(l).acts = l.acts /\ OutcomeOf(l).flow = ReturnFromCall
    <3>1. /\ l.acts \in Seq(Nat) /\ (op # Act => l.acts = <<>>)
      BY <2>1, LineTypes
    <3>2. op = ReturnFromCall => op # Act
      BY DEF ReturnFromCall, Act
    <3>3. OutcomeOf(l).acts = l.acts /\ OutcomeOf(l).flow = ReturnFromCall
      BY <2>1, <2>6, InstructionOutcome
    <3> QED BY <3>1, <3>2, <3>3
  <2>8. OutcomeAt(m, O, a) = OutcomeOf(l)
    BY <2>6 DEF OutcomeAt
  <2>9. b \in Nat /\ b > a
    BY <2>1, InstructionAt
  <2> HIDE DEF l, op, b
  <2>10. CASE op = ReturnFromCall
    <3> DEFINE e == <<>>
    <3>1. e \in Seq({}) /\ ActsSeq(e) = <<>> /\ ActsSeq(e) \in Seq(Seq(Nat))
      BY EmptySeq DEF ActsSeq
    <3>2. LinesOf(m, a) = <<l>> \o e
      BY <2>2, <2>6, <2>10
    <3>3. FlattenSeq(ActsSeq(e)) = <<>>
      BY <3>1, FlattenEmpty
    <3> HIDE DEF e
    <3>4. /\ \E T : <<l>> \o e \in Seq(T)
          /\ ActsSeq(<<l>> \o e) \in Seq(Seq(Nat))
          /\ ActsSeq(<<l>> \o e) = <<l.acts>> \o ActsSeq(e)
      BY <2>7, <3>1, ActsPrepend
    <3>5. FlattenSeq(<<l.acts>> \o ActsSeq(e)) = l.acts \o FlattenSeq(ActsSeq(e))
      BY <2>7, <3>1, FlattenPrepends
    <3>6. l.acts \o <<>> = <<>>
      BY <2>7, <2>10, EmptySeq, ConcatEmptySeq
    <3>7. O[a] = [acts |-> <<>>, flow |-> ReturnFromCall, label |-> 0]
      BY <2>5, <2>10 DEF Unit
    <3> QED BY <3>2, <3>3, <3>4, <3>5, <3>6, <3>7
  <2>11. CASE op # ReturnFromCall
    <3> DEFINE r == LinesOf(m, b)
    <3>1. b \in Straight /\ Len(m) - b < n
      BY <1>2, <2>1, <2>3, <2>9, <2>11
    <3>2. Does(b)
      BY <1>4, <3>1
    <3>3. PICK S : r \in Seq(S)
      BY <3>2
    <3>4. /\ ActsSeq(r) \in Seq(Seq(Nat))
          /\ O[b] = [acts |-> FlattenSeq(ActsSeq(r)), flow |-> ReturnFromCall, label |-> 0]
      BY <3>2
    <3>5. LinesOf(m, a) = <<l>> \o r
      BY <2>2, <2>6, <2>11
    <3> HIDE DEF r
    <3>6. /\ \E T : <<l>> \o r \in Seq(T)
          /\ ActsSeq(<<l>> \o r) \in Seq(Seq(Nat))
          /\ ActsSeq(<<l>> \o r) = <<l.acts>> \o ActsSeq(r)
      BY <2>7, <3>3, <3>4, ActsPrepend
    <3>7. FlattenSeq(<<l.acts>> \o ActsSeq(r)) = l.acts \o FlattenSeq(ActsSeq(r))
      BY <2>7, <3>4, FlattenPrepends
    <3>8. O[a] = Then(OutcomeOf(l), O[b])
      BY <2>5, <2>8, <2>11
    <3>9. OutcomeOf(l).flow \notin {Return, Goto}
      BY <2>7 DEF Return, Goto, ReturnFromCall
    <3>10. O[a] = [acts |-> l.acts \o FlattenSeq(ActsSeq(r)), flow |-> ReturnFromCall, label |-> 0]
      BY <2>7, <3>4, <3>8, <3>9 DEF Then
    <3> QED BY <3>5, <3>6, <3>7, <3>10
  <2> QED BY <2>10, <2>11
<1> HIDE DEF N, Does
<1>5. N = Nat
  <2>1. N \in SUBSET Nat
    BY DEF N
  <2> QED BY <1>3, <1>4, <2>1, SetInduction
<1>6. Does(child)
  <2>1. Len(m) \in N /\ Len(m) - child < Len(m)
    BY <1>1, <1>2, <1>5
  <2> QED BY <2>1 DEF N
<1>7. ActsOf(m, child) = FlattenSeq(ActsSeq(LinesOf(m, child)))
  BY DEF ActsOf, ActsSeq
<1>8. O[child] \in Outcomes
  BY <1>1 DEF KeptOK
<1>9. O[child].acts \in Seq(Nat)
  BY <1>8, OutcomeFields
<1> QED BY <1>6, <1>7, <1>9 DEF Does
-----------------------------------------------------------------------------
(* Every patch leaves a whole image.                                       *)

\* A word with a call in it.
LEMMA CallFetched ==
    ASSUME NEW u, NEW a, u[a] = Word(Call, 1), NEW child, u[a + 1] = child, NEW O
    PROVE  /\ getOpcode(u[a]) = Call /\ After(u, a) = a + 2 /\ OutcomeAt(u, O, a) = O[child]
BY WrittenWords DEF OutcomeAt, After

LEMMA ReplaceKeepsWhole ==
    ASSUME NEW H, NEW ads, NEW K, NEW O, Whole(evtMem, H, evtLines, ads, K, O),
           NEW i, NEW k, NEW src, NEW end, NEW child, ReplaceDoes(H, ads, i, k, src, end, child)
    PROVE  Whole(evtMem', HeadsPut(H, src, end), evtLines', Shifted(ads, i, k, Len(evtLines)), K, O)
<1> DEFINE u == evtMem'
           line == CallLine(child)
           H1 == HeadsPut(H, src, end)
<1>1. /\ LaidOut(evtMem, H, evtLines, ads) /\ KeptOK(evtMem, H, K, O) /\ AsideOK(evtMem, K)
  BY DEF Whole
<1>2. /\ CallPut(u, evtMem, src, end, child)
      /\ LaidOut(u, H1, evtLines', Shifted(ads, i, k, Len(evtLines)))
  BY <1>1, ReplaceLaysOut
<1>3. /\ i \in 1 .. Len(evtLines) - 1 /\ k \in i .. Len(evtLines) - 1
      /\ src = ads[i] /\ end \in H /\ src + 2 <= end /\ end <= ads[k + 1] /\ child \in Children
      /\ \A j \in i .. k : evtLines[j].flow # Lbl
      /\ evtLines' = Splice(evtLines, i, k, line)
  BY DEF ReplaceDoes, CallFits, EndsAt
<1>4. CodeOK(evtMem, H)
  BY <1>1 DEF LaidOut
<1>5. end \in Nat /\ end <= Len(evtMem) /\ Len(evtMem) \in Nat
  BY <1>3, <1>4, InstructionAt
<1>6. src .. end - 1 \subseteq ParentWords /\ src \in H
  BY <1>1, <1>3, <1>5, TakenWords
<1>7. src \in Nat /\ src \in 1 .. Len(evtMem)
  BY <1>4, <1>6, InstructionAt
<1> HIDE DEF u
<1>8. Elsewhere(u, evtMem, src, end)
  <2>1. \A x \in (1 .. Len(evtMem)) \ (src .. end - 1) : x # src /\ x # src + 1
    BY <1>3, <1>5, <1>7
  <2> QED BY <1>2, <2>1 DEF CallPut, Elsewhere
<1>9. u[src] = Word(Call, 1) /\ u[src + 1] = child
  <2>1. src + 1 \in 1 .. Len(evtMem) /\ src + 1 # src
    BY <1>3, <1>5, <1>7
  <2> QED BY <1>2, <1>7, <2>1 DEF CallPut
<1>10. child \in Straight /\ child \in K
  BY <1>1, <1>3 DEF AsideOK
<1>11. OutcomeOf(line) = O[child]
  <2>1. O[child] = [acts |-> ActsOf(evtMem, child), flow |-> ReturnFromCall, label |-> 0]
    BY <1>1, <1>4, <1>10, PlainActs
  <2>2. line = [acts |-> ActsOf(evtMem, child), flow |-> Act, label |-> 0, words |-> 2]
    BY DEF CallLine, TRAMPOLINE_CALL_LENGTH
  <2>3. Act \notin {Return, Goto, Lbl, EvtEnd}
    BY DEF Act, Return, Goto, Lbl, EvtEnd
  <2> HIDE DEF line
  <2> QED BY <2>1, <2>2, <2>3 DEF OutcomeOf
<1>12. LineFits(u, K, O, src, line)
  <2>1. OutcomeAt(u, O, src) = O[child]
    BY <1>9, CallFetched
  <2> HIDE DEF line
  <2> QED BY <1>9, <1>10, <1>11, <2>1 DEF LineFits
<1>13. NewLine(evtLines, i, k, line)
  <2>1. line.flow = Act /\ Act \notin {Lbl, EvtEnd, Goto}
    BY DEF CallLine, Act, Lbl, EvtEnd, Goto
  <2> HIDE DEF line
  <2> QED BY <2>1 DEF NewLine
<1>14. K \subseteq H1 \ ParentWords /\ O \in [K -> Outcomes]
  BY <1>1, <1>6 DEF KeptOK, HeadsPut
<1> HIDE DEF line, H1
<1>15. LaidOut(u, H1, Splice(evtLines, i, k, line), Shifted(ads, i, k, Len(evtLines)))
  BY <1>2, <1>3
<1>16. Whole(u, H1, Splice(evtLines, i, k, line), Shifted(ads, i, k, Len(evtLines)), K, O)
  <2>1. K \subseteq K /\ (\A a \in K : O[a] = O[a]) /\ \A a \in K \ K : KeptAt(u, K, O, a)
    OBVIOUS
  <2> QED BY <1>3, <1>5, <1>8, <1>12, <1>13, <1>14, <1>15, <2>1, Edited
<1> QED BY <1>3, <1>16 DEF u, H1

LEMMA InstructionKeepsWhole ==
    ASSUME NEW H, NEW ads, NEW K, NEW O, Whole(evtMem, H, evtLines, ads, K, O),
           NEW i, NEW src, NEW new, InstructionDoes(ads, i, src, new)
    PROVE  Whole(evtMem', H, evtLines', Shifted(ads, i, i, Len(evtLines)), K, O)
<1> DEFINE u == evtMem'
           line == LineAt(evtMem, new)
           end == After(evtMem, src)
<1>1. LaidOut(evtMem, H, evtLines, ads) /\ KeptOK(evtMem, H, K, O) /\ AsideOK(evtMem, K)
  BY DEF Whole
<1>2. LaidOut(u, H, evtLines', Shifted(ads, i, i, Len(evtLines)))
  BY <1>1, InstructionLaysOut
<1>3. /\ i \in 1 .. Len(evtLines) - 1 /\ src = ads[i] /\ new \in Replacements
      /\ getInstructionLength(evtMem[src]) = getInstructionLength(evtMem[new])
      /\ evtLines[i].flow # Lbl /\ InstructionPut(u, evtMem, src, new)
      /\ evtLines' = Splice(evtLines, i, i, line)
  BY DEF InstructionDoes
<1>4. CodeOK(evtMem, H) /\ ScriptOK(evtMem, H) /\ LinesOK(evtMem, H, evtLines, ads, Parent)
  BY <1>1 DEF LaidOut
<1>5. Len(evtLines) \in Nat
  BY <1>4, LenProperties DEF LinesOK
<1>6. i \in i .. Len(evtLines) - 1 /\ i \in 1 .. Len(evtLines) /\ i < Len(evtLines)
      /\ \A j \in i .. i : j = i
  BY <1>3, <1>5
<1>7. end \in Nat /\ end <= ads[i + 1] /\ src \in H
  <2>1. After(evtMem, ads[i]) \in H /\ After(evtMem, ads[i]) <= ads[i + 1] /\ ads[i] \in H
    BY <1>4, <1>6, LinesWithin
  <2> QED BY <1>3, <1>4, <2>1, InstructionAt
<1>8. new \in H
  BY <1>3, <1>4 DEF ScriptOK
<1> HIDE DEF u, line
<1>9. Elsewhere(u, evtMem, src, end)
  BY <1>3 DEF Elsewhere, InstructionPut
<1> HIDE DEF end
<1>10. SameAt(u, src, evtMem, new)
  <2>1. /\ Len(evtMem) \in Nat /\ src \in 1 .. Len(evtMem)
        /\ getInstructionLength(evtMem[src]) \in Nat /\ getInstructionLength(evtMem[src]) >= 1
        /\ end <= Len(evtMem) + 1 /\ end = src + getInstructionLength(evtMem[src])
    BY <1>4, <1>7, InstructionAt DEF end, After
  <2>2. new \in Nat
    BY <1>4, <1>8, InstructionAt
  <2>3. \A x \in 1 .. Len(evtMem) : x \in src .. end - 1 => u[x] = evtMem[new + (x - src)]
    BY <1>3 DEF InstructionPut, end
  <2>4. u[src] = evtMem[new]
    <3>1. src \in src .. end - 1 /\ new + (src - src) = new
      BY <2>1, <2>2
    <3> QED BY <2>1, <2>3, <3>1
  <2>5. getInstructionLength(evtMem[new]) >= 2 => u[src + 1] = evtMem[new + 1]
    <3> SUFFICES ASSUME getInstructionLength(evtMem[new]) >= 2 PROVE u[src + 1] = evtMem[new + 1]
      OBVIOUS
    <3>1. src + 1 \in 1 .. Len(evtMem) /\ src + 1 \in src .. end - 1 /\ new + ((src + 1) - src) = new + 1
      BY <1>3, <2>1, <2>2
    <3> QED BY <2>3, <3>1
  <2> QED BY <2>4, <2>5 DEF SameAt
<1>11. /\ getOpcode(evtMem[new]) \in {Nop, Act, Return}
       /\ getOpcode(evtMem[new]) \notin {Lbl, EvtEnd, Goto, Call}
  <2>1. getOpcode(evtMem[new]) \in {Nop, Act, Return}
    BY <1>1, <1>3 DEF AsideOK
  <2> QED BY <2>1 DEF Nop, Act, Return, Lbl, EvtEnd, Goto, Call
<1>12. u[src] = evtMem[new]
  BY <1>10 DEF SameAt
<1>13. LineFits(u, K, O, src, line)
  <2>1. OutcomeAt(u, O, src) = OutcomeAt(evtMem, O, new)
    BY <1>4, <1>8, <1>10, <1>11, SameOutcome
  <2> QED BY <1>11, <1>12, <2>1 DEF LineFits, OutcomeAt, line
<1>14. NewLine(evtLines, i, i, line)
  <2>1. line.flow = getOpcode(evtMem[new])
    BY DEF line, LineAt
  <2> QED BY <1>11, <2>1 DEF NewLine
<1>15. K \subseteq H \ ParentWords /\ O \in [K -> Outcomes]
  BY <1>1 DEF KeptOK
<1>16. LaidOut(u, H, Splice(evtLines, i, i, line), Shifted(ads, i, i, Len(evtLines)))
  BY <1>2, <1>3 DEF u
<1>17. Whole(u, H, Splice(evtLines, i, i, line), Shifted(ads, i, i, Len(evtLines)), K, O)
  <2>1. K \subseteq K /\ (\A a \in K : O[a] = O[a]) /\ \A a \in K \ K : KeptAt(u, K, O, a)
    OBVIOUS
  <2>2. \A j \in i .. i : evtLines[j].flow # Lbl
    BY <1>3, <1>6
  <2> QED BY <1>3, <1>6, <1>7, <1>9, <1>13, <1>14, <1>15, <1>16, <2>1, <2>2, Edited
<1> QED BY <1>3, <1>17 DEF u

\* A line before the last that is not a label.
LEMMA TakenLine ==
    ASSUME NEW m, NEW H, NEW lines, NEW ads, NEW K, NEW O, Whole(m, H, lines, ads, K, O),
           NEW j \in 1 .. Len(lines), j < Len(lines), lines[j].flow \notin {Lbl, EvtEnd}
    PROVE  /\ getOpcode(m[ads[j]]) \notin {Lbl, EvtEnd, ReturnFromCall}
           /\ OutcomeOf(lines[j]) = OutcomeAt(m, O, ads[j]) /\ OutcomeOf(lines[j]) \in Outcomes
           /\ getOpcode(m[ads[j]]) = Call => m[ads[j] + 1] \in K
<1> DEFINE a == ads[j]
           line == lines[j]
<1>1. /\ CodeOK(m, H) /\ ScriptOK(m, H) /\ LinesOK(m, H, lines, ads, Parent)
      /\ KeptOK(m, H, K, O) /\ LineFits(m, K, O, a, line)
  BY DEF Whole, LaidOut, LinesFit
<1>2. a \in H /\ getOpcode(m[a]) \notin Ends
  BY <1>1, LinesWithin
<1>3. line.flow \notin {Lbl, EvtEnd}
  OBVIOUS
<1> HIDE DEF a, line
<1>4. getOpcode(m[a]) = Call => m[a + 1] \in K
  BY <1>1 DEF LineFits
<1>5. OutcomeOf(line) = OutcomeAt(m, O, a)
  BY <1>1 DEF LineFits
<1>6. getOpcode(m[a]) # Lbl
  <2> SUFFICES ASSUME getOpcode(m[a]) = Lbl PROVE FALSE
    OBVIOUS
  <2>1. OutcomeOf(line) = OutcomeOf(LineAt(m, a))
    BY <1>5 DEF OutcomeAt, Call, Lbl
  <2>2. LineAt(m, a).flow = Lbl
    BY DEF LineAt
  <2> DEFINE l == LineAt(m, a)
  <2>3. l.flow = Lbl
    BY <2>2
  <2> HIDE DEF l
  <2>4. OutcomeOf(l).flow = Lbl
    BY <2>3 DEF OutcomeOf
  <2>5. OutcomeOf(line).flow # Lbl
    BY <1>3 DEF OutcomeOf, ReturnFromCall, Lbl
  <2> QED BY <2>1, <2>4, <2>5 DEF l
<1>7. getOpcode(m[a]) \notin {Lbl, EvtEnd, ReturnFromCall}
  BY <1>2, <1>6 DEF Ends
<1>8. OutcomeAt(m, O, a) \in Outcomes
  <2>1. CASE getOpcode(m[a]) = Call
    BY <1>1, <1>4, <2>1 DEF OutcomeAt, KeptOK
  <2>2. CASE getOpcode(m[a]) # Call
    <3>1. OutcomeOf(LineAt(m, a)) \in Outcomes
      BY <1>1, <1>2, <1>7, InstructionOutcome
    <3> QED BY <2>2, <3>1 DEF OutcomeAt
  <2> QED BY <2>1, <2>2
<1> QED BY <1>4, <1>5, <1>7, <1>8 DEF a, line

LEMMA FlattenFew ==
    ASSUME NEW x \in Seq(Nat), NEW y \in Seq(Nat)
    PROVE  FlattenSeq(<<x>>) = x /\ FlattenSeq(<<x, y>>) = x \o y
<1> DEFINE e == <<>>
           s == <<x>>
<1>1. e \in Seq(Seq(Nat)) /\ Append(e, x) = s /\ s \in Seq(Seq(Nat)) /\ Append(s, y) = <<x, y>>
  <2>1. e \in Seq(Seq(Nat)) /\ s \in Seq(Seq(Nat))
    OBVIOUS
  <2>2. Append(e, x) = s
    OBVIOUS
  <2>3. Append(s, y) = <<x, y>>
    <3>1. Len(s) = 1 /\ s[1] = x
      OBVIOUS
    <3> DEFINE t == Append(s, y)
    <3> HIDE DEF s
    <3>2. t \in Seq(Seq(Nat)) /\ Len(t) = 2 /\ t[1] = x /\ t[2] = y
      <4>1. /\ t \in Seq(Seq(Nat)) /\ Len(t) = Len(s) + 1 /\ t[Len(s) + 1] = y
            /\ \A j \in 1 .. Len(s) : t[j] = s[j]
        BY <2>1, AppendProperties
      <4>2. Len(s) + 1 = 2 /\ 1 \in 1 .. Len(s)
        BY <3>1
      <4> HIDE DEF t
      <4> QED BY <3>1, <4>1, <4>2
    <3> HIDE DEF t
    <3>3. t = [j \in 1 .. Len(t) |-> t[j]]
      BY <3>2
    <3>4. \A j \in 1 .. 2 : j = 1 \/ j = 2
      OBVIOUS
    <3>5. t = <<x, y>>
      BY <3>2, <3>3, <3>4
    <3> QED BY <3>5 DEF t
  <2> QED BY <2>1, <2>2, <2>3
<1>2. FlattenSeq(e) = <<>>
  BY FlattenEmpty
<1> HIDE DEF e, s
<1>3. FlattenSeq(Append(e, x)) = FlattenSeq(e) \o x
  BY <1>1, FlattenGrows
<1>4. FlattenSeq(Append(s, y)) = FlattenSeq(s) \o y
  BY <1>1, FlattenGrows
<1>5. <<>> \o x = x
  BY ConcatEmptySeq
<1> QED BY <1>1, <1>2, <1>3, <1>4, <1>5 DEF s

\* What a hooked line and, with it, the next one do.
LEMMA JoinedOutcome ==
    ASSUME NEW lines, NEW i \in Nat, NEW k \in {i, i + 1}, NEW first \in Seq(Nat),
           lines[i].flow \notin {Lbl, EvtEnd}, lines[k].flow \notin {Lbl, EvtEnd},
           OutcomeOf(lines[i]) \in Outcomes, OutcomeOf(lines[k]) \in Outcomes,
           i # k => OutcomeOf(lines[i]).flow # Goto
    PROVE  OutcomeOf(Joined(lines, i, k, first)) =
             Then([acts |-> first, flow |-> ReturnFromCall, label |-> 0],
                  IF i = k THEN OutcomeOf(lines[k])
                  ELSE Then(OutcomeOf(lines[i]), OutcomeOf(lines[k])))
<1> DEFINE a == lines[i]
           b == lines[k]
           A == OutcomeOf(a)
           B == OutcomeOf(b)
           C == [acts |-> first, flow |-> ReturnFromCall, label |-> 0]
           J == Joined(lines, i, k, first)
<1>1. /\ a.flow \notin {Lbl, EvtEnd} /\ b.flow \notin {Lbl, EvtEnd} /\ (i = k => a = b)
      /\ A \in Outcomes /\ B \in Outcomes /\ (i # k => A.flow # Goto)
  OBVIOUS
<1>2. Return \notin {Goto, Lbl, EvtEnd, ReturnFromCall} /\ ReturnFromCall \notin {Goto, Lbl, EvtEnd, Return}
  BY DEF Return, Goto, Lbl, EvtEnd, ReturnFromCall
<1>3. C.acts = first /\ C.flow = ReturnFromCall
  OBVIOUS
<1> HIDE DEF a, b, C
<1>4. /\ A.acts = a.acts /\ B.acts = b.acts /\ (A.flow = Return <=> a.flow = Return)
      /\ A.flow = (IF a.flow \in {Return, Goto} THEN a.flow ELSE ReturnFromCall)
      /\ B.flow = (IF b.flow \in {Return, Goto} THEN b.flow ELSE ReturnFromCall)
      /\ A.label = (IF a.flow = Goto THEN a.label ELSE 0)
      /\ B.label = (IF b.flow = Goto THEN b.label ELSE 0)
  BY <1>1, <1>2 DEF OutcomeOf
<1> HIDE DEF A, B
<1>5. A.acts \in Seq(Nat) /\ B.acts \in Seq(Nat)
  BY <1>1, OutcomeFields
<1>6. /\ FlattenSeq(<<a.acts>>) = a.acts /\ FlattenSeq(<<b.acts>>) = b.acts
      /\ FlattenSeq(<<a.acts, b.acts>>) = a.acts \o b.acts
  BY <1>4, <1>5, FlattenFew
<1>7. \A o : C.flow \notin {Return, Goto} /\
             Then(C, o) = [acts |-> first \o o.acts, flow |-> o.flow, label |-> o.label]
  BY <1>2, <1>3 DEF Then
<1>8. CASE a.flow = Return
  <2>1. J = [acts |-> first \o FlattenSeq([j \in 1 .. i - i + 1 |-> lines[i + j - 1].acts]),
             flow |-> a.flow, label |-> a.label, words |-> TRAMPOLINE_CALL_LENGTH]
    BY <1>8 DEF Joined, a
  <2>2. [j \in 1 .. i - i + 1 |-> lines[i + j - 1].acts] = <<a.acts>>
    <3>1. i - i + 1 = 1 /\ \A j \in 1 .. 1 : j = 1 /\ i + j - 1 = i
      OBVIOUS
    <3>2. [j \in 1 .. i - i + 1 |-> lines[i + j - 1].acts] = [j \in 1 .. 1 |-> a.acts]
      BY <3>1 DEF a
    <3> QED BY <3>2
  <2>3. J = [acts |-> first \o a.acts, flow |-> Return, label |-> a.label,
             words |-> TRAMPOLINE_CALL_LENGTH]
    BY <1>6, <1>8, <2>1, <2>2
  <2> HIDE DEF J
  <2>4. OutcomeOf(J) = [acts |-> first \o a.acts, flow |-> Return, label |-> 0]
    BY <1>2, <2>3 DEF OutcomeOf
  <2>5. A.flow = Return /\ A.label = 0 /\ Then(A, B) = A
    BY <1>2, <1>4, <1>8 DEF Then
  <2>6. (IF i = k THEN B ELSE Then(A, B)) = A
    BY <1>1, <2>5 DEF A, B
  <2>7. Then(C, A) = [acts |-> first \o A.acts, flow |-> A.flow, label |-> A.label]
    BY <1>7
  <2>8. OutcomeOf(J) = Then(C, IF i = k THEN B ELSE Then(A, B))
    BY <1>4, <2>4, <2>5, <2>6, <2>7
  <2> QED BY <2>8 DEF J, A, B, C, a, b
<1>9. CASE a.flow # Return /\ i = k
  <2>1. J = [acts |-> first \o FlattenSeq([j \in 1 .. i - i + 1 |-> lines[i + j - 1].acts]),
             flow |-> a.flow, label |-> a.label, words |-> TRAMPOLINE_CALL_LENGTH]
    BY <1>9 DEF Joined, a
  <2>2. [j \in 1 .. i - i + 1 |-> lines[i + j - 1].acts] = <<a.acts>>
    <3>1. i - i + 1 = 1 /\ \A j \in 1 .. 1 : j = 1 /\ i + j - 1 = i
      OBVIOUS
    <3>2. [j \in 1 .. i - i + 1 |-> lines[i + j - 1].acts] = [j \in 1 .. 1 |-> a.acts]
      BY <3>1 DEF a
    <3> QED BY <3>2
  <2>3. J = [acts |-> first \o a.acts, flow |-> a.flow, label |-> a.label,
             words |-> TRAMPOLINE_CALL_LENGTH]
    BY <1>6, <2>1, <2>2
  <2> HIDE DEF J
  <2>4. OutcomeOf(J) = [acts |-> first \o a.acts, flow |-> A.flow, label |-> A.label]
    BY <1>1, <1>4, <2>3 DEF OutcomeOf
  <2>5. A = B
    BY <1>1, <1>9 DEF A, B
  <2>6. Then(C, B) = [acts |-> first \o B.acts, flow |-> B.flow, label |-> B.label]
    BY <1>7
  <2>7. OutcomeOf(J) = Then(C, IF i = k THEN B ELSE Then(A, B))
    BY <1>4, <1>9, <2>4, <2>5, <2>6
  <2> QED BY <2>7 DEF J, A, B, C, a, b
<1>10. CASE a.flow # Return /\ i # k
  <2>0. k = i + 1
    BY <1>10
  <2>1. J = [acts |-> first \o FlattenSeq([j \in 1 .. k - i + 1 |-> lines[i + j - 1].acts]),
             flow |-> b.flow, label |-> b.label, words |-> TRAMPOLINE_CALL_LENGTH]
    BY <1>10 DEF Joined, a, b
  <2>2. [j \in 1 .. k - i + 1 |-> lines[i + j - 1].acts] = <<a.acts, b.acts>>
    <3>1. k - i + 1 = 2 /\ i + 1 - 1 = i /\ i + 2 - 1 = k /\ \A j \in 1 .. 2 : j = 1 \/ j = 2
      BY <2>0
    <3> DEFINE f == [j \in 1 .. k - i + 1 |-> lines[i + j - 1].acts]
    <3>2. f = [j \in 1 .. 2 |-> f[j]] /\ f[1] = a.acts /\ f[2] = b.acts
      BY <3>1 DEF a, b
    <3> HIDE DEF f
    <3>3. f = <<a.acts, b.acts>>
      BY <3>1, <3>2
    <3> QED BY <3>3 DEF f
  <2>3. J = [acts |-> first \o (a.acts \o b.acts), flow |-> b.flow, label |-> b.label,
             words |-> TRAMPOLINE_CALL_LENGTH]
    BY <1>6, <2>1, <2>2
  <2> HIDE DEF J
  <2>4. OutcomeOf(J) = [acts |-> first \o (a.acts \o b.acts), flow |-> B.flow, label |-> B.label]
    BY <1>1, <1>4, <2>3 DEF OutcomeOf
  <2>5. Then(A, B) = [acts |-> a.acts \o b.acts, flow |-> B.flow, label |-> B.label]
    BY <1>1, <1>4, <1>10 DEF Then
  <2> DEFINE T == Then(A, B)
  <2>6. Then(C, T) = [acts |-> first \o T.acts, flow |-> T.flow, label |-> T.label]
    BY <1>7
  <2>7. T = [acts |-> a.acts \o b.acts, flow |-> B.flow, label |-> B.label]
    BY <2>5
  <2> HIDE DEF T
  <2>9. T.acts = a.acts \o b.acts /\ T.flow = B.flow /\ T.label = B.label
    BY <2>7
  <2>8. OutcomeOf(J) = Then(C, IF i = k THEN B ELSE T)
    BY <1>10, <2>4, <2>6, <2>9
  <2> QED BY <2>8 DEF J, A, B, C, T, a, b
<1> QED BY <1>8, <1>9, <1>10

\* u is m with a call of the forwarder from src on, and the forwarder behind it.
Forwards(u, m, src, end, child) ==
    /\ Elsewhere(u, m, src, end)
    /\ u[src] = Word(Call, 1) /\ u[src + 1] = Len(m) + 1
    /\ u[Len(m) + 1] = Word(Call, 1) /\ u[(Len(m) + 1) + 1] = child
    /\ \A x \in src .. end - 1 : u[Len(m) + 3 + (x - src)] = m[x]
    /\ u[Len(m) + 3 + (end - src)] = Word(ReturnFromCall, 0)

LEMMA HookForwards ==
    ASSUME NEW m, NEW H, CodeOK(m, H), NEW src \in H, NEW end \in H, src + 2 <= end,
           NEW child, NEW m0, ForwarderBehind(m0, m, src, end, child),
           NEW u, CallPut(u, m0, src, end, Len(m) + 1)
    PROVE  Forwards(u, m, src, end, child)
<1> DEFINE L == Len(m)
<1>1. L \in Nat /\ src \in 1 .. L /\ end \in 1 .. L
  BY InstructionAt
<1>2. /\ Len(m0) = L + 3 + (end - src) /\ \A x \in 1 .. L : m0[x] = m[x]
      /\ m0[L + 1] = Word(Call, 1) /\ m0[L + 2] = child
      /\ \A x \in src .. end - 1 : m0[L + 3 + (x - src)] = m[x]
      /\ m0[L + 3 + (end - src)] = Word(ReturnFromCall, 0)
  BY DEF ForwarderBehind
<1>3. \A x \in 1 .. Len(m0) : u[x] = IF x = src THEN Word(Call, 1)
                                     ELSE IF x = src + 1 THEN L + 1
                                     ELSE IF x \in src .. end - 1 THEN 0 ELSE m0[x]
  BY DEF CallPut
<1> HIDE DEF L
<1>4. \A x \in 1 .. Len(m0) : x # src /\ x # src + 1 /\ x \notin src .. end - 1 => u[x] = m0[x]
  BY <1>3
<1>5. ASSUME NEW x \in 1 .. L, x \notin src .. end - 1 PROVE u[x] = m[x]
  <2>1. x \in 1 .. Len(m0) /\ x # src /\ x # src + 1
    BY <1>1, <1>2, <1>5
  <2> QED BY <1>2, <1>4, <1>5, <2>1
<1>6. ASSUME NEW x \in L + 1 .. Len(m0) PROVE u[x] = m0[x]
  <2>1. x \in 1 .. Len(m0) /\ x # src /\ x # src + 1 /\ x \notin src .. end - 1
    BY <1>1, <1>2
  <2> QED BY <1>4, <2>1
<1>7. u[src] = Word(Call, 1) /\ u[src + 1] = L + 1
  <2>1. src \in 1 .. Len(m0) /\ src + 1 \in 1 .. Len(m0) /\ src + 1 # src
    BY <1>1, <1>2
  <2> QED BY <1>3, <2>1
<1>8. u[L + 1] = Word(Call, 1) /\ u[(L + 1) + 1] = child
  <2>1. L + 1 \in L + 1 .. Len(m0) /\ L + 2 \in L + 1 .. Len(m0) /\ (L + 1) + 1 = L + 2
    BY <1>1, <1>2
  <2> QED BY <1>2, <1>6, <2>1
<1>9. ASSUME NEW x \in src .. end - 1 PROVE u[L + 3 + (x - src)] = m[x]
  <2>1. L + 3 + (x - src) \in L + 1 .. Len(m0)
    BY <1>1, <1>2
  <2> QED BY <1>2, <1>6, <2>1
<1>10. u[L + 3 + (end - src)] = Word(ReturnFromCall, 0)
  <2>1. L + 3 + (end - src) \in L + 1 .. Len(m0)
    BY <1>1, <1>2
  <2> QED BY <1>2, <1>6, <2>1
<1> QED BY <1>5, <1>7, <1>8, <1>9, <1>10 DEF Forwards, Elsewhere, L

\* The moved instructions are in it.
LEMMA Forwarded ==
    ASSUME NEW m, NEW H, CodeOK(m, H), NEW src \in H, NEW end \in H,
           NEW child, NEW u, Forwards(u, m, src, end, child),
           NEW a \in H, src <= a, After(m, a) <= end
    PROVE  /\ SameAt(u, Len(m) + 3 + (a - src), m, a)
           /\ After(u, Len(m) + 3 + (a - src)) = Len(m) + 3 + (After(m, a) - src)
<1> DEFINE L == Len(m)
           b == L + 3 + (a - src)
           len == getInstructionLength(m[a])
<1>1. /\ L \in Nat /\ a \in Nat /\ len \in Nat /\ len >= 1 /\ After(m, a) = a + len
  BY InstructionAt DEF After
<1>2. src \in Nat /\ end \in Nat
  BY InstructionAt
<1>3. \A x \in src .. end - 1 : u[L + 3 + (x - src)] = m[x]
  BY DEF Forwards
<1> HIDE DEF L, len
<1>4. u[b] = m[a]
  <2>1. a \in src .. end - 1
    BY <1>1, <1>2
  <2> QED BY <1>3, <2>1
<1>5. len >= 2 => u[b + 1] = m[a + 1]
  <2> SUFFICES ASSUME len >= 2 PROVE u[b + 1] = m[a + 1]
    OBVIOUS
  <2>1. a + 1 \in src .. end - 1 /\ L + 3 + ((a + 1) - src) = b + 1
    BY <1>1, <1>2
  <2>2. u[L + 3 + ((a + 1) - src)] = m[a + 1]
    BY <1>3, <2>1
  <2> QED BY <2>1, <2>2
<1>6. b + len = L + 3 + (After(m, a) - src)
  BY <1>1, <1>2
<1> HIDE DEF b
<1>7. After(u, b) = b + len
  BY <1>4 DEF After, len
<1> QED BY <1>4, <1>5, <1>6, <1>7 DEF SameAt, b, L, len

\* O1 says of the addresses in K what O says.
Extends(K, O, K1, O1) == K \subseteq K1 /\ \A a \in K : O1[a] = O[a]

\* A copy of a taken line goes on with what follows it.
LEMMA CopyKept ==
    ASSUME NEW m, NEW H, NEW lines, NEW ads, NEW K, NEW O, Whole(m, H, lines, ads, K, O),
           NEW j \in 1 .. Len(lines), j < Len(lines), lines[j].flow \notin {Lbl, EvtEnd},
           NEW src \in H, NEW end \in H, NEW child, NEW u, Forwards(u, m, src, end, child),
           src <= ads[j], After(m, ads[j]) <= end,
           NEW K1, NEW O1, Extends(K, O, K1, O1),
           NEW b, b = Len(m) + 3 + (ads[j] - src),
           NEW next \in K1, next = Len(m) + 3 + (After(m, ads[j]) - src),
           O1[b] = Then(OutcomeOf(lines[j]), O1[next])
    PROVE  KeptAt(u, K1, O1, b)
<1> DEFINE a == ads[j]
           o == OutcomeOf(lines[j])
<1>1. CodeOK(m, H) /\ ScriptOK(m, H) /\ LinesOK(m, H, lines, ads, Parent)
  BY DEF Whole, LaidOut
<1>2. a \in H
  BY <1>1 DEF LinesOK
<1>3. /\ getOpcode(m[a]) \notin {Lbl, EvtEnd, ReturnFromCall}
      /\ o = OutcomeAt(m, O, a)
      /\ getOpcode(m[a]) = Call => m[a + 1] \in K
  BY TakenLine
<1> HIDE DEF a, o
<1>4. SameAt(u, b, m, a) /\ After(u, b) = next
  BY <1>1, <1>2, Forwarded DEF a
<1>5. u[b] = m[a]
  BY <1>4 DEF SameAt
<1>6. getOpcode(m[a]) = Call => u[b + 1] = m[a + 1] /\ O1[m[a + 1]] = O[m[a + 1]]
  <2>1. getOpcode(m[a]) = Call => u[b + 1] = m[a + 1]
    BY <1>1, <1>2, <1>4 DEF SameAt, CodeOK
  <2> QED BY <1>3, <2>1 DEF Extends
<1>7. OutcomeAt(u, O1, b) = o
  BY <1>1, <1>2, <1>3, <1>4, <1>6, SameOutcome
<1> QED BY <1>3, <1>4, <1>5, <1>6, <1>7 DEF KeptAt, Extends, o

\* The lines a call takes: one, or one of a single word, which only works or returns, and
\* the next.
LEMMA CoveredLines ==
    ASSUME NEW m, NEW H, NEW lines, NEW ads, NEW K, NEW O, Whole(m, H, lines, ads, K, O),
           NEW i \in 1 .. Len(lines) - 1, NEW k \in i .. Len(lines) - 1, k = LastCovered(lines, i),
           lines[i].flow \notin {Lbl, EvtEnd}
    PROVE  /\ k \in {i, i + 1}
           /\ i # k => After(m, ads[i]) = ads[k] /\ OutcomeOf(lines[i]).flow # Goto
<1>1. CodeOK(m, H) /\ ScriptOK(m, H) /\ LinesOK(m, H, lines, ads, Parent)
  BY DEF Whole, LaidOut
<1>2. Len(lines) \in Nat
  BY <1>1, LenProperties DEF LinesOK
<1>3. i \in 1 .. Len(lines) /\ i < Len(lines)
  BY <1>2
<1>4. k \in {i, i + 1} /\ (i # k => k = i + 1 /\ lines[i].words < 2)
  BY DEF LastCovered, TRAMPOLINE_CALL_LENGTH
<1> SUFFICES ASSUME i # k
             PROVE  After(m, ads[i]) = ads[k] /\ OutcomeOf(lines[i]).flow # Goto
  BY <1>4
<1> DEFINE a == ads[i]
           line == lines[i]
<1>5. a \in H /\ line.words = getInstructionLength(m[a]) /\ ads[k] = a + 1 /\ line.words < 2
  BY <1>1, <1>3, <1>4 DEF LinesOK
<1>6. OutcomeOf(line) = OutcomeAt(m, O, a) /\ getOpcode(m[a]) \notin {Lbl, EvtEnd, ReturnFromCall}
  BY <1>3, TakenLine
<1> HIDE DEF a, line
<1>7. getInstructionLength(m[a]) \in Nat /\ getInstructionLength(m[a]) >= 1 /\ a \in Nat
  BY <1>1, <1>5, InstructionAt
<1>8. After(m, a) = ads[k]
  BY <1>5, <1>7 DEF After
<1>9. getOpcode(m[a]) \notin {Lbl, Goto, Call}
  BY <1>1, <1>5, <1>7 DEF CodeOK
<1>10. OutcomeOf(line) = OutcomeOf(LineAt(m, a))
  BY <1>6, <1>9 DEF OutcomeAt
<1>11. OutcomeOf(LineAt(m, a)).flow # Goto
  <2>1. /\ getOpcode(m[a]) \in {Return, Goto} => OutcomeOf(LineAt(m, a)).flow = getOpcode(m[a])
        /\ getOpcode(m[a]) \notin {Return, Goto} => OutcomeOf(LineAt(m, a)).flow = ReturnFromCall
    BY <1>1, <1>5, <1>6, InstructionOutcome
  <2> QED BY <1>9, <2>1 DEF ReturnFromCall, Goto
<1> QED BY <1>8, <1>10, <1>11 DEF a, line

\* No lines a patch may not take.
Taken(lines, i, k) == \A j \in i .. k : lines[j].flow \notin {Lbl, EvtEnd}

\* The addresses of a forwarder and their outcomes are in K1 and O1, too, and the line that
\* it is called for.
WithForwarder(u, m, H, src, end, line, K, O, K1, O1) ==
    /\ K \subseteq K1 /\ \A a \in K : O1[a] = O[a]
    /\ \A b \in K1 \ K : \/ b = Len(m) + 1
                         \/ \E x \in H \cap (src .. end - 1) : b = Len(m) + 3 + (x - src)
                         \/ b = Len(m) + 3 + (end - src)
    /\ O1 \in [K1 -> Outcomes] /\ \A a \in K1 \ K : KeptAt(u, K1, O1, a)
    /\ LineFits(u, K1, O1, src, line)

\* Some addresses with their outcomes more.
LEMMA ForwarderOutcomes ==
    ASSUME NEW m, NEW H, NEW lines, NEW ads, NEW K, NEW O, Whole(m, H, lines, ads, K, O),
           NEW i \in 1 .. Len(lines) - 1, NEW k \in i .. Len(lines) - 1, k = LastCovered(lines, i),
           Taken(lines, i, k),
           NEW src, src = ads[i], NEW end \in H, end = After(m, ads[k]), src + 2 <= end,
           NEW child \in Children, NEW u, Forwards(u, m, src, end, child),
           NEW line, line = Joined(lines, i, k, ActsOf(m, child))
    PROVE  \E K1, O1 : WithForwarder(u, m, H, src, end, line, K, O, K1, O1)
<1> DEFINE L == Len(m)
           A == OutcomeOf(lines[i])
           B == OutcomeOf(lines[k])
           C == O[child]
           call == L + 1
           mine == L + 3
           last == L + 3 + (ads[k] - src)
           back == L + 3 + (end - src)
           both == IF i = k THEN B ELSE Then(A, B)
           all == Then(C, both)
           K1 == K \cup {call, mine, last, back}
           O1 == [a \in K1 |-> IF a \in K THEN O[a] ELSE IF a = call THEN all
                               ELSE IF a = back THEN Unit ELSE IF a = last THEN B ELSE both]
<1>1. /\ CodeOK(m, H) /\ ScriptOK(m, H) /\ LinesOK(m, H, lines, ads, Parent)
      /\ KeptOK(m, H, K, O) /\ AsideOK(m, K)
  BY DEF Whole, LaidOut
<1>2. Len(lines) \in Nat
  BY <1>1, LenProperties DEF LinesOK
<1>3. i \in 1 .. Len(lines) /\ k \in 1 .. Len(lines) /\ i < Len(lines) /\ k < Len(lines)
      /\ i \in i .. k /\ k \in i .. k /\ i \in Nat
  BY <1>2
<1>4. lines[i].flow \notin {Lbl, EvtEnd} /\ lines[k].flow \notin {Lbl, EvtEnd}
  BY <1>3 DEF Taken
<1>5. /\ k \in {i, i + 1}
      /\ i # k => After(m, ads[i]) = ads[k] /\ A.flow # Goto
  BY <1>4, CoveredLines
<1>6. A \in Outcomes /\ B \in Outcomes
  BY <1>3, <1>4, TakenLine
<1>7. /\ src \in H /\ ads[k] \in H /\ src \in Nat /\ ads[k] \in Nat
      /\ src <= ads[k] /\ ads[k] < end /\ end \in Nat /\ end <= L /\ L \in Nat
      /\ (i = k => ads[k] = src)
  <2>1. src \in H /\ ads[k] \in H /\ (i = k => ads[k] = src)
    BY <1>1, <1>3 DEF LinesOK
  <2>2. src \in Nat /\ ads[k] \in Nat /\ L \in Nat
    BY <1>1, <2>1, InstructionAt, SMTT(30)
  <2>3. After(m, ads[k]) > ads[k]
    BY <1>1, <2>1, InstructionAt
  <2>4. end \in Nat /\ end <= L
    <3>1. end \in 1 .. Len(m) /\ Len(m) \in Nat
      BY <1>1, InstructionAt
    <3> QED BY <3>1
  <2>5. src <= ads[k]
    <3>1. i # k => src < ads[k]
      BY <1>1, <1>2, <1>3, <1>5 DEF LinesOK
    <3> QED BY <2>1, <2>2, <3>1
  <2> QED BY <2>1, <2>2, <2>3, <2>4, <2>5
<1>8. i # k => src < ads[k]
  BY <1>1, <1>2, <1>3, <1>5 DEF LinesOK
<1>9. K \subseteq 1 .. L /\ O \in [K -> Outcomes] /\ child \in K /\ child \in Straight
  <2>1. K \subseteq H /\ H \subseteq 1 .. L
    BY <1>1 DEF KeptOK, CodeOK
  <2> QED BY <1>1, <2>1 DEF KeptOK, AsideOK
<1>10. C = [acts |-> ActsOf(m, child), flow |-> ReturnFromCall, label |-> 0]
       /\ ActsOf(m, child) \in Seq(Nat) /\ C \in Outcomes
  <2>1. C \in Outcomes
    BY <1>9
  <2> QED BY <1>1, <1>9, <2>1, PlainActs
<1>11. OutcomeOf(line) = all
  <2>1. OutcomeOf(line) = Then([acts |-> ActsOf(m, child), flow |-> ReturnFromCall, label |-> 0],
                               both)
    BY <1>3, <1>4, <1>5, <1>6, <1>10, JoinedOutcome
  <2> QED BY <1>10, <2>1
<1>12. both \in Outcomes /\ all \in Outcomes
  <2>1. Then(A, B) \in Outcomes
    BY <1>6, ThenOutcome
  <2>2. both \in Outcomes
    BY <1>6, <2>1
  <2> HIDE DEF both, C
  <2> QED BY <1>10, <2>2, ThenOutcome
<1> HIDE DEF A, B, C, all
<1> HIDE DEF L
<1>13. /\ call \notin 1 .. L /\ mine \notin 1 .. L /\ last \notin 1 .. L /\ back \notin 1 .. L
       /\ call # mine /\ call # last /\ call # back /\ back # mine /\ back # last
       /\ (i = k => mine = last) /\ (i # k => mine # last)
  <2> DEFINE at == ads[k]
             d == at - src
             f == end - src
  <2>1. L \in Nat /\ d \in Nat /\ f \in Nat /\ d < f /\ (i = k => d = 0) /\ (i # k => d # 0)
    <3>1. at \in Nat /\ src <= at /\ at < end /\ (i = k => at = src) /\ (i # k => src < at)
      BY <1>7, <1>8
    <3> HIDE DEF at
    <3> QED BY <1>7, <3>1, SMTT(30)
  <2>2. call = L + 1 /\ mine = L + 3 /\ last = L + 3 + d /\ back = L + 3 + f
    OBVIOUS
  <2> HIDE DEF d, f, call, mine, last, back
  <2> QED BY <2>1, <2>2
<1>14. both = (IF i = k THEN B ELSE Then(A, B))
  OBVIOUS
<1> HIDE DEF both, call, mine, last, back
<1>15. /\ O1 \in [K1 -> Outcomes] /\ (\A a \in K : O1[a] = O[a])
       /\ O1[call] = all /\ O1[back] = Unit /\ O1[last] = B /\ O1[mine] = both
  <2>1. call \in K1 /\ mine \in K1 /\ last \in K1 /\ back \in K1 /\ K \subseteq K1
        /\ call \notin K /\ mine \notin K /\ last \notin K /\ back \notin K
    BY <1>9, <1>13
  <2>2. \A a \in K1 : O1[a] = IF a \in K THEN O[a] ELSE IF a = call THEN all
                              ELSE IF a = back THEN Unit ELSE IF a = last THEN B ELSE both
    OBVIOUS
  <2>3. \A a \in K : O1[a] = O[a]
    BY <2>1, <2>2
  <2>4. O1[call] = all /\ O1[back] = Unit /\ O1[last] = B
    BY <1>13, <2>1, <2>2
  <2>5. O1[mine] = both
    <3>1. i = k => both = B
      BY <1>14
    <3> QED BY <1>13, <2>1, <2>2, <3>1
  <2>6. O1 \in [K1 -> Outcomes]
    <3>1. \A a \in K : O[a] \in Outcomes
      BY <1>9
    <3> QED BY <1>6, <1>12, <3>1, UnitOutcome
  <2> QED BY <2>3, <2>4, <2>5, <2>6
<1>16. K \subseteq K1 /\ call \in K1 /\ mine \in K1 /\ last \in K1 /\ back \in K1
       /\ \A b \in K1 \ K : b \in {call, mine, last, back}
  OBVIOUS
<1> HIDE DEF K1, O1
<1>17. KeptAt(u, K1, O1, back)
  <2>1. u[back] = Word(ReturnFromCall, 0)
    BY DEF Forwards, back, L
  <2>2. getOpcode(u[back]) = ReturnFromCall
    BY <2>1, WrittenWords
  <2>3. ReturnFromCall \notin {Lbl, EvtEnd, Call}
    BY DEF ReturnFromCall, Lbl, EvtEnd, Call
  <2> QED BY <1>15, <2>2, <2>3 DEF KeptAt
<1>18. KeptAt(u, K1, O1, last)
  <2>1. Then(B, Unit) = B
    BY <1>6, ThenUnit
  <2>2. back = Len(m) + 3 + (After(m, ads[k]) - src) /\ last = Len(m) + 3 + (ads[k] - src)
    BY DEF back, last, L
  <2>3. O1[last] = Then(OutcomeOf(lines[k]), O1[back])
    BY <1>15, <2>1 DEF B
  <2>4. src <= ads[k] /\ After(m, ads[k]) <= end
    BY <1>7
  <2>5. k \in 1 .. Len(lines) /\ k < Len(lines) /\ lines[k].flow \notin {Lbl, EvtEnd}
    BY <1>3, <1>4
  <2>6. src \in H /\ back \in K1 /\ Extends(K, O, K1, O1)
    BY <1>7, <1>15, <1>16 DEF Extends
  <2> QED BY <2>2, <2>3, <2>4, <2>5, <2>6, CopyKept
<1>19. KeptAt(u, K1, O1, mine)
  <2>1. CASE i = k
    BY <1>13, <1>18, <2>1
  <2>2. CASE i # k
    <3>1. After(m, ads[i]) = ads[k]
      BY <1>5, <2>2
    <3>2. last = Len(m) + 3 + (After(m, ads[i]) - src) /\ mine = Len(m) + 3 + (ads[i] - src)
      BY <1>7, <3>1 DEF last, mine, L
    <3>3. O1[mine] = Then(OutcomeOf(lines[i]), O1[last])
      BY <1>14, <1>15, <2>2 DEF A
    <3>4. src <= ads[i] /\ After(m, ads[i]) <= end
      BY <1>7, <3>1
    <3>5. i \in 1 .. Len(lines) /\ i < Len(lines) /\ lines[i].flow \notin {Lbl, EvtEnd}
      BY <1>3, <1>4
    <3>6. src \in H /\ last \in K1 /\ Extends(K, O, K1, O1)
      BY <1>7, <1>15, <1>16 DEF Extends
    <3> QED BY <3>2, <3>3, <3>4, <3>5, <3>6, CopyKept
  <2> QED BY <2>1, <2>2
<1>20. KeptAt(u, K1, O1, call)
  <2>1. u[call] = Word(Call, 1) /\ u[call + 1] = child
    BY DEF Forwards, call, L
  <2>2. getOpcode(u[call]) = Call /\ After(u, call) = call + 2 /\ OutcomeAt(u, O1, call) = O1[child]
    BY <2>1, CallFetched
  <2>3. call + 2 = mine
    BY <1>7 DEF call, mine
  <2>4. O1[child] = C
    BY <1>9, <1>15 DEF C
  <2>5. Call \notin {Lbl, EvtEnd, ReturnFromCall}
    BY DEF Call, Lbl, EvtEnd, ReturnFromCall
  <2>6. O1[call] = Then(O1[child], O1[mine])
    BY <1>15, <2>4 DEF all
  <2> QED BY <1>9, <1>16, <2>1, <2>2, <2>3, <2>5, <2>6 DEF KeptAt
<1>21. LineFits(u, K1, O1, src, line)
  <2>1. u[src] = Word(Call, 1) /\ u[src + 1] = call
    BY DEF Forwards, call, L
  <2>2. OutcomeAt(u, O1, src) = O1[call]
    BY <2>1, CallFetched
  <2> QED BY <1>11, <1>15, <1>16, <2>1, <2>2 DEF LineFits
<1>22. ASSUME NEW b \in K1 \ K
       PROVE  \/ b = Len(m) + 1
              \/ \E x \in H \cap (src .. end - 1) : b = Len(m) + 3 + (x - src)
              \/ b = Len(m) + 3 + (end - src)
  <2>1. src \in H \cap (src .. end - 1) /\ ads[k] \in H \cap (src .. end - 1)
    BY <1>7
  <2>2. mine = L + 3 + (src - src)
    BY <1>7 DEF mine
  <2>3. b \in {call, mine, last, back}
    BY <1>16
  <2> QED BY <2>1, <2>2, <2>3 DEF call, last, back, L
<1>23. \A a \in K1 \ K : KeptAt(u, K1, O1, a)
  BY <1>16, <1>17, <1>18, <1>19, <1>20
<1>24. WithForwarder(u, m, H, src, end, line, K, O, K1, O1)
  BY <1>15, <1>16, <1>21, <1>22, <1>23 DEF WithForwarder
<1> QED BY <1>24

HasWhole(m, lines) == \E H, ads, K, O : Whole(m, H, lines, ads, K, O)

LEMMA HookKeepsWhole ==
    ASSUME NEW H, NEW ads, NEW K, NEW O, Whole(evtMem, H, evtLines, ads, K, O),
           NEW i, NEW k, NEW src, NEW end, NEW child, HookDoes(H, ads, i, k, src, end, child)
    PROVE  HasWhole(evtMem', evtLines')
<1> DEFINE u == evtMem'
           L == Len(evtMem)
           line == Joined(evtLines, i, k, ActsOf(evtMem, child))
           H0 == HeadsBehind(H, L, src, end)
           H1 == HeadsPut(H0, src, end)
           bds == Shifted(ads, i, k, Len(evtLines))
<1>1. /\ LaidOut(evtMem, H, evtLines, ads) /\ KeptOK(evtMem, H, K, O)
      /\ CodeOK(evtMem, H) /\ ScriptOK(evtMem, H)
  BY DEF Whole, LaidOut
<1>2. PICK m0 : /\ ForwarderBehind(m0, evtMem, src, end, child)
                /\ CallPut(u, m0, src, end, L + 1)
                /\ LaidOut(u, H1, evtLines', bds)
  BY <1>1, HookLaysOut
<1>3. /\ i \in 1 .. Len(evtLines) - 1 /\ k \in i .. Len(evtLines) - 1
      /\ src = ads[i] /\ end \in H /\ src + 2 <= end /\ end <= ads[k + 1] /\ child \in Children
      /\ k = LastCovered(evtLines, i) /\ end = After(evtMem, ads[k])
      /\ \A j \in i .. k : evtLines[j].flow \notin {Lbl, EvtEnd}
      /\ evtLines' = Splice(evtLines, i, k, line)
  BY DEF HookDoes, CallFits, EndsAt
<1>4. end \in Nat /\ end <= L /\ L \in Nat
  <2>1. end \in 1 .. Len(evtMem) /\ Len(evtMem) \in Nat
    BY <1>1, <1>3, InstructionAt
  <2> QED BY <2>1
<1>5. src .. end - 1 \subseteq ParentWords /\ src \in H
  BY <1>1, <1>3, <1>4, TakenWords
<1>6. src \in Nat /\ src <= end
  <2>1. src \in Nat
    BY <1>1, <1>5, InstructionAt
  <2> QED BY <1>3, <1>4, <2>1
<1> HIDE DEF u
<1>7. Forwards(u, evtMem, src, end, child)
  BY <1>1, <1>2, <1>3, <1>5, HookForwards
<1>8. Elsewhere(u, evtMem, src, end)
  BY <1>7 DEF Forwards
<1>9. NewLine(evtLines, i, k, line)
  <2>1. i \in i .. k /\ k \in i .. k
    BY <1>3
  <2> DEFINE last == IF evtLines[i].flow = Return THEN i ELSE k
  <2>2. last \in i .. k
    BY <2>1
  <2>3. line.flow = evtLines[last].flow /\ line.label = evtLines[last].label
    BY DEF Joined
  <2> HIDE DEF last, line
  <2> QED BY <1>3, <2>2, <2>3 DEF NewLine
<1> HIDE DEF line
<1>10. PICK K1, O1 : WithForwarder(u, evtMem, H, src, end, line, K, O, K1, O1)
  <2>1. line = Joined(evtLines, i, k, ActsOf(evtMem, child))
    BY DEF line
  <2>2. Taken(evtLines, i, k)
    BY <1>3 DEF Taken
  <2> QED BY <1>3, <1>7, <2>1, <2>2, ForwarderOutcomes
<1>11. K1 \subseteq H1 \ ParentWords
  <2>1. ParentEnd \in Nat /\ ParentEnd <= L /\ Parent \in Nat
    <3>1. Parent \in H /\ ParentEnd \in H
      BY <1>1 DEF ScriptOK
    <3>2. Parent \in Nat /\ ParentEnd \in 1 .. Len(evtMem)
      BY <1>1, <3>1, InstructionAt
    <3> QED BY <1>4, <3>2
  <2>2. \A b \in Nat : b > L => b \notin ParentWords /\ b \notin src .. end - 1
    BY <1>4, <1>6, <2>1 DEF ParentWords
  <2>3. ASSUME NEW b \in K PROVE b \in H1 \ ParentWords
    <3>1. b \in H \ ParentWords
      BY <1>1 DEF KeptOK
    <3> QED BY <1>5, <3>1 DEF HeadsPut, HeadsBehind
  <2>4. ASSUME NEW b \in K1 \ K PROVE b \in H1 \ ParentWords
    <3>1. b \in H0
      BY <1>10 DEF HeadsBehind, WithForwarder
    <3>2. b \in Nat /\ b > L
      <4>1. CASE b = L + 1
        BY <1>4, <4>1
      <4>2. ASSUME NEW x \in src .. end, b = L + 3 + (x - src) PROVE b \in Nat /\ b > L
        <5> HIDE DEF L
        <5> QED BY <1>4, <1>6, <4>2
      <4>3. end \in src .. end /\ \A x \in src .. end - 1 : x \in src .. end
        BY <1>4, <1>6
      <4> QED BY <1>10, <4>1, <4>2, <4>3 DEF WithForwarder
    <3> QED BY <2>2, <3>1, <3>2 DEF HeadsPut
  <2> QED BY <2>3, <2>4
<1> HIDE DEF H1, bds, L
<1>12. LaidOut(u, H1, Splice(evtLines, i, k, line), Shifted(ads, i, k, Len(evtLines)))
  BY <1>2, <1>3 DEF bds
<1>13. \A j \in i .. k : evtLines[j].flow # Lbl
  BY <1>3
<1>14. Whole(u, H1, Splice(evtLines, i, k, line), Shifted(ads, i, k, Len(evtLines)), K1, O1)
  <2>1. /\ K \subseteq K1 /\ (\A a \in K : O1[a] = O[a]) /\ O1 \in [K1 -> Outcomes]
        /\ (\A a \in K1 \ K : KeptAt(u, K1, O1, a)) /\ LineFits(u, K1, O1, src, line)
    BY <1>10 DEF WithForwarder
  <2>2. /\ i \in 1 .. Len(evtLines) - 1 /\ k \in i .. Len(evtLines) - 1
        /\ src = ads[i] /\ end \in Nat /\ end <= ads[k + 1]
    BY <1>3, <1>4
  <2> QED BY <1>8, <1>9, <1>11, <1>12, <1>13, <2>1, <2>2, Edited
<1> QED BY <1>3, <1>14 DEF u, HasWhole

\* Every patch of the game leaves a whole image.
LEMMA PatchKeepsWhole ==
    ASSUME HasWhole(evtMem, evtLines), Patch, ~PatchShorter
    PROVE  HasWhole(evtMem', evtLines')
<1>1. PICK H, ads, K, O : Whole(evtMem, H, evtLines, ads, K, O)
  BY DEF HasWhole
<1>2. LaidOut(evtMem, H, evtLines, ads)
  BY <1>1 DEF Whole
<1>3. ASSUME NEW G, NEW bds, Whole(evtMem', G, evtLines', bds, K, O)
      PROVE  HasWhole(evtMem', evtLines')
  BY <1>3 DEF HasWhole
<1>4. CASE hookEvt
  <2>1. PICK i, k, src, end, child : HookDoes(H, ads, i, k, src, end, child)
    BY <1>2, <1>4, HookUnpacked
  <2> QED BY <1>1, <2>1, HookKeepsWhole
<1>5. CASE hookEvtReplace \/ hookEvtReplaceBlock
  <2>1. PICK i, k, src, end, child : ReplaceDoes(H, ads, i, k, src, end, child)
    BY <1>2, <1>5, ReplaceUnpacked, ReplaceBlockUnpacked
  <2> QED BY <1>1, <1>3, <2>1, ReplaceKeepsWhole
<1>6. CASE patchEvtInstruction
  <2>1. PICK i, src, new : InstructionDoes(ads, i, src, new)
    BY <1>2, <1>6, InstructionUnpacked
  <2> QED BY <1>1, <1>3, <2>1, InstructionKeepsWhole
<1> QED BY <1>4, <1>5, <1>6 DEF Patch

\* A script of the mod is left by its return only.
LEMMA StraightOn ==
    ASSUME NEW a \in Straight
    PROVE  /\ a \in Heads \ ParentWords /\ getOpcode(Image[a]) \in {Nop, Act, ReturnFromCall}
           /\ getOpcode(Image[a]) # ReturnFromCall => After(Image, a) \in Straight
<1>1. CodeOK(Image, Heads) /\ ScriptOK(Image, Heads)
  BY ImageIsCode
<1>2. a \in Heads /\ a \notin ParentWords
  BY DEF Straight
<1>3. PICK r \in Heads : /\ a <= r /\ getOpcode(Image[r]) = ReturnFromCall
                         /\ \A b \in Heads : a <= b /\ b < r => getOpcode(Image[b]) \in {Nop, Act}
  BY DEF Straight
<1>4. /\ Parent \in Heads /\ ParentEnd \in Heads /\ getOpcode(Image[ParentEnd]) = EvtEnd
      /\ \A b \in Heads : b \in Nat
  BY <1>1, InstructionAt DEF ScriptOK
<1>5. Parent \in Nat /\ ParentEnd \in Nat /\ a \in Nat /\ r \in Nat
  BY <1>2, <1>4
<1>6. CASE a = r
  BY <1>2, <1>3, <1>6
<1>7. CASE a # r
  <2> DEFINE b == After(Image, a)
  <2>1. a < r /\ getOpcode(Image[a]) \in {Nop, Act}
    BY <1>2, <1>3, <1>5, <1>7
  <2>2. getOpcode(Image[a]) \notin Ends /\ getOpcode(Image[a]) # ReturnFromCall
    BY <2>1 DEF Nop, Act, Ends, EvtEnd, ReturnFromCall
  <2>3. b \in Heads /\ b <= r
    BY <1>1, <1>2, <2>1, <2>2 DEF CodeOK
  <2>4. b \in Nat /\ b > a
    BY <1>1, <1>2, InstructionAt
  <2> HIDE DEF b
  <2>5. b \notin ParentWords
    <3> SUFFICES ASSUME b \in ParentWords PROVE FALSE
      OBVIOUS
    <3>1. Parent <= b /\ b <= ParentEnd /\ a < Parent
      BY <1>2, <1>5, <2>4 DEF ParentWords
    <3>2. ~(ParentEnd < r)
      <4> SUFFICES ASSUME ParentEnd < r PROVE FALSE
        OBVIOUS
      <4>1. a <= ParentEnd
        BY <1>5, <2>4, <3>1
      <4>2. getOpcode(Image[ParentEnd]) \in {Nop, Act}
        BY <1>3, <1>4, <4>1
      <4> QED BY <1>4, <4>2 DEF Nop, Act, EvtEnd
    <3>3. r \in ParentWords
      BY <1>5, <2>3, <2>4, <3>1, <3>2 DEF ParentWords
    <3>4. r # ParentEnd
      BY <1>3, <1>4 DEF EvtEnd, ReturnFromCall
    <3> QED BY <1>1, <1>3, <3>3, <3>4 DEF ScriptOK, Ends
  <2>6. \A c \in Heads : b <= c /\ c < r => getOpcode(Image[c]) \in {Nop, Act}
    <3> SUFFICES ASSUME NEW c \in Heads, b <= c, c < r PROVE getOpcode(Image[c]) \in {Nop, Act}
      OBVIOUS
    <3>1. a <= c
      BY <1>4, <1>5, <2>4
    <3> QED BY <1>3, <3>1
  <2>7. b \in Straight
    BY <1>3, <2>3, <2>5, <2>6 DEF Straight
  <2> QED BY <1>2, <2>1, <2>7 DEF b
<1> QED BY <1>6, <1>7

\* What the mod's scripts do from each of their instructions on.
LEMMA StraightOutcomes == \E O : KeptOK(Image, Heads, Straight, O)
<1> DEFINE D == [a \in Addresses |-> IF a \in Straight THEN OutcomeOf(LineAt(Image, a)) ELSE Unit]
           stops == {a \in Addresses : \/ a > Len(Image) \/ a \notin Straight
                                       \/ getOpcode(Image[a]) = ReturnFromCall}
           found == [a \in Addresses |-> Unit]
           step == [a \in Addresses |-> [x \in Outcomes |-> Then(D[a], x)]]
<1>1. CodeOK(Image, Heads) /\ Image \in Seq(Nat)
  BY ImageIsCode DEF CodeOK
<1>2. \A a \in Straight : a \in Heads /\ a \in Addresses /\ ~(a > Len(Image))
  <2> SUFFICES ASSUME NEW a \in Straight PROVE a \in Heads /\ a \in Addresses /\ ~(a > Len(Image))
    OBVIOUS
  <2>1. a \in Heads
    BY StraightOn
  <2>2. a \in 1 .. Len(Image) /\ Len(Image) \in Nat
    BY <1>1, <2>1, InstructionAt
  <2> QED BY <2>1, <2>2 DEF Addresses
<1>3. \A a \in Straight : OutcomeOf(LineAt(Image, a)) \in Outcomes
  <2> SUFFICES ASSUME NEW a \in Straight PROVE OutcomeOf(LineAt(Image, a)) \in Outcomes
    OBVIOUS
  <2>1. getOpcode(Image[a]) \notin {Lbl, EvtEnd}
    BY StraightOn DEF Nop, Act, ReturnFromCall, Lbl, EvtEnd
  <2> QED BY <1>1, <1>2, <2>1, InstructionOutcome
<1>4. D \in [Addresses -> Outcomes]
  BY <1>3, UnitOutcome
<1> HIDE DEF D
<1>5. stops \in SUBSET Addresses /\ found \in [Addresses -> Outcomes]
  BY UnitOutcome
<1>6. step \in [Addresses -> [Outcomes -> Outcomes]]
  <2>1. \A a \in Addresses : D[a] \in Outcomes
    BY <1>4
  <2>2. \A a \in Addresses : \A x \in Outcomes : Then(D[a], x) \in Outcomes
    BY <2>1, ThenOutcome
  <2> QED BY <2>2
<1>7. \A a \in Addresses : a > Len(Image) => a \in stops
  OBVIOUS
<1>8. /\ \A a \in Addresses : found[a] = Unit
      /\ \A a \in Addresses, x \in Outcomes : step[a][x] = Then(D[a], x)
  OBVIOUS
<1>9. \A a \in Straight : a \in stops <=> getOpcode(Image[a]) = ReturnFromCall
  BY <1>2
<1> HIDE DEF stops, found, step
<1>10. PICK f : WalksOver(f, Image, Outcomes, stops, found, step)
  BY <1>1, <1>5, <1>6, <1>7, InstructionWalk
<1> DEFINE O == [a \in Straight |-> f[a]]
<1>11. O \in [Straight -> Outcomes] /\ \A a \in Straight : O[a] = f[a]
  BY <1>2, <1>10 DEF WalksOver
<1>12. ASSUME NEW a \in Straight PROVE KeptAt(Image, Straight, O, a)
  <2> DEFINE op == getOpcode(Image[a])
             b == After(Image, a)
  <2>1. op \in {Nop, Act, ReturnFromCall} /\ (op # ReturnFromCall => b \in Straight)
    BY StraightOn
  <2>2. a \in Addresses /\ D[a] = OutcomeOf(LineAt(Image, a))
    BY <1>2 DEF D
  <2>3. f[a] = IF a \in stops THEN found[a] ELSE step[a][f[After(Image, a)]]
    BY <1>10, <2>2 DEF WalksOver
  <2>4. op \notin {Lbl, EvtEnd, Call}
    BY <2>1 DEF Nop, Act, ReturnFromCall, Lbl, EvtEnd, Call
  <2>5. OutcomeAt(Image, O, a) = OutcomeOf(LineAt(Image, a))
    BY <2>4 DEF OutcomeAt
  <2> HIDE DEF O
  <2>6. op = ReturnFromCall => O[a] = Unit
    BY <1>8, <1>9, <1>11, <2>2, <2>3
  <2>7. op # ReturnFromCall => O[a] = Then(OutcomeAt(Image, O, a), O[b])
    <3> SUFFICES ASSUME op # ReturnFromCall PROVE O[a] = Then(OutcomeAt(Image, O, a), O[b])
      OBVIOUS
    <3>1. b \in Straight /\ O[b] = f[b] /\ O[b] \in Outcomes
      BY <1>11, <2>1
    <3>2. f[a] = step[a][f[b]]
      BY <1>9, <2>3
    <3> QED BY <1>8, <1>11, <2>2, <2>5, <3>1, <3>2
  <2> QED BY <2>1, <2>4, <2>6, <2>7 DEF KeptAt
<1>13. Straight \subseteq Heads \ ParentWords
  BY DEF Straight
<1> HIDE DEF O
<1>14. KeptOK(Image, Heads, Straight, O)
  BY <1>11, <1>12, <1>13 DEF KeptOK
<1> QED BY <1>14

\* The image is whole before the first patch.
LEMMA FirstWhole ==
    ASSUME PlainScripts
    PROVE  HasWhole(Image, LinesOf(Image, Parent))
<1> DEFINE lines == LinesOf(Image, Parent)
<1>1. PICK ads : LinesOK(Image, Heads, lines, ads, Parent) /\ SaysWhatIsAt(Image, lines, ads)
  BY FirstLines
<1>2. PICK O : KeptOK(Image, Heads, Straight, O)
  BY StraightOutcomes
<1>3. LaidOut(Image, Heads, lines, ads)
  BY <1>1, ImageIsCode DEF LaidOut
<1>4. GoesForward(lines) /\ \A a \in Heads \cap ParentWords : getOpcode(Image[a]) # Call
  BY DEF PlainScripts
<1> HIDE DEF lines
<1>5. LinesFit(Image, Straight, O, ads, lines)
  <2> SUFFICES ASSUME NEW j \in 1 .. Len(lines)
               PROVE  LineFits(Image, Straight, O, ads[j], lines[j])
    BY DEF LinesFit
  <2>1. ads[j] \in Heads \cap ParentWords /\ lines[j] = LineAt(Image, ads[j])
    BY <1>1 DEF LinesOK, SaysWhatIsAt
  <2>2. getOpcode(Image[ads[j]]) # Call
    BY <1>4, <2>1
  <2> QED BY <2>1, <2>2 DEF LineFits, OutcomeAt
<1>6. AsideOK(Image, Straight)
  <2>1. /\ Children \subseteq Straight
        /\ \A r \in Replacements : getOpcode(Image[r]) \in {Nop, Act, Return}
    BY DEF PlainScripts
  <2>2. \A a \in Straight : /\ getOpcode(Image[a]) \in {Nop, Act, ReturnFromCall}
                            /\ getOpcode(Image[a]) # ReturnFromCall => After(Image, a) \in Straight
    BY StraightOn
  <2> QED BY <2>1, <2>2 DEF AsideOK
<1>7. Whole(Image, Heads, lines, ads, Straight, O)
  BY <1>2, <1>3, <1>4, <1>5, <1>6 DEF Whole
<1> QED BY <1>7 DEF HasWhole, lines
-----------------------------------------------------------------------------
(* What edited lines do, line by line.                                     *)

\* The line with a label.
Mark(lines, label) == CHOOSE j \in 1 .. Len(lines) : lines[j].flow = Lbl /\ lines[j].label = label

LEMMA MarkAt ==
    ASSUME NEW lines, GoesForward(lines), NEW j \in 1 .. Len(lines), lines[j].flow = Lbl
    PROVE  Mark(lines, lines[j].label) = j
BY DEF Mark, GoesForward

\* What a run does from a label on, when E has what it does from each line on.
Target(lines, E, label) ==
    IF \E j \in 1 .. Len(lines) : lines[j].flow = Lbl /\ lines[j].label = label
    THEN E[Mark(lines, label)] ELSE <<>>

\* What a run does with outcome s, when it does `below` after a return from call.
Value(lines, E, s, below) ==
    s.acts \o (IF s.flow \in {Return, EvtEnd} THEN <<>>
               ELSE IF s.flow = Goto THEN Target(lines, E, s.label) ELSE below)

\* E has what a run does from each line on.
Means(lines, E) ==
    /\ E \in [1 .. Len(lines) + 1 -> Seq(Nat)] /\ E[Len(lines) + 1] = <<>>
    /\ \A i \in 1 .. Len(lines) : E[i] = Value(lines, E, OutcomeOf(lines[i]), E[i + 1])
    /\ E[1] = Effect(lines)

\* What a line goes on with.
GoesTo(flow, end, target, next) ==
    CASE flow \in {Return, EvtEnd} -> end [] flow = Goto -> target [] OTHER -> next

LEMMA GoesToOne ==
    ASSUME NEW flow, NEW end, NEW target, NEW next
    PROVE  /\ flow \in {Return, EvtEnd} => GoesTo(flow, end, target, next) = end
           /\ flow = Goto => GoesTo(flow, end, target, next) = target
           /\ flow \notin {Return, EvtEnd} /\ flow # Goto => GoesTo(flow, end, target, next) = next
<1>1. Goto \notin {Return, EvtEnd}
  BY DEF Goto, Return, EvtEnd
<1> QED BY <1>1, Zenon DEF GoesTo

EffectAt(lines, g, i) ==
    lines[i].acts \o
      GoesTo(lines[i].flow, <<>>,
             g[CHOOSE j \in 1 .. Len(lines) : /\ lines[j].flow = Lbl
                                              /\ lines[j].label = lines[i].label],
             g[i + 1])
EffectStep(lines, g) == [i \in 1 .. Len(lines) |-> EffectAt(lines, g, i)]

LEMMA EffectUnfolds ==
    ASSUME NEW lines
    PROVE  Effect(lines) = (CHOOSE f : f = EffectStep(lines, f))[1]
BY Zenon DEF Effect, EffectStep, EffectAt, GoesTo

\* How it goes on.
LEMMA EffectCases ==
    ASSUME NEW lines, NEW g, NEW i \in 1 .. Len(lines)
    PROVE  /\ lines[i].flow \in {Return, EvtEnd} => EffectAt(lines, g, i) = lines[i].acts \o <<>>
           /\ lines[i].flow = Goto =>
                EffectAt(lines, g, i) = lines[i].acts \o g[Mark(lines, lines[i].label)]
           /\ lines[i].flow \notin {Return, EvtEnd} /\ lines[i].flow # Goto =>
                EffectAt(lines, g, i) = lines[i].acts \o g[i + 1]
<1> DEFINE fl == lines[i].flow
           a == lines[i].acts
           t == g[Mark(lines, lines[i].label)]
           n == g[i + 1]
<1>1. EffectAt(lines, g, i) = a \o GoesTo(fl, <<>>, t, n)
  BY Zenon DEF EffectAt, Mark
<1> HIDE DEF fl, a, t, n
<1>2. /\ fl \in {Return, EvtEnd} => GoesTo(fl, <<>>, t, n) = <<>>
      /\ fl = Goto => GoesTo(fl, <<>>, t, n) = t
      /\ fl \notin {Return, EvtEnd} /\ fl # Goto => GoesTo(fl, <<>>, t, n) = n
  BY GoesToOne
<1>3. /\ fl \in {Return, EvtEnd} => EffectAt(lines, g, i) = a \o <<>>
      /\ fl = Goto => EffectAt(lines, g, i) = a \o t
      /\ fl \notin {Return, EvtEnd} /\ fl # Goto => EffectAt(lines, g, i) = a \o n
  BY <1>1, <1>2
<1> QED BY <1>3 DEF fl, a, t, n

\* A line ends a run, or goes on at a later one.
LEMMA LaterLine ==
    ASSUME NEW lines, Len(lines) \in Nat, GoesForward(lines), lines[Len(lines)].flow = EvtEnd,
           NEW i \in 1 .. Len(lines), lines[i].flow \notin {Return, EvtEnd}
    PROVE  /\ i + 1 \in 1 .. Len(lines)
           /\ lines[i].flow = Goto =>
                LET j == Mark(lines, lines[i].label) IN
                j \in 1 .. Len(lines) /\ i < j /\ lines[j].flow = Lbl /\ lines[j].label = lines[i].label
<1>1. i # Len(lines)
  OBVIOUS
<1>2. lines[i].flow = Goto =>
        LET j == Mark(lines, lines[i].label) IN
        j \in 1 .. Len(lines) /\ i < j /\ lines[j].flow = Lbl /\ lines[j].label = lines[i].label
  <2> SUFFICES ASSUME lines[i].flow = Goto
               PROVE  LET j == Mark(lines, lines[i].label) IN
                      /\ j \in 1 .. Len(lines) /\ i < j /\ lines[j].flow = Lbl
                      /\ lines[j].label = lines[i].label
    OBVIOUS
  <2>1. PICK j \in 1 .. Len(lines) : i < j /\ lines[j].flow = Lbl /\ lines[j].label = lines[i].label
    BY DEF GoesForward
  <2>2. Mark(lines, lines[i].label) = j
    BY <2>1, MarkAt
  <2> QED BY <2>1, <2>2
<1> QED BY <1>1, <1>2

\* f is what the recursive function in Effect is.
EffectIs(lines, f) == f = EffectStep(lines, f)

LEMMA EffectUnique ==
    ASSUME NEW lines, Len(lines) \in Nat, GoesForward(lines), lines[Len(lines)].flow = EvtEnd,
           NEW f, EffectIs(lines, f), NEW g, EffectIs(lines, g), NEW i \in 1 .. Len(lines)
    PROVE  f[i] = g[i]
<1> DEFINE n == Len(lines)
           N == {d \in Nat : \A j \in 1 .. n : n - j < d => f[j] = g[j]}
<1>1. \A j \in 1 .. n : f[j] = EffectAt(lines, f, j) /\ g[j] = EffectAt(lines, g, j)
  BY DEF EffectIs, EffectStep
<1>2. 0 \in N
  OBVIOUS
<1>3. ASSUME NEW d \in N PROVE d + 1 \in N
  <2> SUFFICES ASSUME NEW j \in 1 .. n, n - j < d + 1 PROVE f[j] = g[j]
    BY <1>3
  <2>0. d \in Nat /\ \A l \in 1 .. n : n - l < d => f[l] = g[l]
    BY <1>3
  <2>1. CASE lines[j].flow \in {Return, EvtEnd}
    <3>1. EffectAt(lines, f, j) = EffectAt(lines, g, j)
      BY <2>1, EffectCases
    <3> QED BY <1>1, <3>1
  <2>2. CASE lines[j].flow \notin {Return, EvtEnd} /\ lines[j].flow = Goto
    <3> DEFINE l == Mark(lines, lines[j].label)
    <3>1. l \in 1 .. n /\ j < l
      BY <2>2, LaterLine
    <3>2. EffectAt(lines, f, j) = lines[j].acts \o f[l] /\ EffectAt(lines, g, j) = lines[j].acts \o g[l]
      BY <2>2, EffectCases
    <3> HIDE DEF l
    <3>3. f[l] = g[l]
      BY <2>0, <3>1
    <3> QED BY <1>1, <3>2, <3>3
  <2>3. CASE lines[j].flow \notin {Return, EvtEnd} /\ lines[j].flow # Goto
    <3>1. j + 1 \in 1 .. n
      BY <2>3, LaterLine
    <3>2. EffectAt(lines, f, j) = lines[j].acts \o f[j + 1]
      BY <2>3, EffectCases, ZenonT(100)
    <3>3. EffectAt(lines, g, j) = lines[j].acts \o g[j + 1]
      BY <2>3, EffectCases, ZenonT(100)
    <3>4. f[j + 1] = g[j + 1]
      BY <2>0, <3>1
    <3> QED BY <1>1, <3>2, <3>3, <3>4
  <2> QED BY <2>1, <2>2, <2>3
<1> HIDE DEF N
<1>4. N = Nat
  <2>1. N \in SUBSET Nat
    BY DEF N
  <2> QED BY <1>2, <1>3, <2>1, SetInduction
<1>5. n \in N /\ n - i < n
  BY <1>4
<1> QED BY <1>5 DEF N

\* What a run does from each line on.
LEMMA EffectOf ==
    ASSUME NEW lines, Len(lines) \in Nat \ {0}, GoesForward(lines), lines[Len(lines)].flow = EvtEnd,
           \A i \in 1 .. Len(lines) : lines[i].acts \in Seq(Nat)
    PROVE  \E E : Means(lines, E)
<1> DEFINE n == Len(lines)
           D == 1 .. n + 1
           X == Seq(Nat)
           A == [i \in D |-> IF i = n + 1 THEN <<>> ELSE lines[i].acts]
           stops == {i \in D : i = n + 1 \/ lines[i].flow \in {Return, EvtEnd}}
           next == [i \in D |-> IF i \in stops THEN i
                                ELSE IF lines[i].flow = Goto THEN Mark(lines, lines[i].label)
                                ELSE i + 1]
           step == [i \in D |-> [x \in X |-> A[i] \o x]]
           left == [i \in D |-> (n + 1) - i]
<1>1. n \in Nat /\ n >= 1 /\ \A i \in D : i \in 1 .. n \/ i = n + 1
  OBVIOUS
<1>2. A \in [D -> X] /\ \A i \in 1 .. n : A[i] = lines[i].acts
  <2>1. <<>> \in X
    OBVIOUS
  <2> QED BY <1>1, <2>1
<1>3. A[n + 1] = <<>>
  OBVIOUS
<1> HIDE DEF A
<1>4. stops \in SUBSET D
  OBVIOUS
<1>5. \A i \in D \ stops : next[i] \in D /\ i < next[i]
  <2> SUFFICES ASSUME NEW i \in D \ stops PROVE next[i] \in D /\ i < next[i]
    OBVIOUS
  <2>1. i \in 1 .. n /\ lines[i].flow \notin {Return, EvtEnd}
    BY <1>1
  <2>2. CASE lines[i].flow = Goto
    <3>1. next[i] = Mark(lines, lines[i].label)
      BY <2>2
    <3>2. Mark(lines, lines[i].label) \in 1 .. n /\ i < Mark(lines, lines[i].label)
      BY <2>1, <2>2, LaterLine
    <3> QED BY <1>1, <3>1, <3>2
  <2>3. CASE lines[i].flow # Goto
    <3>1. next[i] = i + 1
      BY <2>3
    <3> QED BY <1>1, <2>1, <3>1
  <2> QED BY <2>2, <2>3
<1>6. next \in [D -> D]
  <2>1. \A i \in stops : next[i] = i
    OBVIOUS
  <2>2. \A i \in D : next[i] \in D
    BY <1>5, <2>1
  <2> QED BY <2>2
<1>7. step \in [D -> [X -> X]]
  <2>1. \A i \in D : A[i] \in X
    BY <1>2
  <2>2. \A i \in D : \A x \in X : A[i] \o x \in X
    BY <2>1, ConcatProperties
  <2> QED BY <2>2
<1>8. left \in [D -> Nat] /\ \A i \in D : left[i] = (n + 1) - i
  BY <1>1
<1>9. /\ \A i \in D, x \in X : step[i][x] = A[i] \o x
      /\ n + 1 \in stops /\ \A i \in 1 .. n : i \in stops <=> lines[i].flow \in {Return, EvtEnd}
      /\ \A i \in 1 .. n : lines[i].flow = Goto => next[i] = Mark(lines, lines[i].label)
      /\ \A i \in 1 .. n : lines[i].flow \notin {Return, EvtEnd, Goto} => next[i] = i + 1
  <2>1. \A i \in D, x \in X : step[i][x] = A[i] \o x
    OBVIOUS
  <2>2. n + 1 \in stops /\ \A i \in 1 .. n : i \in D /\ i # n + 1
    BY <1>1
  <2>3. \A i \in 1 .. n : i \in stops <=> lines[i].flow \in {Return, EvtEnd}
    BY <2>2
  <2>4. \A i \in 1 .. n : lines[i].flow = Goto => next[i] = Mark(lines, lines[i].label)
    <3>1. Goto \notin {Return, EvtEnd}
      BY DEF Goto, Return, EvtEnd
    <3> QED BY <2>2, <2>3, <3>1
  <2>5. \A i \in 1 .. n : lines[i].flow \notin {Return, EvtEnd, Goto} => next[i] = i + 1
    BY <2>2, <2>3
  <2> QED BY <2>1, <2>2, <2>3, <2>4, <2>5
<1>10. \A i \in D \ stops : left[next[i]] < left[i]
  <2> SUFFICES ASSUME NEW i \in D \ stops PROVE left[next[i]] < left[i]
    OBVIOUS
  <2>1. next[i] \in D /\ i < next[i]
    BY <1>5
  <2> HIDE DEF next
  <2>2. left[next[i]] = (n + 1) - next[i] /\ left[i] = (n + 1) - i
    BY <1>8, <2>1
  <2> QED BY <1>1, <2>1, <2>2
<1> HIDE DEF stops, next, step, left
<1>11. PICK E : Walks(E, D, X, stops, A, next, step)
  <2> HIDE DEF D, X
  <2>1. \E E : Walks(E, D, X, stops, A, next, step)
    BY <1>2, <1>4, <1>6, <1>7, <1>8, <1>10, FunctionByWalk
  <2> QED BY <2>1
<1>12. E \in [D -> X] /\ \A i \in D : E[i] = IF i \in stops THEN A[i] ELSE step[i][E[next[i]]]
  BY <1>11 DEF Walks
<1>13. E[n + 1] = <<>>
  <2>1. n + 1 \in D
    BY <1>1
  <2> QED BY <1>3, <1>9, <1>12, <2>1
\* Line by line.
<1>14. ASSUME NEW i \in 1 .. n
       PROVE  /\ lines[i].flow \in {Return, EvtEnd} => E[i] = lines[i].acts
              /\ lines[i].flow = Goto => /\ Mark(lines, lines[i].label) \in 1 .. n
                                         /\ E[i] = lines[i].acts \o E[Mark(lines, lines[i].label)]
              /\ lines[i].flow \notin {Return, EvtEnd, Goto} =>
                   i + 1 \in 1 .. n /\ E[i] = lines[i].acts \o E[i + 1]
  <2>1. i \in D /\ A[i] = lines[i].acts
    BY <1>1, <1>2
  <2>2. E[i] = IF i \in stops THEN A[i] ELSE step[i][E[next[i]]]
    BY <1>12, <2>1
  <2>3. i \in stops <=> lines[i].flow \in {Return, EvtEnd}
    BY <1>9
  <2>4. CASE lines[i].flow \in {Return, EvtEnd}
    <3>1. lines[i].flow # Goto
      BY <2>4 DEF Goto, Return, EvtEnd
    <3> QED BY <2>1, <2>2, <2>3, <2>4, <3>1
  <2>5. CASE lines[i].flow \notin {Return, EvtEnd}
    <3>1. next[i] \in D
      BY <1>6, <2>1
    <3>2. E[next[i]] \in X
      BY <1>12, <3>1
    <3>3. E[i] = lines[i].acts \o E[next[i]]
      BY <1>9, <2>1, <2>2, <2>3, <2>5, <3>2
    <3>4. i + 1 \in 1 .. n /\ (lines[i].flow = Goto => Mark(lines, lines[i].label) \in 1 .. n)
      BY <1>1, <2>5, LaterLine
    <3>5. lines[i].flow = Goto => next[i] = Mark(lines, lines[i].label)
      BY <1>9
    <3>6. lines[i].flow \notin {Return, EvtEnd, Goto} => next[i] = i + 1
      BY <1>9
    <3> QED BY <2>5, <3>3, <3>4, <3>5, <3>6
  <2> QED BY <2>4, <2>5
<1>15. ASSUME NEW i \in 1 .. n PROVE E[i] = Value(lines, E, OutcomeOf(lines[i]), E[i + 1])
  <2> DEFINE l == lines[i]
             o == OutcomeOf(l)
  <2>1. l.acts \in Seq(Nat)
    OBVIOUS
  <2>2. /\ o.acts = l.acts
        /\ l.flow \in {Return, EvtEnd} => o.flow \in {Return, EvtEnd}
        /\ l.flow = Goto => o.flow = Goto /\ o.flow \notin {Return, EvtEnd} /\ o.label = l.label
        /\ l.flow \notin {Return, EvtEnd, Goto} => o.flow \notin {Return, EvtEnd, Goto}
    <3> HIDE DEF l
    <3> QED BY DEF OutcomeOf, Return, EvtEnd, Goto, Lbl, ReturnFromCall
  <2>3. l.acts \o <<>> = l.acts
    BY <2>1, ConcatEmptySeq
  <2> HIDE DEF o
  <2>4. CASE l.flow \in {Return, EvtEnd}
    <3>1. E[i] = l.acts
      BY <1>14, <2>4
    <3>2. Value(lines, E, o, E[i + 1]) = l.acts \o <<>>
      BY <2>2, <2>4 DEF Value
    <3> QED BY <2>3, <3>1, <3>2 DEF o
  <2>5. CASE l.flow = Goto
    <3>1. E[i] = l.acts \o E[Mark(lines, l.label)]
      BY <1>14, <2>5
    <3>2. Value(lines, E, o, E[i + 1]) = l.acts \o Target(lines, E, l.label)
      <4>1. o.acts = l.acts /\ o.flow = Goto /\ o.flow \notin {Return, EvtEnd} /\ o.label = l.label
        BY <2>2, <2>5
      <4> QED BY <4>1 DEF Value
    <3>3. \E j \in 1 .. n : lines[j].flow = Lbl /\ lines[j].label = l.label
      BY <2>5 DEF GoesForward
    <3>4. Target(lines, E, l.label) = E[Mark(lines, l.label)]
      <4> DEFINE x == l.label
      <4>1. \E j \in 1 .. n : lines[j].flow = Lbl /\ lines[j].label = x
        BY <3>3
      <4> HIDE DEF x
      <4>2. Target(lines, E, x) = E[Mark(lines, x)]
        BY <4>1 DEF Target
      <4> QED BY <4>2 DEF x
    <3> QED BY <3>1, <3>2, <3>4 DEF o
  <2>6. CASE l.flow \notin {Return, EvtEnd, Goto}
    <3>1. E[i] = l.acts \o E[i + 1]
      BY <1>14, <2>6
    <3>2. Value(lines, E, o, E[i + 1]) = l.acts \o E[i + 1]
      BY <2>2, <2>6 DEF Value
    <3> QED BY <3>1, <3>2 DEF o
  <2> QED BY <2>4, <2>5, <2>6
<1>16. E[1] = Effect(lines)
  <2> DEFINE F == [i \in 1 .. n |-> E[i]]
  <2>1. EffectIs(lines, F)
    <3>1. ASSUME NEW i \in 1 .. n PROVE E[i] = EffectAt(lines, F, i)
      <4>1. CASE lines[i].flow \in {Return, EvtEnd}
        <5>1. EffectAt(lines, F, i) = lines[i].acts \o <<>>
          BY <4>1, EffectCases
        <5>2. lines[i].acts \o <<>> = lines[i].acts
          BY ConcatEmptySeq
        <5> QED BY <1>14, <4>1, <5>1, <5>2
      <4>2. CASE lines[i].flow = Goto
        <5>1. EffectAt(lines, F, i) = lines[i].acts \o F[Mark(lines, lines[i].label)]
          BY <4>2, EffectCases
        <5>2. /\ Mark(lines, lines[i].label) \in 1 .. n
              /\ E[i] = lines[i].acts \o E[Mark(lines, lines[i].label)]
          BY <1>14, <4>2
        <5> QED BY <5>1, <5>2
      <4>3. CASE lines[i].flow \notin {Return, EvtEnd, Goto}
        <5>1. EffectAt(lines, F, i) = lines[i].acts \o F[i + 1]
          BY <4>3, EffectCases
        <5>2. i + 1 \in 1 .. n /\ E[i] = lines[i].acts \o E[i + 1]
          BY <1>14, <4>3
        <5> QED BY <5>1, <5>2
      <4> QED BY <4>1, <4>2, <4>3
    <3>2. F = [i \in 1 .. n |-> EffectAt(lines, F, i)]
      BY <3>1
    <3> HIDE DEF F
    <3> QED BY <3>2 DEF EffectIs, EffectStep
  <2> DEFINE f == CHOOSE f : EffectIs(lines, f)
  <2>2. EffectIs(lines, f)
    BY <2>1
  <2>3. Effect(lines) = f[1]
    BY EffectUnfolds DEF EffectIs
  <2>4. 1 \in 1 .. n /\ F[1] = E[1]
    BY <1>1
  <2> HIDE DEF f, F
  <2>5. f[1] = F[1]
    BY <1>1, <2>1, <2>2, <2>4, EffectUnique
  <2> QED BY <2>3, <2>4, <2>5
<1>17. Means(lines, E)
  BY <1>12, <1>13, <1>15, <1>16 DEF Means
<1> QED BY <1>17

LEMMA TargetTyped ==
    ASSUME NEW lines, NEW E, E \in [1 .. Len(lines) + 1 -> Seq(Nat)], Len(lines) \in Nat, NEW label
    PROVE  Target(lines, E, label) \in Seq(Nat)
<1>1. CASE \E j \in 1 .. Len(lines) : lines[j].flow = Lbl /\ lines[j].label = label
  <2>1. Mark(lines, label) \in 1 .. Len(lines)
    BY <1>1 DEF Mark
  <2>2. Mark(lines, label) \in 1 .. Len(lines) + 1
    BY <2>1
  <2>3. E[Mark(lines, label)] \in Seq(Nat)
    BY <2>2
  <2> QED BY <1>1, <2>3 DEF Target
<1>2. CASE ~ \E j \in 1 .. Len(lines) : lines[j].flow = Lbl /\ lines[j].label = label
  <2>1. Target(lines, E, label) = <<>>
    BY <1>2 DEF Target
  <2> QED BY <2>1, EmptySeq
<1> QED BY <1>1, <1>2

\* What follows an outcome.
LEMMA ValueTyped ==
    ASSUME NEW lines, NEW E, E \in [1 .. Len(lines) + 1 -> Seq(Nat)], Len(lines) \in Nat,
           NEW s, s.acts \in Seq(Nat), NEW below \in Seq(Nat)
    PROVE  /\ Value(lines, E, s, below) \in Seq(Nat)
           /\ s.flow \in {Return, EvtEnd} => Value(lines, E, s, below) = s.acts
           /\ s.flow = Goto => Value(lines, E, s, below) = s.acts \o Target(lines, E, s.label)
           /\ s.flow \notin {Return, EvtEnd, Goto} => Value(lines, E, s, below) = s.acts \o below
<1> DEFINE fl == s.flow
           t == Target(lines, E, s.label)
           a == s.acts
<1>1. t \in Seq(Nat) /\ a \in Seq(Nat)
  BY TargetTyped
<1>2. Value(lines, E, s, below) = a \o (IF fl \in {Return, EvtEnd} THEN <<>>
                                        ELSE IF fl = Goto THEN t ELSE below)
  BY DEF Value
<1>3. Goto \notin {Return, EvtEnd}
  BY DEF Goto, Return, EvtEnd
<1> HIDE DEF fl, t, a
<1>4. a \o t \in Seq(Nat) /\ a \o below \in Seq(Nat) /\ a \o <<>> = a
  BY <1>1, ConcatProperties, ConcatEmptySeq
<1>5. /\ fl \in {Return, EvtEnd} => Value(lines, E, s, below) = a
      /\ fl = Goto => Value(lines, E, s, below) = a \o t
      /\ fl \notin {Return, EvtEnd, Goto} => Value(lines, E, s, below) = a \o below
  BY <1>2, <1>3, <1>4
<1>6. Value(lines, E, s, below) \in Seq(Nat)
  BY <1>1, <1>4, <1>5
<1> QED BY <1>5, <1>6 DEF fl, t, a

LEMMA ValueThen ==
    ASSUME NEW lines, NEW E, E \in [1 .. Len(lines) + 1 -> Seq(Nat)], Len(lines) \in Nat,
           NEW s \in Outcomes, NEW t \in Outcomes, NEW below \in Seq(Nat)
    PROVE  Value(lines, E, Then(s, t), below) = Value(lines, E, s, Value(lines, E, t, below))
<1>1. s.acts \in Seq(Nat) /\ t.acts \in Seq(Nat) /\ s.flow \in {ReturnFromCall, Return, Goto}
  BY OutcomeFields
<1> DEFINE v == Value(lines, E, t, below)
<1>2. v \in Seq(Nat)
  BY <1>1, ValueTyped
<1>3. CASE s.flow \in {Return, Goto}
  <2>1. Then(s, t) = s
    BY <1>3 DEF Then
  <2>2. Value(lines, E, s, v) = Value(lines, E, s, below)
    <3> HIDE DEF v
    <3>1. s.flow = Return => Value(lines, E, s, v) = s.acts /\ Value(lines, E, s, below) = s.acts
      BY <1>1, <1>2, ValueTyped, ZenonT(60)
    <3>2. s.flow = Goto => /\ Value(lines, E, s, v) = s.acts \o Target(lines, E, s.label)
                           /\ Value(lines, E, s, below) = s.acts \o Target(lines, E, s.label)
      BY <1>1, <1>2, ValueTyped, ZenonT(60)
    <3> DEFINE x == Value(lines, E, s, v)
               y == Value(lines, E, s, below)
    <3>3. s.flow = Return \/ s.flow = Goto
      BY <1>3
    <3>4. (s.flow = Return => x = y) /\ (s.flow = Goto => x = y)
      BY <3>1, <3>2
    <3> QED BY <3>3, <3>4
  <2> QED BY <2>1, <2>2
<1>4. CASE s.flow \notin {Return, Goto}
  <2> DEFINE u == Then(s, t)
             R == IF t.flow \in {Return, EvtEnd} THEN <<>>
                  ELSE IF t.flow = Goto THEN Target(lines, E, t.label) ELSE below
  <2>1. u = [acts |-> s.acts \o t.acts, flow |-> t.flow, label |-> t.label]
    BY <1>4 DEF Then
  <2> HIDE DEF u
  <2>2. u.acts = s.acts \o t.acts /\ u.flow = t.flow /\ u.label = t.label
    BY <2>1
  <2>3. R \in Seq(Nat)
    BY TargetTyped, EmptySeq
  <2>4. Value(lines, E, u, below) = (s.acts \o t.acts) \o R
    BY <2>2 DEF Value
  <2>5. v = t.acts \o R
    BY DEF Value
  <2> HIDE DEF R, v
  <2>6. s.flow = ReturnFromCall /\ ReturnFromCall \notin {Return, EvtEnd, Goto}
    BY <1>1, <1>4 DEF ReturnFromCall, Return, EvtEnd, Goto
  <2>7. Value(lines, E, s, v) = s.acts \o v
    <3>1. s.flow \notin {Return, EvtEnd} /\ s.flow # Goto
      BY <2>6
    <3> QED BY <3>1 DEF Value
  <2>8. (s.acts \o t.acts) \o R = s.acts \o (t.acts \o R)
    <3> DEFINE a == s.acts
               b == t.acts
    <3>1. a \in Seq(Nat) /\ b \in Seq(Nat)
      BY <1>1
    <3> HIDE DEF a, b
    <3>2. (a \o b) \o R = a \o (b \o R)
      BY <2>3, <3>1, ConcatAssociative, SMTT(30)
    <3> QED BY <3>2 DEF a, b
  <2> QED BY <2>4, <2>5, <2>7, <2>8 DEF u, v
<1> QED BY <1>3, <1>4

\* A line and the instruction at its address.
LEMMA LineIs ==
    ASSUME NEW m, NEW H, NEW lines, NEW ads, NEW K, NEW O, Whole(m, H, lines, ads, K, O),
           NEW j \in 1 .. Len(lines)
    PROVE  /\ ads[j] \in H /\ OutcomeOf(lines[j]) = OutcomeAt(m, O, ads[j])
           /\ getOpcode(m[ads[j]]) = Call => m[ads[j] + 1] \in K /\ O[m[ads[j] + 1]] \in Outcomes
           /\ lines[j].acts \in Seq(Nat)
           /\ lines[j].flow = Lbl <=> getOpcode(m[ads[j]]) = Lbl
           /\ lines[j].flow = Lbl => lines[j].label = m[ads[j] + 1] /\ lines[j].acts = <<>>
<1> DEFINE a == ads[j]
           line == lines[j]
           op == getOpcode(m[a])
<1>1. CodeOK(m, H) /\ LinesOK(m, H, lines, ads, Parent) /\ KeptOK(m, H, K, O) /\ LineFits(m, K, O, a, line)
  BY DEF Whole, LaidOut, LinesFit
<1>2. a \in H
  BY <1>1 DEF LinesOK
<1>3. (op = Call => m[a + 1] \in K) /\ OutcomeOf(line) = OutcomeAt(m, O, a)
  BY <1>1 DEF LineFits
<1>4. op = Call => O[m[a + 1]] \in Outcomes
  BY <1>1, <1>3 DEF KeptOK
<1>5. /\ LineAt(m, a).acts \in Seq(Nat) /\ LineAt(m, a).flow = op
      /\ op # Act => LineAt(m, a).acts = <<>>
      /\ op \in {Lbl, Goto} => LineAt(m, a).label = m[a + 1]
  BY <1>1, <1>2, LineTypes
<1>6. OutcomeAt(m, O, a) = IF op = Call THEN O[m[a + 1]] ELSE OutcomeOf(LineAt(m, a))
  BY DEF OutcomeAt
<1> DEFINE l == LineAt(m, a)
           o == O[m[a + 1]]
<1> HIDE DEF a, line, op
<1>7. /\ OutcomeOf(line).acts = line.acts
      /\ line.flow = Lbl <=> OutcomeOf(line).flow = Lbl
      /\ line.flow = Lbl => OutcomeOf(line).label = line.label
  BY DEF OutcomeOf, Lbl, ReturnFromCall
<1>8. CASE op = Call
  <2>1. o \in Outcomes /\ OutcomeOf(line) = o
    BY <1>3, <1>4, <1>6, <1>8
  <2> HIDE DEF o
  <2>2. o.acts \in Seq(Nat) /\ o.flow \in {ReturnFromCall, Return, Goto}
    BY <2>1, OutcomeFields
  <2>3. line.flow # Lbl
    BY <1>7, <2>1, <2>2 DEF Lbl, ReturnFromCall, Return, Goto
  <2>4. op # Lbl
    BY <1>8 DEF Call, Lbl
  <2> QED BY <1>2, <1>3, <1>4, <1>7, <2>1, <2>2, <2>3, <2>4 DEF a, line, op
<1>9. CASE op # Call
  <2>1. OutcomeOf(line) = OutcomeOf(l)
    BY <1>3, <1>6, <1>9
  <2>2. /\ l.acts \in Seq(Nat) /\ l.flow = op /\ (op # Act => l.acts = <<>>)
        /\ op \in {Lbl, Goto} => l.label = m[a + 1]
    BY <1>5
  <2> HIDE DEF l
  <2>3. /\ OutcomeOf(l).acts = l.acts
        /\ l.flow = Lbl <=> OutcomeOf(l).flow = Lbl
        /\ l.flow = Lbl => OutcomeOf(l).label = l.label
    BY DEF OutcomeOf, Lbl, ReturnFromCall
  <2>4. op = Lbl => op # Act
    BY DEF Lbl, Act
  <2>5. /\ line.acts \in Seq(Nat) /\ (line.flow = Lbl <=> op = Lbl)
        /\ line.flow = Lbl => line.label = m[a + 1] /\ line.acts = <<>>
    BY <1>7, <2>1, <2>2, <2>3, <2>4
  <2> QED BY <1>2, <1>3, <1>4, <2>5 DEF a, line, op
<1> QED BY <1>8, <1>9
-----------------------------------------------------------------------------
(* What a run has left to do.                                              *)

\* An image and what it means: c has the memory, the addresses of instructions, the patched
\* script's lines and where they are, the addresses of the scripts it calls with their
\* outcomes, and what a run does from each line on.
Explains(c) ==
    /\ Whole(c.mem, c.heads, c.lines, c.ads, c.kept, c.outcome) /\ Means(c.lines, c.effect)

LEMMA HasExplanation ==
    ASSUME NEW m, NEW lines, HasWhole(m, lines)
    PROVE  \E c : c.mem = m /\ c.lines = lines /\ Explains(c)
<1>1. PICK H, ads, K, O : Whole(m, H, lines, ads, K, O)
  BY DEF HasWhole
<1>2. LinesOK(m, H, lines, ads, Parent) /\ GoesForward(lines)
  BY <1>1 DEF Whole, LaidOut
<1>3. Len(lines) \in Nat \ {0} /\ lines[Len(lines)].flow = EvtEnd
  <2>1. Len(lines) \in Nat /\ Len(lines) >= 1
    BY <1>2, LenProperties DEF LinesOK
  <2> QED BY <1>2, <2>1 DEF LinesOK
<1>4. \A j \in 1 .. Len(lines) : lines[j].acts \in Seq(Nat)
  BY <1>1, LineIs
<1>5. PICK E : Means(lines, E)
  BY <1>2, <1>3, <1>4, EffectOf
<1> DEFINE c == [mem |-> m, heads |-> H, lines |-> lines, ads |-> ads, kept |-> K,
                 outcome |-> O, effect |-> E]
<1>6. /\ c.mem = m /\ c.heads = H /\ c.lines = lines /\ c.ads = ads /\ c.kept = K
      /\ c.outcome = O /\ c.effect = E
  OBVIOUS
<1> HIDE DEF c
<1>7. Explains(c)
  BY <1>1, <1>5, <1>6 DEF Explains
<1> QED BY <1>6, <1>7

LEMMA Explained ==
    ASSUME NEW c, Explains(c)
    PROVE  /\ Whole(c.mem, c.heads, c.lines, c.ads, c.kept, c.outcome)
           /\ CodeOK(c.mem, c.heads) /\ ScriptOK(c.mem, c.heads)
           /\ LinesOK(c.mem, c.heads, c.lines, c.ads, Parent)
           /\ KeptOK(c.mem, c.heads, c.kept, c.outcome) /\ GoesForward(c.lines)
           /\ Len(c.lines) \in Nat \ {0} /\ c.lines[Len(c.lines)].flow = EvtEnd
           /\ c.effect \in [1 .. Len(c.lines) + 1 -> Seq(Nat)]
           /\ \A i \in 1 .. Len(c.lines) :
                /\ c.effect[i] \in Seq(Nat) /\ c.effect[i + 1] \in Seq(Nat)
                /\ c.effect[i] = Value(c.lines, c.effect, OutcomeOf(c.lines[i]), c.effect[i + 1])
           /\ c.effect[1] = Effect(c.lines)
<1>1. /\ Whole(c.mem, c.heads, c.lines, c.ads, c.kept, c.outcome) /\ Means(c.lines, c.effect)
      /\ CodeOK(c.mem, c.heads) /\ ScriptOK(c.mem, c.heads)
      /\ LinesOK(c.mem, c.heads, c.lines, c.ads, Parent)
      /\ KeptOK(c.mem, c.heads, c.kept, c.outcome) /\ GoesForward(c.lines)
  BY DEF Explains, Whole, LaidOut
<1>2. Len(c.lines) \in Nat /\ Len(c.lines) >= 1 /\ c.lines[Len(c.lines)].flow = EvtEnd
  BY <1>1, LenProperties DEF LinesOK
<1>3. c.effect \in [1 .. Len(c.lines) + 1 -> Seq(Nat)]
  BY <1>1 DEF Means
<1>4. \A i \in 1 .. Len(c.lines) : c.effect[i] \in Seq(Nat) /\ c.effect[i + 1] \in Seq(Nat)
  <2>1. \A i \in 1 .. Len(c.lines) : i \in 1 .. Len(c.lines) + 1 /\ i + 1 \in 1 .. Len(c.lines) + 1
    BY <1>2
  <2> QED BY <1>3, <2>1
<1>5. \A i \in 1 .. Len(c.lines) :
        c.effect[i] = Value(c.lines, c.effect, OutcomeOf(c.lines[i]), c.effect[i + 1])
  BY <1>1 DEF Means
<1>6. c.effect[1] = Effect(c.lines)
  BY <1>1 DEF Means
<1>7. Len(c.lines) \in Nat \ {0}
  BY <1>2
<1> QED BY <1>1, <1>2, <1>3, <1>4, <1>5, <1>6, <1>7

\* What follows an outcome in an image that is explained.
LEMMA ValueIn ==
    ASSUME NEW c, Explains(c), NEW s, s.acts \in Seq(Nat), NEW below \in Seq(Nat)
    PROVE  LET v == Value(c.lines, c.effect, s, below) IN
           /\ v \in Seq(Nat)
           /\ s.flow \in {Return, EvtEnd} => v = s.acts
           /\ s.flow = Goto => v = s.acts \o Target(c.lines, c.effect, s.label)
           /\ s.flow \notin {Return, EvtEnd, Goto} => v = s.acts \o below
<1>1. c.effect \in [1 .. Len(c.lines) + 1 -> Seq(Nat)] /\ Len(c.lines) \in Nat
  BY Explained
<1> DEFINE lines == c.lines
           E == c.effect
<1>2. E \in [1 .. Len(lines) + 1 -> Seq(Nat)]
  BY <1>1
<1>3. Len(lines) \in Nat
  BY <1>1
<1> HIDE DEF lines, E
<1>4. /\ Value(lines, E, s, below) \in Seq(Nat)
      /\ s.flow \in {Return, EvtEnd} => Value(lines, E, s, below) = s.acts
      /\ s.flow = Goto => Value(lines, E, s, below) = s.acts \o Target(lines, E, s.label)
      /\ s.flow \notin {Return, EvtEnd, Goto} => Value(lines, E, s, below) = s.acts \o below
  BY <1>2, <1>3, ValueTyped, ZenonT(60)
<1> QED BY <1>4 DEF lines, E

\* Only padding is between x and the instruction at a, which is of the patched script.
Leads(c, x, a) == x \in c.heads /\ x \in Parent .. a /\ \A y \in x .. a - 1 : c.mem[y] = 0

\* A run that is at x, in the patched script, has this left to do.
InParent(c, x, left) == \E i \in 1 .. Len(c.lines) : Leads(c, x, c.ads[i]) /\ left = c.effect[i]

\* And one that is at x wherever that is, when it goes on with `below` after a return from call.
Stands(c, x, below, left) ==
    \/ InParent(c, x, left)
    \/ x \in c.kept /\ left = Value(c.lines, c.effect, c.outcome[x], below)

LEMMA InParentAt ==
    ASSUME NEW c, Explains(c), NEW i \in 1 .. Len(c.lines), NEW x, Leads(c, x, c.ads[i])
    PROVE  /\ x \in c.heads /\ x \in Nat /\ x \in ParentWords /\ x \notin c.kept
           /\ c.ads[i] \in c.heads /\ c.ads[i] \in Nat /\ x <= c.ads[i] /\ Parent \in Nat
           /\ x # c.ads[i] => c.mem[x] = 0
<1>1. /\ CodeOK(c.mem, c.heads) /\ ScriptOK(c.mem, c.heads)
      /\ LinesOK(c.mem, c.heads, c.lines, c.ads, Parent)
      /\ KeptOK(c.mem, c.heads, c.kept, c.outcome)
  BY Explained
<1> DEFINE a == c.ads[i]
<1>2. a \in c.heads /\ a \in ParentWords
  BY <1>1 DEF LinesOK
<1>3. /\ x \in c.heads /\ x \in Parent .. a /\ \A y \in x .. a - 1 : c.mem[y] = 0
  BY DEF Leads
<1> HIDE DEF a
<1>4. x \in Nat /\ a \in Nat /\ Parent \in Nat /\ ParentEnd \in Nat
  <2>1. Parent \in c.heads /\ ParentEnd \in c.heads
    BY <1>1 DEF ScriptOK
  <2> QED BY <1>1, <1>2, <1>3, <2>1, InstructionAt
<1>5. x <= a /\ x \in ParentWords
  BY <1>2, <1>3, <1>4 DEF ParentWords
<1>6. x \notin c.kept
  BY <1>1, <1>5 DEF KeptOK
<1>7. x # a => c.mem[x] = 0
  <2> SUFFICES ASSUME x # a PROVE c.mem[x] = 0
    OBVIOUS
  <2>1. x \in x .. a - 1
    BY <1>4, <1>5
  <2> QED BY <1>3, <2>1
<1> QED BY <1>2, <1>3, <1>4, <1>5, <1>6, <1>7 DEF a

\* On in the patched script.
LEMMA ParentOn ==
    ASSUME NEW c, Explains(c), NEW i \in 1 .. Len(c.lines), NEW x, Leads(c, x, c.ads[i])
    PROVE  /\ getOpcode(c.mem[x]) # ReturnFromCall
           /\ x # c.ads[i] => c.mem[x] = 0 /\ Leads(c, After(c.mem, x), c.ads[i])
           /\ x = c.ads[i] /\ i = Len(c.lines) => getOpcode(c.mem[x]) = EvtEnd
           /\ x = c.ads[i] /\ i # Len(c.lines) =>
                /\ getOpcode(c.mem[x]) # EvtEnd
                /\ i + 1 \in 1 .. Len(c.lines) /\ Leads(c, After(c.mem, x), c.ads[i + 1])
<1>1. /\ CodeOK(c.mem, c.heads) /\ ScriptOK(c.mem, c.heads)
      /\ LinesOK(c.mem, c.heads, c.lines, c.ads, Parent) /\ Len(c.lines) \in Nat
  BY Explained
<1>2. /\ x \in c.heads /\ x \in Nat /\ x \in ParentWords
      /\ c.ads[i] \in c.heads /\ c.ads[i] \in Nat /\ x <= c.ads[i] /\ Parent \in Nat
      /\ x # c.ads[i] => c.mem[x] = 0
  BY InParentAt
<1>3. Parent <= x /\ \A y \in x .. c.ads[i] - 1 : c.mem[y] = 0
  BY <1>2 DEF Leads
<1>4. getOpcode(c.mem[x]) # ReturnFromCall
  <2>1. x # ParentEnd => getOpcode(c.mem[x]) \notin Ends
    BY <1>1, <1>2 DEF ScriptOK
  <2>2. x = ParentEnd => getOpcode(c.mem[x]) = EvtEnd
    BY <1>1 DEF ScriptOK
  <2> QED BY <2>1, <2>2 DEF Ends, EvtEnd, ReturnFromCall
<1>5. After(c.mem, x) \in Nat /\ After(c.mem, x) > x
  BY <1>1, <1>2, InstructionAt
<1>6. x # c.ads[i] => c.mem[x] = 0 /\ Leads(c, After(c.mem, x), c.ads[i])
  <2> SUFFICES ASSUME x # c.ads[i] PROVE c.mem[x] = 0 /\ Leads(c, After(c.mem, x), c.ads[i])
    OBVIOUS
  <2> DEFINE a == c.ads[i]
             b == After(c.mem, x)
  <2>1. c.mem[x] = 0 /\ x < a
    BY <1>2
  <2>2. getOpcode(c.mem[x]) \notin Ends /\ b = x + 1
    BY <2>1, WrittenWords, Opcodes DEF After
  <2>3. b \in c.heads
    BY <1>1, <1>2, <2>2 DEF CodeOK
  <2> HIDE DEF a, b
  <2>4. b \in Parent .. a /\ \A y \in b .. a - 1 : y \in x .. a - 1
    BY <1>2, <1>3, <2>1, <2>2 DEF a
  <2>5. Leads(c, b, a)
    BY <1>3, <2>3, <2>4 DEF Leads, a
  <2> QED BY <2>1, <2>5 DEF a, b
<1>7. x = c.ads[i] /\ i = Len(c.lines) => getOpcode(c.mem[x]) = EvtEnd
  BY <1>1 DEF LinesOK, ScriptOK
<1>8. x = c.ads[i] /\ i # Len(c.lines) =>
        /\ getOpcode(c.mem[x]) # EvtEnd
        /\ i + 1 \in 1 .. Len(c.lines) /\ Leads(c, After(c.mem, x), c.ads[i + 1])
  <2> SUFFICES ASSUME x = c.ads[i], i # Len(c.lines)
               PROVE  /\ getOpcode(c.mem[x]) # EvtEnd
                      /\ i + 1 \in 1 .. Len(c.lines) /\ Leads(c, After(c.mem, x), c.ads[i + 1])
    OBVIOUS
  <2>1. i < Len(c.lines) /\ i \in 1 .. Len(c.lines) - 1
    BY <1>1
  <2>2. /\ i + 1 \in 1 .. Len(c.lines)
        /\ getOpcode(c.mem[c.ads[i]]) \notin Ends
        /\ After(c.mem, c.ads[i]) \in c.heads /\ After(c.mem, c.ads[i]) <= c.ads[i + 1]
        /\ c.ads[i + 1] \in Nat
    BY <1>1, <2>1, LinesWithin
  <2>3. \A y \in After(c.mem, c.ads[i]) .. c.ads[i + 1] - 1 : c.mem[y] = 0
    BY <1>1, <2>1 DEF LinesOK
  <2>4. After(c.mem, x) \in Parent .. c.ads[i + 1]
    BY <1>2, <1>3, <1>5, <2>2
  <2>5. Leads(c, After(c.mem, x), c.ads[i + 1])
    BY <2>2, <2>3, <2>4 DEF Leads
  <2> QED BY <2>2, <2>5 DEF Ends
<1> QED BY <1>4, <1>6, <1>7, <1>8

\* What a run that is at x goes on with, after an instruction that can be gone on from.
Goes(c, x, below, left) ==
    \E left1 \in Seq(Nat) : /\ left = Value(c.lines, c.effect, OutcomeAt(c.mem, c.outcome, x), left1)
                            /\ Stands(c, After(c.mem, x), below, left1)
                            /\ x \notin c.kept => After(c.mem, x) \notin c.kept

LEMMA StandsGoes ==
    ASSUME NEW c, Explains(c), NEW x, NEW below \in Seq(Nat), NEW left, Stands(c, x, below, left),
           getOpcode(c.mem[x]) \notin {EvtEnd, ReturnFromCall}
    PROVE  Goes(c, x, below, left)
<1> DEFINE E == c.effect
           lines == c.lines
           b == After(c.mem, x)
           o == OutcomeAt(c.mem, c.outcome, x)
<1>1. /\ CodeOK(c.mem, c.heads) /\ KeptOK(c.mem, c.heads, c.kept, c.outcome)
      /\ Len(lines) \in Nat /\ E \in [1 .. Len(lines) + 1 -> Seq(Nat)]
      /\ Whole(c.mem, c.heads, c.lines, c.ads, c.kept, c.outcome)
      /\ \A i \in 1 .. Len(lines) :
           /\ E[i] \in Seq(Nat) /\ E[i + 1] \in Seq(Nat)
           /\ E[i] = Value(lines, E, OutcomeOf(lines[i]), E[i + 1])
  BY Explained
<1>2. ASSUME NEW i \in 1 .. Len(lines), Leads(c, x, c.ads[i]), left = E[i]
      PROVE  Goes(c, x, below, left)
  <2>1. CASE x # c.ads[i]
    <3>1. c.mem[x] = 0 /\ Leads(c, b, c.ads[i])
      BY <1>2, <2>1, ParentOn
    <3>2. b \notin c.kept
      BY <1>2, <3>1, InParentAt
    <3>3. Stands(c, b, below, left)
      BY <1>2, <3>1 DEF Stands, InParent
    <3>4. o.acts = <<>> /\ o.flow = ReturnFromCall
      <4>1. getOpcode(c.mem[x]) = Nop
        BY <3>1, WrittenWords
      <4>2. x \in c.heads
        BY <1>2, InParentAt
      <4>3. /\ OutcomeOf(LineAt(c.mem, x)).acts = LineAt(c.mem, x).acts
            /\ OutcomeOf(LineAt(c.mem, x)).flow = ReturnFromCall
        <5>1. Nop \notin {Lbl, EvtEnd, Return, Goto}
          BY DEF Nop, Lbl, EvtEnd, Return, Goto
        <5> QED BY <1>1, <4>1, <4>2, <5>1, InstructionOutcome
      <4>4. LineAt(c.mem, x).acts = <<>>
        BY <1>1, <4>1, <4>2, LineTypes DEF Nop, Act
      <4>5. o = OutcomeOf(LineAt(c.mem, x))
        BY <4>1 DEF OutcomeAt, Nop, Call
      <4> QED BY <4>3, <4>4, <4>5
    <3>5. left \in Seq(Nat)
      BY <1>1, <1>2
    <3> HIDE DEF o
    <3>6. Value(lines, E, o, left) = left
      <4>1. o.flow \notin {Return, EvtEnd, Goto}
        BY <3>4 DEF ReturnFromCall, Return, EvtEnd, Goto
      <4>2. Value(lines, E, o, left) = o.acts \o left
        <5>1. o.acts \in Seq(Nat)
          BY <3>4, EmptySeq
        <5> QED BY <3>5, <4>1, <5>1, ValueIn
      <4> QED BY <3>4, <3>5, <4>2, ConcatEmptySeq
    <3> QED BY <3>2, <3>3, <3>5, <3>6 DEF Goes, o
  <2>2. CASE x = c.ads[i]
    <3>1. i + 1 \in 1 .. Len(lines) /\ Leads(c, b, c.ads[i + 1])
      BY <1>2, <2>2, ParentOn
    <3>2. b \notin c.kept
      BY <3>1, InParentAt
    <3>3. Stands(c, b, below, E[i + 1])
      BY <3>1 DEF Stands, InParent
    <3>4. OutcomeOf(lines[i]) = o
      BY <1>1, <2>2, LineIs
    <3>5. E[i + 1] \in Seq(Nat) /\ left = Value(lines, E, o, E[i + 1])
      BY <1>1, <1>2, <3>4
    <3> HIDE DEF o, E
    <3> QED BY <3>2, <3>3, <3>5 DEF Goes, o, E
  <2> QED BY <2>1, <2>2
<1>3. ASSUME x \in c.kept, left = Value(lines, E, c.outcome[x], below)
      PROVE  Goes(c, x, below, left)
  <2> DEFINE t == c.outcome[b]
             left1 == Value(lines, E, t, below)
  <2>1. KeptAt(c.mem, c.kept, c.outcome, x) /\ \A a \in c.kept : c.outcome[a] \in Outcomes
    BY <1>1, <1>3 DEF KeptOK
  <2>2. b \in c.kept /\ c.outcome[x] = Then(o, t) /\ t \in Outcomes
    BY <2>1 DEF KeptAt
  <2>3. o \in Outcomes
    <3>1. CASE getOpcode(c.mem[x]) = Call
      BY <2>1, <3>1 DEF KeptAt, OutcomeAt
    <3>2. CASE getOpcode(c.mem[x]) # Call
      <4>1. getOpcode(c.mem[x]) \notin {Lbl, EvtEnd} /\ x \in c.heads
        BY <1>1, <1>3, <2>1 DEF KeptAt, KeptOK
      <4>2. OutcomeOf(LineAt(c.mem, x)) \in Outcomes
        BY <1>1, <4>1, InstructionOutcome
      <4> QED BY <3>2, <4>2 DEF OutcomeAt
    <3> QED BY <3>1, <3>2
  <2> HIDE DEF o, t
  <2>4. left = Value(lines, E, o, left1)
    BY <1>1, <1>3, <2>2, <2>3, ValueThen
  <2>5. left1 \in Seq(Nat)
    BY <1>1, <2>2, OutcomeFields, ValueTyped
  <2>6. Stands(c, b, below, left1)
    BY <2>2 DEF Stands, t
  <2> HIDE DEF left1
  <2> QED BY <1>3, <2>4, <2>5, <2>6 DEF Goes, o
<1> QED BY <1>2, <1>3 DEF Stands, InParent

\* Work.
LEMMA GoesOnLeaves ==
    ASSUME NEW c, Explains(c), NEW x, NEW below \in Seq(Nat), NEW left, Stands(c, x, below, left),
           getOpcode(c.mem[x]) \in {Nop, Lbl, Act}
    PROVE  \E left1 \in Seq(Nat) : /\ left = LineAt(c.mem, x).acts \o left1
                                   /\ LineAt(c.mem, x).acts \in Seq(Nat)
                                   /\ Stands(c, After(c.mem, x), below, left1)
                                   /\ x \notin c.kept => After(c.mem, x) \notin c.kept
<1> DEFINE o == OutcomeAt(c.mem, c.outcome, x)
           l == LineAt(c.mem, x)
<1>1. getOpcode(c.mem[x]) \notin {EvtEnd, ReturnFromCall, Call, Return, Goto}
  BY DEF Nop, Lbl, Act, EvtEnd, ReturnFromCall, Call, Return, Goto
<1>2. PICK left1 \in Seq(Nat) : /\ left = Value(c.lines, c.effect, o, left1)
                                /\ Stands(c, After(c.mem, x), below, left1)
                                /\ x \notin c.kept => After(c.mem, x) \notin c.kept
  BY <1>1, StandsGoes DEF Goes
<1>3. /\ CodeOK(c.mem, c.heads) /\ Len(c.lines) \in Nat
      /\ c.effect \in [1 .. Len(c.lines) + 1 -> Seq(Nat)]
  BY Explained
<1>4. x \in c.heads
  <2>1. x \in c.kept => x \in c.heads
    BY Explained DEF KeptOK
  <2> QED BY <2>1, InParentAt DEF Stands, InParent
<1>5. l.acts \in Seq(Nat) /\ l.flow = getOpcode(c.mem[x])
  BY <1>3, <1>4, LineTypes
<1>6. o = OutcomeOf(l)
  BY <1>1 DEF OutcomeAt
<1> HIDE DEF l, o
<1>7. o.acts = l.acts /\ o.flow \notin {Return, EvtEnd, Goto}
  <2>1. l.flow \notin {Return, EvtEnd, Goto}
    BY <1>1, <1>5
  <2>2. Lbl \notin {Return, EvtEnd, Goto} /\ ReturnFromCall \notin {Return, EvtEnd, Goto}
    BY DEF Lbl, ReturnFromCall, Return, EvtEnd, Goto
  <2> QED BY <1>6, <2>1, <2>2 DEF OutcomeOf
<1>8. o.acts \in Seq(Nat)
  BY <1>5, <1>7
<1>9. Value(c.lines, c.effect, o, left1) = o.acts \o left1
  BY <1>7, <1>8, ValueIn
<1> QED BY <1>2, <1>5, <1>7, <1>9 DEF l

\* A goto, when the jump table has this row.
RowLeads(c, row) ==
    \E j \in 1 .. Len(c.lines) : /\ c.lines[j].flow = Lbl /\ row.id = c.lines[j].label
                                 /\ row.at = After(c.mem, c.ads[j])

LEMMA JumpsKeeps ==
    ASSUME NEW c, Explains(c), NEW x, NEW below \in Seq(Nat), NEW left, Stands(c, x, below, left),
           getOpcode(c.mem[x]) = Goto, NEW row, RowLeads(c, row), row.id = c.mem[x + 1]
    PROVE  InParent(c, row.at, left)
<1> DEFINE o == OutcomeAt(c.mem, c.outcome, x)
           l == LineAt(c.mem, x)
           E == c.effect
           lines == c.lines
<1>1. getOpcode(c.mem[x]) \notin {EvtEnd, ReturnFromCall, Call, Lbl, Act}
  BY DEF Goto, Lbl, Act, EvtEnd, ReturnFromCall, Call
<1>2. PICK left1 \in Seq(Nat) : left = Value(lines, E, o, left1)
  BY <1>1, StandsGoes DEF Goes
<1>3. /\ CodeOK(c.mem, c.heads) /\ Len(lines) \in Nat /\ E \in [1 .. Len(lines) + 1 -> Seq(Nat)]
      /\ GoesForward(lines) /\ lines[Len(lines)].flow = EvtEnd
      /\ LinesOK(c.mem, c.heads, lines, c.ads, Parent)
      /\ Whole(c.mem, c.heads, lines, c.ads, c.kept, c.outcome)
      /\ \A i \in 1 .. Len(lines) :
           /\ E[i] \in Seq(Nat) /\ E[i + 1] \in Seq(Nat)
           /\ E[i] = Value(lines, E, OutcomeOf(lines[i]), E[i + 1])
  BY Explained
<1>4. x \in c.heads
  <2>1. x \in c.kept => x \in c.heads
    BY Explained DEF KeptOK
  <2> QED BY <2>1, InParentAt DEF Stands, InParent
<1>5. o.acts = <<>> /\ o.flow = Goto /\ o.label = c.mem[x + 1]
  <2>1. l.acts = <<>>
    BY <1>1, <1>3, <1>4, LineTypes
  <2>2. l.flow = Goto /\ l.label = c.mem[x + 1]
    BY <1>3, <1>4, LineTypes DEF Goto, Lbl
  <2> HIDE DEF l
  <2>4. OutcomeOf(l).acts = <<>> /\ OutcomeOf(l).flow = Goto /\ OutcomeOf(l).label = c.mem[x + 1]
    BY <2>1, <2>2 DEF OutcomeOf, Goto, EvtEnd, Return, Lbl, ReturnFromCall
  <2>3. o = OutcomeOf(l)
    BY <1>1 DEF OutcomeAt, l
  <2> QED BY <2>3, <2>4
<1> HIDE DEF o
<1>6. PICK j \in 1 .. Len(lines) : /\ lines[j].flow = Lbl /\ row.id = lines[j].label
                                   /\ row.at = After(c.mem, c.ads[j])
  BY DEF RowLeads
<1>7. left = Target(lines, E, lines[j].label)
  <2>1. o.acts \in Seq(Nat) /\ o.flow = Goto
    BY <1>5, EmptySeq
  <2>2. Value(lines, E, o, left1) = o.acts \o Target(lines, E, o.label)
    BY <2>1, ValueIn
  <2> HIDE DEF lines, E
  <2>3. Target(lines, E, o.label) \in Seq(Nat)
    BY <1>3, TargetTyped
  <2>4. o.acts \o Target(lines, E, o.label) = Target(lines, E, o.label)
    BY <1>5, <2>3, ConcatEmptySeq
  <2> QED BY <1>2, <1>5, <1>6, <2>2, <2>4
<1>8. Target(lines, E, lines[j].label) = E[j]
  <2>1. Mark(lines, lines[j].label) = j
    BY <1>3, <1>6, MarkAt
  <2>2. Target(lines, E, lines[j].label) = E[Mark(lines, lines[j].label)]
    <3> DEFINE k == lines[j].label
    <3>1. \E i \in 1 .. Len(lines) : lines[i].flow = Lbl /\ lines[i].label = k
      BY <1>6
    <3> HIDE DEF k
    <3> QED BY <3>1 DEF Target, k
  <2> QED BY <2>1, <2>2
<1>9. E[j] = E[j + 1]
  <2> DEFINE s == OutcomeOf(lines[j])
             k == lines[j]
  <2>1. k.acts = <<>> /\ k.flow = Lbl
    BY <1>3, <1>6, LineIs
  <2>2. s = OutcomeOf(k)
    OBVIOUS
  <2> HIDE DEF s, k
  <2>3. s.acts = <<>> /\ s.flow = Lbl
    BY <2>1, <2>2 DEF OutcomeOf
  <2>4. s.acts \in Seq(Nat) /\ s.flow \notin {Return, EvtEnd, Goto}
    BY <2>3, EmptySeq DEF Lbl, Return, EvtEnd, Goto
  <2>5. E[j + 1] \in Seq(Nat) /\ E[j] = Value(lines, E, s, E[j + 1])
    BY <1>3, <1>6 DEF s
  <2>6. Value(lines, E, s, E[j + 1]) = s.acts \o E[j + 1]
    BY <2>4, <2>5, ValueIn
  <2> HIDE DEF lines, E
  <2>7. s.acts \o E[j + 1] = E[j + 1]
    BY <2>3, <2>5, ConcatEmptySeq
  <2> QED BY <2>5, <2>6, <2>7
<1>10. j + 1 \in 1 .. Len(lines) /\ Leads(c, row.at, c.ads[j + 1])
  <2>1. j # Len(lines)
    BY <1>3, <1>6 DEF EvtEnd, Lbl
  <2>2. Leads(c, c.ads[j], c.ads[j])
    <3>1. c.ads[j] \in c.heads /\ c.ads[j] \in ParentWords
      BY <1>3, <1>6 DEF LinesOK
    <3>2. c.ads[j] \in Nat /\ Parent \in Nat
      <4>1. Parent \in c.heads
        BY Explained DEF ScriptOK
      <4> QED BY <1>3, <3>1, <4>1, InstructionAt
    <3>3. c.ads[j] \in Parent .. c.ads[j]
      BY <3>1, <3>2 DEF ParentWords
    <3>4. \A y \in c.ads[j] .. c.ads[j] - 1 : FALSE
      BY <3>2
    <3> QED BY <3>1, <3>3, <3>4 DEF Leads
  <2> QED BY <1>6, <2>1, <2>2, ParentOn
<1> QED BY <1>7, <1>8, <1>9, <1>10 DEF InParent

\* A call, of a script that is kept.
LEMMA CallLeaves ==
    ASSUME NEW c, Explains(c), NEW x, NEW below \in Seq(Nat), NEW left, Stands(c, x, below, left),
           getOpcode(c.mem[x]) = Call
    PROVE  /\ c.mem[x + 1] \in c.kept
           /\ \E left1 \in Seq(Nat) : /\ Stands(c, c.mem[x + 1], left1, left)
                                      /\ Stands(c, After(c.mem, x), below, left1)
                                      /\ x \notin c.kept => After(c.mem, x) \notin c.kept
<1>1. getOpcode(c.mem[x]) \notin {EvtEnd, ReturnFromCall}
  BY DEF Call, EvtEnd, ReturnFromCall
<1>2. PICK left1 \in Seq(Nat) :
        /\ left = Value(c.lines, c.effect, OutcomeAt(c.mem, c.outcome, x), left1)
        /\ Stands(c, After(c.mem, x), below, left1)
        /\ x \notin c.kept => After(c.mem, x) \notin c.kept
  BY <1>1, StandsGoes DEF Goes
<1>3. c.mem[x + 1] \in c.kept
  <2>1. CASE x \in c.kept
    <3>1. KeptAt(c.mem, c.kept, c.outcome, x)
      BY <2>1, Explained DEF KeptOK
    <3> QED BY <3>1 DEF KeptAt
  <2>2. CASE InParent(c, x, left)
    <3>1. PICK i \in 1 .. Len(c.lines) : Leads(c, x, c.ads[i])
      BY <2>2 DEF InParent
    <3>2. x = c.ads[i]
      <4>1. x # c.ads[i] => c.mem[x] = 0
        BY <3>1, ParentOn
      <4> QED BY <4>1, WrittenWords DEF Nop, Call
    <3>3. Whole(c.mem, c.heads, c.lines, c.ads, c.kept, c.outcome)
      BY Explained
    <3> QED BY <3>2, <3>3, LineIs
  <2> QED BY <2>1, <2>2 DEF Stands
<1>4. Stands(c, c.mem[x + 1], left1, left)
  BY <1>2, <1>3 DEF Stands, OutcomeAt
<1> QED BY <1>2, <1>3, <1>4

\* A return from call, which only a script that is called has.
LEMMA ReturnLeaves ==
    ASSUME NEW c, Explains(c), NEW x, NEW below \in Seq(Nat), NEW left, Stands(c, x, below, left),
           getOpcode(c.mem[x]) = ReturnFromCall
    PROVE  x \in c.kept /\ left = below
<1>1. ~InParent(c, x, left)
  BY ParentOn DEF InParent
<1>2. x \in c.kept /\ left = Value(c.lines, c.effect, c.outcome[x], below)
  BY <1>1 DEF Stands
<1>3. c.outcome[x] = Unit
  <2>1. KeptAt(c.mem, c.kept, c.outcome, x)
    BY <1>2, Explained DEF KeptOK
  <2> QED BY <2>1 DEF KeptAt
<1>4. /\ c.effect \in [1 .. Len(c.lines) + 1 -> Seq(Nat)] /\ Len(c.lines) \in Nat
  BY Explained
<1>5. Unit.acts \in Seq(Nat) /\ Unit.flow \notin {Return, EvtEnd, Goto} /\ Unit.acts = <<>>
  BY UnitOutcome, EmptySeq DEF ReturnFromCall, Return, EvtEnd, Goto
<1>6. Value(c.lines, c.effect, Unit, below) = Unit.acts \o below
  BY <1>5, ValueIn
<1>7. <<>> \o below = below
  BY ConcatEmptySeq
<1> QED BY <1>2, <1>3, <1>5, <1>6, <1>7

\* The end of a run: nothing is left.
LEMMA EndLeaves ==
    ASSUME NEW c, Explains(c), NEW x, NEW below \in Seq(Nat), NEW left, Stands(c, x, below, left),
           getOpcode(c.mem[x]) \in {Return, EvtEnd}
    PROVE  left = <<>>
<1> DEFINE l == LineAt(c.mem, x)
           E == c.effect
           lines == c.lines
<1>0. /\ CodeOK(c.mem, c.heads) /\ Len(lines) \in Nat /\ E \in [1 .. Len(lines) + 1 -> Seq(Nat)]
      /\ Whole(c.mem, c.heads, lines, c.ads, c.kept, c.outcome)
      /\ \A i \in 1 .. Len(lines) :
           /\ E[i] \in Seq(Nat) /\ E[i + 1] \in Seq(Nat)
           /\ E[i] = Value(lines, E, OutcomeOf(lines[i]), E[i + 1])
  BY Explained
<1>1. x \in c.heads
  <2>1. x \in c.kept => x \in c.heads
    BY Explained DEF KeptOK
  <2> QED BY <2>1, InParentAt DEF Stands, InParent
<1>2. getOpcode(c.mem[x]) \notin {Act, Call}
  BY DEF Return, EvtEnd, Act, Call
<1>3. l.acts = <<>> /\ l.flow = getOpcode(c.mem[x])
  BY <1>0, <1>1, <1>2, LineTypes
<1>4. OutcomeAt(c.mem, c.outcome, x) = OutcomeOf(l)
  BY <1>2 DEF OutcomeAt
<1> DEFINE o == OutcomeOf(l)
<1>5. ASSUME NEW below1 \in Seq(Nat) PROVE Value(lines, E, o, below1) = <<>>
  <2> HIDE DEF l
  <2>1. o.acts = <<>> /\ o.flow \in {Return, EvtEnd}
    BY <1>3 DEF OutcomeOf
  <2> HIDE DEF o
  <2>2. o.acts \in Seq(Nat)
    BY <2>1, EmptySeq
  <2> QED BY <2>1, <2>2, ValueIn
<1>6. CASE getOpcode(c.mem[x]) = Return
  <2>1. getOpcode(c.mem[x]) \notin {EvtEnd, ReturnFromCall}
    BY <1>6 DEF Return, EvtEnd, ReturnFromCall
  <2>2. Goes(c, x, below, left)
    BY <2>1, StandsGoes
  <2>3. PICK left1 \in Seq(Nat) : left = Value(lines, E, OutcomeAt(c.mem, c.outcome, x), left1)
    BY <2>2 DEF Goes
  <2> QED BY <1>4, <1>5, <2>3
<1>7. CASE getOpcode(c.mem[x]) = EvtEnd
  <2>1. x \notin c.kept
    <3> SUFFICES ASSUME x \in c.kept PROVE FALSE
      OBVIOUS
    <3>1. KeptAt(c.mem, c.kept, c.outcome, x)
      BY Explained DEF KeptOK
    <3> QED BY <1>7, <3>1 DEF KeptAt
  <2>2. PICK i \in 1 .. Len(lines) : Leads(c, x, c.ads[i]) /\ left = E[i]
    BY <2>1 DEF Stands, InParent
  <2>3. x = c.ads[i]
    <3>1. x # c.ads[i] => c.mem[x] = 0
      BY <2>2, ParentOn
    <3> QED BY <1>7, <3>1, WrittenWords DEF Nop, EvtEnd
  <2>4. OutcomeOf(lines[i]) = o
    BY <1>0, <1>4, <2>3, LineIs
  <2>5. E[i + 1] \in Seq(Nat) /\ E[i] = Value(lines, E, OutcomeOf(lines[i]), E[i + 1])
    BY <1>0, <2>2
  <2> QED BY <1>5, <2>2, <2>4, <2>5
<1> QED BY <1>6, <1>7
-----------------------------------------------------------------------------
(* Runs and their calls.                                                   *)

\* The open calls of a run, which is to do `below` after the next return from call.
Pending(c, open, below) ==
    \E rest \in [0 .. Len(open) -> Seq(Nat)] :
      /\ rest[0] = <<>> /\ below = rest[Len(open)]
      /\ \A k \in 1 .. Len(open) : Stands(c, open[k], rest[k - 1], rest[k])
      /\ open # <<>> => open[1] \notin c.kept

\* A run that is at pc, with these calls open, has this left to do.
Running(c, open, pc, left) ==
    \E below \in Seq(Nat) : /\ Pending(c, open, below) /\ Stands(c, pc, below, left)
                            /\ open = <<>> => pc \notin c.kept

LEMMA PendingNone ==
    ASSUME NEW c
    PROVE  Pending(c, <<>>, <<>>)
<1> DEFINE rest == [k \in 0 .. 0 |-> <<>>]
<1>1. rest \in [0 .. 0 -> Seq(Nat)] /\ rest[0] = <<>>
  BY EmptySeq
<1>2. Len(<<>>) = 0
  BY EmptySeq
<1> HIDE DEF rest
<1> QED BY <1>1, <1>2 DEF Pending

LEMMA PendingPush ==
    ASSUME NEW c, NEW S, NEW open \in Seq(S), NEW a \in S, NEW left \in Seq(Nat),
           Running(c, open, a, left)
    PROVE  Pending(c, Append(open, a), left)
<1>1. PICK below \in Seq(Nat) : /\ Pending(c, open, below) /\ Stands(c, a, below, left)
                                /\ open = <<>> => a \notin c.kept
  BY DEF Running
<1>2. PICK rest \in [0 .. Len(open) -> Seq(Nat)] :
        /\ rest[0] = <<>> /\ below = rest[Len(open)]
        /\ \A k \in 1 .. Len(open) : Stands(c, open[k], rest[k - 1], rest[k])
        /\ open # <<>> => open[1] \notin c.kept
  BY <1>1 DEF Pending
<1> DEFINE n == Len(open)
           u == Append(open, a)
           rest1 == [k \in 0 .. n + 1 |-> IF k = n + 1 THEN left ELSE rest[k]]
<1>3. /\ n \in Nat /\ Len(u) = n + 1 /\ u[n + 1] = a /\ \A k \in 1 .. n : u[k] = open[k]
  BY AppendProperties, LenProperties
<1>4. u # <<>> /\ (open = <<>> => n = 0) /\ (open # <<>> => n # 0)
  <2>1. Len(u) # 0
    BY <1>3
  <2> HIDE DEF u
  <2> QED BY <2>1, EmptySeq
<1> HIDE DEF u, n
<1>5. /\ rest1 \in [0 .. n + 1 -> Seq(Nat)] /\ rest1[n + 1] = left
      /\ \A k \in 0 .. n : rest1[k] = rest[k]
  <2>1. \A k \in 0 .. n + 1 : k # n + 1 => k \in 0 .. n
    BY <1>3
  <2>2. rest \in [0 .. n -> Seq(Nat)]
    BY DEF n
  <2>3. n + 1 \in 0 .. n + 1 /\ \A k \in 0 .. n : k \in 0 .. n + 1 /\ k # n + 1
    BY <1>3
  <2> QED BY <2>1, <2>2, <2>3
<1> HIDE DEF rest1
<1>6. rest1[0] = <<>> /\ rest1[n] = below
  <2>1. 0 \in 0 .. n /\ n \in 0 .. n
    BY <1>3
  <2> QED BY <1>2, <1>5, <2>1 DEF n
<1>7. ASSUME NEW k \in 1 .. n + 1 PROVE Stands(c, u[k], rest1[k - 1], rest1[k])
  <2>1. CASE k = n + 1
    <3>1. k - 1 = n
      BY <1>3, <2>1
    <3> QED BY <1>1, <1>3, <1>5, <1>6, <2>1, <3>1
  <2>2. CASE k # n + 1
    <3>1. k \in 1 .. n /\ k - 1 \in 0 .. n /\ k \in 0 .. n
      BY <1>3, <2>2
    <3>2. Stands(c, open[k], rest[k - 1], rest[k])
      BY <1>2, <3>1 DEF n
    <3> QED BY <1>3, <1>5, <3>1, <3>2
  <2> QED BY <2>1, <2>2
<1>8. u[1] \notin c.kept
  <2>1. CASE open = <<>>
    BY <1>1, <1>3, <1>4, <2>1
  <2>2. CASE open # <<>>
    <3>1. 1 \in 1 .. n
      BY <1>3, <1>4, <2>2
    <3> QED BY <1>2, <1>3, <2>2, <3>1
  <2> QED BY <2>1, <2>2
<1>9. Pending(c, u, left)
  <2>1. Len(u) = n + 1 /\ rest1 \in [0 .. n + 1 -> Seq(Nat)]
    BY <1>3, <1>5
  <2> QED BY <1>5, <1>6, <1>7, <1>8, <2>1 DEF Pending
<1> QED BY <1>9 DEF u

LEMMA PendingPop ==
    ASSUME NEW c, NEW S, NEW open \in Seq(S), NEW left, Pending(c, open, left), open # <<>>
    PROVE  Running(c, Front(open), Last(open), left)
<1>1. PICK rest \in [0 .. Len(open) -> Seq(Nat)] :
        /\ rest[0] = <<>> /\ left = rest[Len(open)]
        /\ \A k \in 1 .. Len(open) : Stands(c, open[k], rest[k - 1], rest[k])
        /\ open[1] \notin c.kept
  BY DEF Pending
<1> DEFINE n == Len(open)
           u == Front(open)
           below == rest[n - 1]
           rest1 == [k \in 0 .. n - 1 |-> rest[k]]
<1>2. u \in Seq(S) /\ Len(u) = n - 1 /\ \A i \in 1 .. n - 1 : u[i] = open[i]
  BY FrontDrops
<1>3. n \in Nat \ {0}
  BY EmptySeq, LenProperties
<1>4. Last(open) = open[n]
  BY DEF Last
<1> HIDE DEF u
<1>5. u = <<>> => n = 1
  BY <1>2, <1>3, EmptySeq
<1>6. u # <<>> => n # 1
  BY <1>2, <1>3, EmptySeq
<1>7. rest \in [0 .. n -> Seq(Nat)] /\ left = rest[n]
  BY <1>1
<1>8. \A k \in 1 .. n : Stands(c, open[k], rest[k - 1], rest[k])
  BY <1>1
<1> HIDE DEF n
<1>9. below \in Seq(Nat) /\ Stands(c, open[n], below, left)
  <2>1. n - 1 \in 0 .. n /\ n \in 1 .. n
    BY <1>3
  <2> QED BY <1>7, <1>8, <2>1
<1>10. rest1 \in [0 .. n - 1 -> Seq(Nat)] /\ \A k \in 0 .. n - 1 : rest1[k] = rest[k]
  <2>1. \A k \in 0 .. n - 1 : k \in 0 .. n
    BY <1>3
  <2> QED BY <1>7, <2>1
<1> HIDE DEF rest1
<1>11. rest1[0] = <<>> /\ rest1[n - 1] = below
  <2>1. 0 \in 0 .. n - 1 /\ n - 1 \in 0 .. n - 1
    BY <1>3
  <2> QED BY <1>1, <1>10, <2>1
<1>12. ASSUME NEW k \in 1 .. n - 1 PROVE Stands(c, u[k], rest1[k - 1], rest1[k])
  <2>1. k \in 1 .. n /\ k - 1 \in 0 .. n - 1 /\ k \in 0 .. n - 1
    BY <1>3
  <2> QED BY <1>2, <1>8, <1>10, <2>1
<1>13. u # <<>> => u[1] \notin c.kept
  <2> SUFFICES ASSUME u # <<>> PROVE u[1] \notin c.kept
    OBVIOUS
  <2>1. 1 \in 1 .. n - 1
    BY <1>3, <1>6
  <2> QED BY <1>1, <1>2, <2>1
<1> HIDE DEF below
<1>14. Pending(c, u, below)
  BY <1>2, <1>10, <1>11, <1>12, <1>13 DEF Pending
<1>15. u = <<>> => open[n] \notin c.kept
  BY <1>1, <1>5
<1> QED BY <1>4, <1>9, <1>14, <1>15 DEF Running, u

\* A run begins with all of it left.
LEMMA RunBegins ==
    ASSUME NEW c, Explains(c)
    PROVE  Running(c, <<>>, Parent, c.effect[1])
<1>1. /\ LinesOK(c.mem, c.heads, c.lines, c.ads, Parent) /\ ScriptOK(c.mem, c.heads)
      /\ CodeOK(c.mem, c.heads) /\ Len(c.lines) \in Nat \ {0}
  BY Explained
<1>2. 1 \in 1 .. Len(c.lines) /\ c.ads[1] = Parent /\ Parent \in c.heads
  BY <1>1 DEF LinesOK, ScriptOK
<1>3. Leads(c, Parent, c.ads[1])
  <2>1. Parent \in Nat
    BY <1>1, <1>2, InstructionAt
  <2>2. Parent \in Parent .. Parent /\ \A y \in Parent .. Parent - 1 : FALSE
    BY <2>1
  <2> QED BY <1>2, <2>2 DEF Leads
<1>4. Parent \notin c.kept
  BY <1>2, <1>3, InParentAt
<1>5. Stands(c, Parent, <<>>, c.effect[1])
  BY <1>2, <1>3 DEF Stands, InParent
<1>6. Pending(c, <<>>, <<>>) /\ <<>> \in Seq(Nat)
  BY PendingNone, EmptySeq
<1> QED BY <1>4, <1>5, <1>6 DEF Running

\* Work is done.
LEMMA RunGoesOn ==
    ASSUME NEW c, Explains(c), NEW open, NEW x, NEW left, Running(c, open, x, left),
           getOpcode(c.mem[x]) \in {Nop, Lbl, Act}
    PROVE  \E left1 \in Seq(Nat) : /\ left = LineAt(c.mem, x).acts \o left1
                                   /\ LineAt(c.mem, x).acts \in Seq(Nat)
                                   /\ Running(c, open, After(c.mem, x), left1)
<1>1. PICK below \in Seq(Nat) : /\ Pending(c, open, below) /\ Stands(c, x, below, left)
                                /\ open = <<>> => x \notin c.kept
  BY DEF Running
<1>2. PICK left1 \in Seq(Nat) : /\ left = LineAt(c.mem, x).acts \o left1
                                /\ LineAt(c.mem, x).acts \in Seq(Nat)
                                /\ Stands(c, After(c.mem, x), below, left1)
                                /\ x \notin c.kept => After(c.mem, x) \notin c.kept
  BY <1>1, GoesOnLeaves
<1>3. Running(c, open, After(c.mem, x), left1)
  BY <1>1, <1>2 DEF Running
<1> QED BY <1>2, <1>3

\* A goto is followed.
LEMMA RunJumps ==
    ASSUME NEW c, Explains(c), NEW open, NEW x, NEW left, Running(c, open, x, left),
           getOpcode(c.mem[x]) = Goto, NEW row, RowLeads(c, row), row.id = c.mem[x + 1]
    PROVE  Running(c, open, row.at, left)
<1>1. PICK below \in Seq(Nat) : Pending(c, open, below) /\ Stands(c, x, below, left)
  BY DEF Running
<1>2. InParent(c, row.at, left)
  BY <1>1, JumpsKeeps
<1>3. row.at \notin c.kept
  BY <1>2, InParentAt DEF InParent
<1> QED BY <1>1, <1>2, <1>3 DEF Running, Stands

\* A call leaves the caller what follows it.
LEMMA RunCalls ==
    ASSUME NEW c, Explains(c), NEW S, NEW open \in Seq(S), NEW x, NEW left,
           Running(c, open, x, left), getOpcode(c.mem[x]) = Call, After(c.mem, x) \in S
    PROVE  c.mem[x + 1] \in c.kept /\ Running(c, Append(open, After(c.mem, x)), c.mem[x + 1], left)
<1> DEFINE b == After(c.mem, x)
           u == Append(open, b)
<1>1. PICK below \in Seq(Nat) : /\ Pending(c, open, below) /\ Stands(c, x, below, left)
                                /\ open = <<>> => x \notin c.kept
  BY DEF Running
<1>2. c.mem[x + 1] \in c.kept
  BY <1>1, CallLeaves
<1>3. PICK left1 \in Seq(Nat) : /\ Stands(c, c.mem[x + 1], left1, left)
                                /\ Stands(c, b, below, left1)
                                /\ x \notin c.kept => b \notin c.kept
  BY <1>1, CallLeaves
<1>4. Running(c, open, b, left1)
  BY <1>1, <1>3 DEF Running
<1>5. b \in S
  OBVIOUS
<1> HIDE DEF b
<1>6. Pending(c, u, left1)
  BY <1>4, <1>5, PendingPush
<1>7. u # <<>>
  <2>1. Len(u) = Len(open) + 1 /\ Len(open) \in Nat
    BY <1>5, AppendProperties, LenProperties
  <2> HIDE DEF u
  <2> QED BY <2>1, EmptySeq
<1> HIDE DEF u
<1>8. Running(c, u, c.mem[x + 1], left)
  BY <1>3, <1>6, <1>7 DEF Running
<1> QED BY <1>2, <1>8 DEF u, b

\* A return from call goes on with what the caller was left.
LEMMA RunReturns ==
    ASSUME NEW c, Explains(c), NEW S, NEW open \in Seq(S), NEW x, NEW left,
           Running(c, open, x, left), getOpcode(c.mem[x]) = ReturnFromCall
    PROVE  open # <<>> /\ Running(c, Front(open), Last(open), left)
<1>1. PICK below \in Seq(Nat) : /\ Pending(c, open, below) /\ Stands(c, x, below, left)
                                /\ open = <<>> => x \notin c.kept
  BY DEF Running
<1>2. x \in c.kept /\ left = below
  BY <1>1, ReturnLeaves
<1> QED BY <1>1, <1>2, PendingPop

\* At the end nothing is left.
LEMMA RunEnds ==
    ASSUME NEW c, Explains(c), NEW open, NEW x, NEW left, Running(c, open, x, left),
           getOpcode(c.mem[x]) \in {Return, EvtEnd}
    PROVE  left = <<>>
BY EndLeaves DEF Running
-----------------------------------------------------------------------------
(* Jump tables.                                                            *)

\* The rows of the patched script.
RowsIn(c) == {[id |-> c.lines[j].label, at |-> After(c.mem, c.ads[j])] :
                j \in {k \in 1 .. Len(c.lines) : c.lines[k].flow = Lbl}}

LEMMA RowsLead ==
    ASSUME NEW c, NEW row \in RowsIn(c)
    PROVE  RowLeads(c, row)
BY DEF RowsIn, RowLeads

\* A run begins with them.
LEMMA FirstTable ==
    ASSUME NEW c, Explains(c)
    PROVE  LabelsFrom(c.mem, Parent, {EvtEnd}) \in Seq(RowsIn(c))
<1> DEFINE C == {x \in c.heads : \E i \in 1 .. Len(c.lines) : Leads(c, x, c.ads[i])}
           R == RowsIn(c)
           m == c.mem
<1>1. /\ LinesOK(m, c.heads, c.lines, c.ads, Parent) /\ ScriptOK(m, c.heads)
      /\ CodeOK(m, c.heads) /\ Len(c.lines) \in Nat \ {0}
      /\ Whole(m, c.heads, c.lines, c.ads, c.kept, c.outcome)
  BY Explained
<1>2. Parent \in C
  <2>1. 1 \in 1 .. Len(c.lines) /\ c.ads[1] = Parent /\ Parent \in c.heads
    BY <1>1 DEF LinesOK, ScriptOK
  <2>2. Parent \in Nat
    BY <1>1, <2>1, InstructionAt
  <2>3. Parent \in Parent .. Parent /\ \A y \in Parent .. Parent - 1 : FALSE
    BY <2>2
  <2>4. Leads(c, Parent, c.ads[1])
    BY <2>1, <2>3 DEF Leads
  <2> QED BY <2>1, <2>4
<1>3. ASSUME NEW a \in C PROVE RowOf(m, a) \in Seq(R)
  <2>1. PICK i \in 1 .. Len(c.lines) : Leads(c, a, c.ads[i])
    OBVIOUS
  <2>2. CASE getOpcode(m[a]) = Lbl
    <3>1. a = c.ads[i]
      <4>1. a # c.ads[i] => m[a] = 0
        BY <2>1, ParentOn
      <4> QED BY <2>2, <4>1, WrittenWords DEF Nop, Lbl
    <3>2. c.lines[i].flow = Lbl /\ c.lines[i].label = m[a + 1]
      BY <1>1, <2>2, <3>1, LineIs
    <3> DEFINE row == [id |-> m[a + 1], at |-> a + getInstructionLength(m[a])]
    <3>3. row \in R
      <4>1. row = [id |-> c.lines[i].label, at |-> After(c.mem, c.ads[i])]
        BY <3>1, <3>2 DEF After
      <4> HIDE DEF row
      <4> QED BY <3>2, <4>1 DEF RowsIn
    <3>4. RowOf(m, a) = <<row>>
      BY <2>2 DEF RowOf
    <3> HIDE DEF row, R
    <3> QED BY <3>3, <3>4
  <2>3. CASE getOpcode(m[a]) # Lbl
    BY <2>3, EmptySeq DEF RowOf
  <2> QED BY <2>2, <2>3
<1>4. ASSUME NEW a \in C, getOpcode(m[a]) \notin {EvtEnd} PROVE After(m, a) \in C
  <2>1. PICK i \in 1 .. Len(c.lines) : Leads(c, a, c.ads[i])
    OBVIOUS
  <2>2. PICK j \in 1 .. Len(c.lines) : Leads(c, After(m, a), c.ads[j])
    BY <1>4, <2>1, ParentOn
  <2>3. After(m, a) \in c.heads
    BY <2>2 DEF Leads
  <2> QED BY <2>2, <2>3
<1>5. C \in SUBSET c.heads
  OBVIOUS
<1> HIDE DEF C, R, m
<1>6. \A a \in C : LabelsFrom(m, a, {EvtEnd}) \in Seq(R)
  BY <1>1, <1>3, <1>4, <1>5, LabelsInto
<1> QED BY <1>2, <1>6 DEF R, m

\* What is called has no labels: the caller's table stays.
LEMMA TableStays ==
    ASSUME NEW c, Explains(c), NEW a \in c.kept, NEW R, NEW jump \in Seq(R)
    PROVE  evt_patch_make_jump_table(jump, c.mem, a) = jump
<1> DEFINE ends == {EvtEnd, ReturnFromCall}
           new == LabelsFrom(c.mem, a, ends)
<1>1. CodeOK(c.mem, c.heads) /\ KeptOK(c.mem, c.heads, c.kept, c.outcome)
  BY Explained
<1>2. c.kept \in SUBSET c.heads
  BY <1>1 DEF KeptOK
<1>3. ASSUME NEW b \in c.kept
      PROVE  RowOf(c.mem, b) \in Seq({}) /\ (getOpcode(c.mem[b]) \notin ends => After(c.mem, b) \in c.kept)
  <2>1. KeptAt(c.mem, c.kept, c.outcome, b)
    BY <1>1 DEF KeptOK
  <2> QED BY <2>1, EmptySeq DEF KeptAt, RowOf
<1> HIDE DEF ends
<1>4. \A b \in c.kept : LabelsFrom(c.mem, b, ends) \in Seq({})
  BY <1>1, <1>2, <1>3, LabelsInto
<1>5. new = <<>>
  <2>1. new \in Seq({})
    BY <1>4
  <2> HIDE DEF new
  <2>2. Len(new) = 0
    BY <2>1, ElementOfSeq, LenProperties
  <2> QED BY <2>1, <2>2, EmptySeq
<1>6. evt_patch_make_jump_table(jump, c.mem, a) = new \o SubSeq(jump, Len(new) + 1, Len(jump))
  BY DEF evt_patch_make_jump_table, ends
<1> HIDE DEF new
<1>7. SubSeq(jump, 1, Len(jump)) = jump /\ <<>> \o jump = jump
  BY SubSeqFull, ConcatEmptySeq
<1>8. Len(<<>>) + 1 = 1
  BY EmptySeq
<1> QED BY <1>5, <1>6, <1>7, <1>8
-----------------------------------------------------------------------------
(* What runs has done.                                                     *)

\* What is done is the first part of it.
Begun(done, effect) == \E left \in Seq(Nat) : done \o left = effect

\* A run of the patched script with what it has done, and what it has left.
Runs(c, open, pc, done) ==
    \E left \in Seq(Nat) : Running(c, open, pc, left) /\ done \o left = c.effect[1]

EntryDoes(c, entry, open, done) ==
    /\ done \in Seq(Nat) /\ Begun(done, c.effect[1])
    /\ entry.on => /\ entry.jump = LabelsFrom(c.mem, Parent, {EvtEnd})
                   /\ Runs(c, open, entry.pc, done)

AllDo(c, entries, opens, dones) ==
    /\ dones = [e \in Entries |-> dones[e]]
    /\ \A e \in Entries : EntryDoes(c, entries[e], opens[e], dones[e])

\* The image is explained, and every run does what its explanation says.
DoneInv ==
    /\ \E c : /\ c.mem = evtMem /\ c.lines = evtLines /\ Explains(c)
              /\ AllDo(c, evtEntries, evtOpen, evtDone)
    /\ evtRuns = 0 => \A e \in Entries : evtDone[e] = <<>>

\* Before it begins.
LEMMA NothingBegun ==
    ASSUME NEW c, Explains(c)
    PROVE  Begun(<<>>, c.effect[1]) /\ <<>> \in Seq(Nat)
<1>1. c.effect[1] \in Seq(Nat)
  <2>1. 1 \in 1 .. Len(c.lines) + 1
    BY Explained
  <2> QED BY <2>1, Explained
<1> QED BY <1>1, EmptySeq, ConcatEmptySeq DEF Begun

\* What the entry is given, it has.
LEMMA OneEntryDoes ==
    ASSUME NEW c, NEW P, NEW J, NEW S, StackTypes(P, J, S),
           AllDo(c, evtEntries, evtOpen, evtDone),
           NEW e \in Entries, NEW entry, NEW open, NEW done, EntryDoes(c, entry, open, done)
    PROVE  AllDo(c, [evtEntries EXCEPT ![e] = entry], [evtOpen EXCEPT ![e] = open],
                 [evtDone EXCEPT ![e] = done])
<1> DEFINE n == [evtEntries EXCEPT ![e] = entry]
           o == [evtOpen EXCEPT ![e] = open]
           d == [evtDone EXCEPT ![e] = done]
<1>1. /\ DOMAIN evtEntries = Entries /\ DOMAIN evtOpen = Entries /\ DOMAIN evtDone = Entries
  <2>1. evtDone = [f \in Entries |-> evtDone[f]]
    BY DEF AllDo
  <2>2. DOMAIN evtDone = Entries
    BY <2>1
  <2> QED BY <2>2 DEF StackTypes
<1>2. ASSUME NEW f \in Entries PROVE EntryDoes(c, n[f], o[f], d[f])
  <2>1. CASE f = e
    <3>1. n[f] = entry /\ o[f] = open /\ d[f] = done
      BY <1>1, <2>1
    <3> HIDE DEF n, o, d
    <3> QED BY <3>1
  <2>2. CASE f # e
    <3>1. n[f] = evtEntries[f] /\ o[f] = evtOpen[f] /\ d[f] = evtDone[f]
      BY <1>1, <2>2
    <3>2. EntryDoes(c, evtEntries[f], evtOpen[f], evtDone[f])
      BY DEF AllDo
    <3> HIDE DEF n, o, d
    <3> QED BY <3>1, <3>2
  <2> QED BY <2>1, <2>2
<1>3. d = [f \in Entries |-> d[f]]
  BY <1>1
<1> HIDE DEF n, o, d
<1>4. AllDo(c, n, o, d)
  BY <1>2, <1>3 DEF AllDo
<1> QED BY <1>4 DEF n, o, d

LEMMA RunsBegun ==
    ASSUME NEW c, NEW open, NEW pc, NEW done, Runs(c, open, pc, done)
    PROVE  Begun(done, c.effect[1])
BY DEF Runs, Begun

LEMMA BegunIsPrefix ==
    ASSUME NEW done \in Seq(Nat), NEW effect, Begun(done, effect)
    PROVE  IsPrefix(done, effect)
<1>1. PICK left \in Seq(Nat) : done \o left = effect
  BY DEF Begun
<1>2. Len(effect) = Len(done) + Len(left) /\ \A i \in 1 .. Len(done) : effect[i] = done[i]
  <2>1. /\ Len(done \o left) = Len(done) + Len(left)
        /\ \A i \in 1 .. Len(done) + Len(left) :
             (done \o left)[i] = IF i <= Len(done) THEN done[i] ELSE left[i - Len(done)]
    BY ConcatProperties
  <2>2. Len(done) \in Nat /\ Len(left) \in Nat
    BY LenProperties
  <2>3. \A i \in 1 .. Len(done) : i \in 1 .. Len(done) + Len(left) /\ i <= Len(done)
    BY <2>2
  <2> QED BY <1>1, <2>1, <2>3
<1>3. Len(done) \in Nat /\ Len(left) \in Nat
  BY LenProperties
<1>4. Len(done) <= Len(effect)
  BY <1>2, <1>3
<1> QED BY <1>2, <1>3, <1>4 DEF IsPrefix

\* An entry that goes on somewhere else, with another table: the rest of it.
LEMMA MovedTo ==
    ASSUME NEW x, IsEntry(x), NEW pc, NEW jump
    PROVE  /\ [x EXCEPT !.pc = pc].on = x.on /\ [x EXCEPT !.pc = pc].pc = pc
           /\ [x EXCEPT !.pc = pc].jump = x.jump
           /\ [x EXCEPT !.pc = pc, !.jump = jump].on = x.on
           /\ [x EXCEPT !.pc = pc, !.jump = jump].pc = pc
           /\ [x EXCEPT !.pc = pc, !.jump = jump].jump = jump
<1>1. PICK a, b, d : x = [on |-> a, pc |-> b, jump |-> d]
  BY DEF IsEntry
<1>2. [x EXCEPT !.pc = pc] = [on |-> a, pc |-> pc, jump |-> d]
  BY <1>1
<1>3. [x EXCEPT !.pc = pc, !.jump = jump] = [on |-> a, pc |-> pc, jump |-> jump]
  <2>1. [x EXCEPT !.pc = pc, !.jump = jump] = [[x EXCEPT !.pc = pc] EXCEPT !.jump = jump]
    OBVIOUS
  <2> DEFINE y == [x EXCEPT !.pc = pc]
  <2>2. y = [on |-> a, pc |-> pc, jump |-> d]
    BY <1>2
  <2> HIDE DEF y
  <2>3. [y EXCEPT !.jump = jump] = [on |-> a, pc |-> pc, jump |-> jump]
    BY <2>2
  <2> QED BY <2>1, <2>3 DEF y
<1>4. x.on = a /\ x.jump = d
  BY <1>1
<1> QED BY <1>2, <1>3, <1>4

\* A step of one entry.
LEMMA DoneStepOf ==
    ASSUME NEW c, c.mem = evtMem, c.lines = evtLines, Explains(c),
           NEW P, NEW J, NEW S, StackTypes(P, J, S), AllDo(c, evtEntries, evtOpen, evtDone),
           NEW e \in Entries, NEW entry, NEW open, NEW done, EntryDoes(c, entry, open, done),
           evtMem' = evtMem, evtLines' = evtLines, evtRuns' # 0,
           evtEntries' = [evtEntries EXCEPT ![e] = entry],
           evtOpen' = [evtOpen EXCEPT ![e] = open],
           evtDone' = [evtDone EXCEPT ![e] = done]
    PROVE  DoneInv'
<1>1. AllDo(c, [evtEntries EXCEPT ![e] = entry], [evtOpen EXCEPT ![e] = open],
            [evtDone EXCEPT ![e] = done])
  BY OneEntryDoes
<1>2. AllDo(c, evtEntries', evtOpen', evtDone')
  BY <1>1
<1> QED BY <1>2 DEF DoneInv

\* What the entry is about to do, and what it has done.
LEMMA FetchedRuns ==
    ASSUME NEW c, c.mem = evtMem, AllDo(c, evtEntries, evtOpen, evtDone),
           NEW e \in Entries, NEW ops, Fetches(e, ops)
    PROVE  /\ evtDone[e] \in Seq(Nat) /\ getOpcode(c.mem[evtEntries[e].pc]) \in ops
           /\ evtEntries[e].jump = LabelsFrom(c.mem, Parent, {EvtEnd})
           /\ \E left \in Seq(Nat) : /\ Running(c, evtOpen[e], evtEntries[e].pc, left)
                                     /\ evtDone[e] \o left = c.effect[1]
           /\ NextPc(e) = After(c.mem, evtEntries[e].pc) /\ Arg(e) = c.mem[evtEntries[e].pc + 1]
<1>1. EntryDoes(c, evtEntries[e], evtOpen[e], evtDone[e])
  BY DEF AllDo
<1>2. evtEntries[e].on /\ getOpcode(evtMem[evtEntries[e].pc]) \in ops
  BY DEF Fetches
<1>3. NextPc(e) = After(c.mem, evtEntries[e].pc) /\ Arg(e) = c.mem[evtEntries[e].pc + 1]
  BY DEF NextPc, Arg, After
<1> QED BY <1>1, <1>2, <1>3 DEF EntryDoes, Runs

\* An entry that runs, with this left of its run.
LEMMA RunningDoes ==
    ASSUME NEW c, NEW entry, NEW open, NEW done \in Seq(Nat), NEW left \in Seq(Nat),
           entry.jump = LabelsFrom(c.mem, Parent, {EvtEnd}),
           Running(c, open, entry.pc, left), done \o left = c.effect[1]
    PROVE  EntryDoes(c, entry, open, done)
<1>1. Runs(c, open, entry.pc, done)
  BY DEF Runs
<1>2. Begun(done, c.effect[1])
  BY <1>1, RunsBegun
<1> QED BY <1>1, <1>2 DEF EntryDoes

LEMMA DoneStep ==
    ASSUME EvtInv, StackInv, DoneInv, EvtNext, ~PatchShorter
    PROVE  DoneInv'
<1>1. PICK c : /\ c.mem = evtMem /\ c.lines = evtLines /\ Explains(c)
               /\ AllDo(c, evtEntries, evtOpen, evtDone)
  BY DEF DoneInv
<1>2. PICK P, J, S : StackTypes(P, J, S)
  BY DEF StackInv
<1>3. \A e \in Entries : evtDone = [evtDone EXCEPT ![e] = evtDone[e]]
  <2>1. evtDone = [e \in Entries |-> evtDone[e]]
    BY <1>1 DEF AllDo
  <2> QED BY <2>1
<1>4. ASSUME NEW e \in Entries, evtEntries[e].on PROVE evtRuns # 0
  <2>1. evtRuns = 0 => evtEntries[e].on = FALSE
    BY NothingRuns DEF EvtInv
  <2> QED BY <1>4, <2>1
<1>5. CASE Patch
  <2>1. /\ evtRuns = 0 /\ evtRuns' = evtRuns /\ evtEntries' = evtEntries /\ evtOpen' = evtOpen
        /\ evtDone' = evtDone
    BY <1>5 DEF Patch, hookEvt, hookEvtReplace, hookEvtReplaceBlock, patchEvtInstruction, Patching
  <2>2. HasWhole(evtMem, evtLines)
    BY <1>1 DEF Explains, HasWhole
  <2>3. HasWhole(evtMem', evtLines')
    BY <1>5, <2>2, PatchKeepsWhole
  <2>4. PICK d : d.mem = evtMem' /\ d.lines = evtLines' /\ Explains(d)
    BY <2>3, HasExplanation
  <2>5. ASSUME NEW e \in Entries PROVE evtEntries[e].on = FALSE /\ evtDone[e] = <<>>
    <3>1. evtEntries[e].on = FALSE
      BY <2>1, NothingRuns DEF EvtInv
    <3> QED BY <2>1, <3>1 DEF DoneInv
  <2>6. Begun(<<>>, d.effect[1]) /\ <<>> \in Seq(Nat)
    BY <2>4, NothingBegun
  <2>7. AllDo(d, evtEntries, evtOpen, evtDone)
    <3>1. evtDone = [e \in Entries |-> evtDone[e]]
      BY <1>1 DEF AllDo
    <3>2. ASSUME NEW e \in Entries PROVE EntryDoes(d, evtEntries[e], evtOpen[e], evtDone[e])
      BY <2>5, <2>6 DEF EntryDoes
    <3> QED BY <3>1, <3>2 DEF AllDo
  <2> QED BY <2>1, <2>4, <2>5, <2>7 DEF DoneInv
<1>6. ASSUME NEW e \in Entries, Begin(e)
      PROVE  DoneInv'
  <2> DEFINE table == LabelsFrom(evtMem, Parent, {EvtEnd})
             entry == [on |-> TRUE, pc |-> Parent, jump |-> table]
  <2>1. /\ evtEntries' = [evtEntries EXCEPT ![e] = entry]
        /\ evtOpen' = [evtOpen EXCEPT ![e] = <<>>] /\ evtDone' = [evtDone EXCEPT ![e] = <<>>]
        /\ evtMem' = evtMem /\ evtLines' = evtLines /\ evtRuns' = evtRuns + 1
    BY <1>6 DEF Begin
  <2>2. entry.pc = Parent /\ entry.jump = LabelsFrom(c.mem, Parent, {EvtEnd})
    BY <1>1
  <2> HIDE DEF entry
  <2>3. Running(c, <<>>, entry.pc, c.effect[1])
    BY <1>1, <2>2, RunBegins
  <2>4. <<>> \in Seq(Nat) /\ c.effect[1] \in Seq(Nat) /\ <<>> \o c.effect[1] = c.effect[1]
    <3>1. 1 \in 1 .. Len(c.lines) + 1
      BY <1>1, Explained
    <3>2. c.effect[1] \in Seq(Nat)
      BY <1>1, <3>1, Explained
    <3> QED BY <3>2, EmptySeq, ConcatEmptySeq
  <2>5. EntryDoes(c, entry, <<>>, <<>>)
    BY <2>2, <2>3, <2>4, RunningDoes
  <2>6. evtRuns' # 0
    BY <2>1 DEF EvtInv
  <2> QED BY <1>1, <1>2, <2>1, <2>5, <2>6, DoneStepOf
<1>7. ASSUME NEW e \in Entries, evtEntries[e].on, evtDelete(e)
      PROVE  DoneInv'
  <2>1. /\ evtEntries' = [evtEntries EXCEPT ![e] = Idle] /\ evtOpen' = evtOpen
        /\ evtDone' = evtDone /\ evtMem' = evtMem /\ evtLines' = evtLines /\ evtRuns' = evtRuns
    BY <1>7 DEF evtDelete, historyVars
  <2>2. Idle.on = FALSE
    BY DEF Idle
  <2>3. EntryDoes(c, Idle, evtOpen[e], evtDone[e])
    <3>1. EntryDoes(c, evtEntries[e], evtOpen[e], evtDone[e])
      BY <1>1 DEF AllDo
    <3> QED BY <2>2, <3>1 DEF EntryDoes
  <2>4. evtOpen' = [evtOpen EXCEPT ![e] = evtOpen[e]]
    BY <1>2, <2>1, EntryAt
  <2>5. evtDone' = [evtDone EXCEPT ![e] = evtDone[e]] /\ evtRuns' # 0
    BY <1>3, <1>4, <1>7, <2>1
  <2> QED BY <1>1, <1>2, <2>1, <2>3, <2>4, <2>5, DoneStepOf, ZenonT(60)
<1>8. CASE evtmgrReInit
  <2>1. /\ evtEntries' = [e \in Entries |-> Idle] /\ evtOpen' = evtOpen
        /\ evtDone' = evtDone /\ evtMem' = evtMem /\ evtLines' = evtLines /\ evtRuns' = evtRuns
    BY <1>8 DEF evtmgrReInit, historyVars
  <2>2. Idle.on = FALSE
    BY DEF Idle
  <2>3. ASSUME NEW e \in Entries PROVE EntryDoes(c, evtEntries'[e], evtOpen'[e], evtDone'[e])
    <3>1. EntryDoes(c, evtEntries[e], evtOpen[e], evtDone[e])
      BY <1>1 DEF AllDo
    <3> QED BY <2>1, <2>2, <3>1 DEF EntryDoes
  <2>4. evtDone' = [e \in Entries |-> evtDone'[e]]
    BY <1>1, <2>1 DEF AllDo
  <2>5. AllDo(c, evtEntries', evtOpen', evtDone')
    BY <2>3, <2>4 DEF AllDo
  <2>6. evtRuns' # 0
    BY <1>4, <1>8, <2>1 DEF evtmgrReInit
  <2> QED BY <1>1, <2>1, <2>5, <2>6 DEF DoneInv
<1>9. ASSUME NEW e \in Entries, GoesOn(e)
      PROVE  DoneInv'
  <2> DEFINE x == evtEntries[e].pc
             acts == LineAt(evtMem, x).acts
             done == evtDone[e]
             entry == [evtEntries[e] EXCEPT !.pc = NextPc(e)]
  <2>1. /\ Fetches(e, {Nop, Lbl, Act}) /\ evtEntries' = [evtEntries EXCEPT ![e] = entry]
        /\ evtOpen' = evtOpen /\ evtDone' = [evtDone EXCEPT ![e] = done \o acts]
        /\ evtMem' = evtMem /\ evtLines' = evtLines /\ evtRuns' = evtRuns
    BY <1>9 DEF GoesOn
  <2>2. PICK left \in Seq(Nat) : Running(c, evtOpen[e], x, left) /\ done \o left = c.effect[1]
    BY <1>1, <2>1, FetchedRuns
  <2>3. /\ done \in Seq(Nat) /\ getOpcode(c.mem[x]) \in {Nop, Lbl, Act}
        /\ evtEntries[e].jump = LabelsFrom(c.mem, Parent, {EvtEnd})
        /\ NextPc(e) = After(c.mem, x)
    BY <1>1, <2>1, FetchedRuns
  <2>4. PICK left1 \in Seq(Nat) : /\ left = LineAt(c.mem, x).acts \o left1
                                  /\ LineAt(c.mem, x).acts \in Seq(Nat)
                                  /\ Running(c, evtOpen[e], After(c.mem, x), left1)
    BY <1>1, <2>2, <2>3, RunGoesOn
  <2>5. acts \in Seq(Nat) /\ left = acts \o left1
    BY <1>1, <2>4
  <2>6. entry.pc = After(c.mem, x) /\ entry.jump = LabelsFrom(c.mem, Parent, {EvtEnd})
    <3>1. IsEntry(evtEntries[e])
      BY <1>2, EntryAt
    <3> DEFINE y == evtEntries[e]
               pc == NextPc(e)
    <3>2. IsEntry(y) /\ y.jump = LabelsFrom(c.mem, Parent, {EvtEnd}) /\ pc = After(c.mem, x)
      BY <2>3, <3>1
    <3> HIDE DEF y, pc
    <3>3. [y EXCEPT !.pc = pc].pc = pc /\ [y EXCEPT !.pc = pc].jump = y.jump
      BY <3>2, MovedTo
    <3> QED BY <3>2, <3>3 DEF y, pc
  <2> HIDE DEF acts, done, entry
  <2>7. done \o acts \in Seq(Nat) /\ (done \o acts) \o left1 = c.effect[1]
    <3>1. (done \o acts) \o left1 = done \o (acts \o left1)
      BY <2>3, <2>5, ConcatAssociative, SMTT(30)
    <3>2. done \o acts \in Seq(Nat)
      BY <2>3, <2>5, ConcatProperties
    <3> QED BY <2>2, <2>5, <3>1, <3>2
  <2>8. Running(c, evtOpen[e], entry.pc, left1)
    BY <2>4, <2>6
  <2>9. EntryDoes(c, entry, evtOpen[e], done \o acts)
    BY <2>6, <2>7, <2>8, RunningDoes
  <2>10. evtOpen' = [evtOpen EXCEPT ![e] = evtOpen[e]]
    BY <1>2, <2>1, EntryAt
  <2>11. evtRuns' # 0
    BY <1>4, <2>1 DEF Fetches
  <2> QED BY <1>1, <1>2, <2>1, <2>9, <2>10, <2>11, DoneStepOf
<1>10. ASSUME NEW e \in Entries, Jumps(e)
       PROVE  DoneInv'
  <2> DEFINE x == evtEntries[e].pc
             jump == evtEntries[e].jump
             done == evtDone[e]
  <2>1. /\ Fetches(e, {Goto}) /\ evtOpen' = evtOpen /\ evtDone' = evtDone
        /\ evtMem' = evtMem /\ evtLines' = evtLines /\ evtRuns' = evtRuns
    BY <1>10 DEF Jumps, historyVars
  <2>2. PICK row \in Range(jump) : /\ row.id = Arg(e)
                                   /\ evtEntries' = [evtEntries EXCEPT ![e].pc = row.at]
    BY <1>10 DEF Jumps
  <2> DEFINE entry == [evtEntries[e] EXCEPT !.pc = row.at]
  <2>3. evtEntries' = [evtEntries EXCEPT ![e] = entry]
    BY <2>2
  <2>4. PICK left \in Seq(Nat) : Running(c, evtOpen[e], x, left) /\ done \o left = c.effect[1]
    BY <1>1, <2>1, FetchedRuns
  <2>5. /\ done \in Seq(Nat) /\ getOpcode(c.mem[x]) = Goto
        /\ jump = LabelsFrom(c.mem, Parent, {EvtEnd}) /\ Arg(e) = c.mem[x + 1]
    <3>1. getOpcode(c.mem[x]) \in {Goto}
      BY <1>1, <2>1, FetchedRuns
    <3>2. done \in Seq(Nat) /\ jump = LabelsFrom(c.mem, Parent, {EvtEnd}) /\ Arg(e) = c.mem[x + 1]
      BY <1>1, <2>1, FetchedRuns
    <3> QED BY <3>1, <3>2
  <2>6. RowLeads(c, row)
    <3>1. jump \in Seq(RowsIn(c))
      BY <1>1, <2>5, FirstTable
    <3> HIDE DEF jump
    <3>2. PICK i \in DOMAIN jump : row = jump[i]
      BY <2>2 DEF Range
    <3>3. i \in 1 .. Len(jump)
      BY <3>1, <3>2, LenProperties
    <3>4. row \in RowsIn(c)
      BY <3>1, <3>2, <3>3, ElementOfSeq
    <3> QED BY <3>4, RowsLead
  <2>7. Running(c, evtOpen[e], row.at, left)
    BY <1>1, <2>2, <2>4, <2>5, <2>6, RunJumps
  <2>8. entry.pc = row.at /\ entry.jump = LabelsFrom(c.mem, Parent, {EvtEnd})
    <3>1. IsEntry(evtEntries[e])
      BY <1>2, EntryAt
    <3> DEFINE y == evtEntries[e]
               pc == row.at
    <3>2. IsEntry(y) /\ y.jump = LabelsFrom(c.mem, Parent, {EvtEnd})
      BY <2>5, <3>1
    <3> HIDE DEF y, pc
    <3>3. [y EXCEPT !.pc = pc].pc = pc /\ [y EXCEPT !.pc = pc].jump = y.jump
      BY <3>2, MovedTo
    <3> QED BY <3>2, <3>3 DEF y, pc
  <2> HIDE DEF entry
  <2>9. EntryDoes(c, entry, evtOpen[e], evtDone[e])
    BY <2>4, <2>5, <2>7, <2>8, RunningDoes
  <2>10. evtOpen' = [evtOpen EXCEPT ![e] = evtOpen[e]]
    BY <1>2, <2>1, EntryAt
  <2>11. evtDone' = [evtDone EXCEPT ![e] = evtDone[e]] /\ evtRuns' # 0
    BY <1>3, <1>4, <2>1 DEF Fetches
  <2> QED BY <1>1, <1>2, <2>1, <2>3, <2>9, <2>10, <2>11, DoneStepOf, ZenonT(60)
<1>11. ASSUME NEW e \in Entries, evtOpcodeCall(e)
       PROVE  DoneInv'
  <2> DEFINE x == evtEntries[e].pc
             pc == Arg(e)
             next == NextPc(e)
             open == evtOpen[e]
             jump == evt_patch_make_jump_table(evtEntries[e].jump, evtMem, Arg(e))
             entry == [evtEntries[e] EXCEPT !.pc = pc, !.jump = jump]
             S1 == S \cup {next}
  <2>1. evtEntries' = [evtEntries EXCEPT ![e] = entry]
    BY <1>2, <1>11, EntryAt DEF evtOpcodeCall
  <2>2. /\ Fetches(e, {Call}) /\ evtOpen' = [evtOpen EXCEPT ![e] = Append(open, next)]
        /\ evtDone' = evtDone /\ evtMem' = evtMem /\ evtLines' = evtLines /\ evtRuns' = evtRuns
    BY <1>11 DEF evtOpcodeCall
  <2>3. PICK left \in Seq(Nat) : Running(c, open, x, left) /\ evtDone[e] \o left = c.effect[1]
    BY <1>1, <2>2, FetchedRuns
  <2>4. /\ evtDone[e] \in Seq(Nat) /\ getOpcode(c.mem[x]) = Call
        /\ evtEntries[e].jump = LabelsFrom(c.mem, Parent, {EvtEnd})
        /\ pc = c.mem[x + 1] /\ next = After(c.mem, x)
    <3>1. getOpcode(c.mem[x]) \in {Call}
      BY <1>1, <2>2, FetchedRuns
    <3>2. /\ evtDone[e] \in Seq(Nat) /\ evtEntries[e].jump = LabelsFrom(c.mem, Parent, {EvtEnd})
          /\ pc = c.mem[x + 1] /\ next = After(c.mem, x)
      BY <1>1, <2>2, FetchedRuns
    <3> QED BY <3>1, <3>2
  <2>5. open \in Seq(S1) /\ next \in S1
    <3>1. open \in Seq(S)
      BY <1>2, EntryAt
    <3>2. S \subseteq S1 /\ next \in S1
      OBVIOUS
    <3> HIDE DEF S1, open
    <3> QED BY <3>1, <3>2, SeqMonotonic
  <2> HIDE DEF S1
  <2>6. After(c.mem, x) \in S1
    BY <2>4, <2>5
  <2>7. pc \in c.kept /\ Running(c, Append(open, next), pc, left)
    <3>1. /\ c.mem[x + 1] \in c.kept
          /\ Running(c, Append(open, After(c.mem, x)), c.mem[x + 1], left)
      BY <1>1, <2>3, <2>4, <2>5, <2>6, RunCalls
    <3> QED BY <2>4, <3>1
  <2>8. jump = evtEntries[e].jump
    <3>1. evtEntries[e].jump \in Seq(RowsIn(c))
      BY <1>1, <2>4, FirstTable
    <3>2. evt_patch_make_jump_table(evtEntries[e].jump, c.mem, pc) = evtEntries[e].jump
      BY <1>1, <2>7, <3>1, TableStays
    <3> QED BY <1>1, <3>2
  <2>9. entry.pc = pc /\ entry.jump = LabelsFrom(c.mem, Parent, {EvtEnd})
    <3>1. IsEntry(evtEntries[e])
      BY <1>2, EntryAt
    <3> DEFINE y == evtEntries[e]
    <3>2. IsEntry(y) /\ jump = LabelsFrom(c.mem, Parent, {EvtEnd})
      BY <2>4, <2>8, <3>1
    <3>3. entry = [y EXCEPT !.pc = pc, !.jump = jump]
      OBVIOUS
    <3> HIDE DEF y, pc, jump, entry
    <3>4. [y EXCEPT !.pc = pc, !.jump = jump].pc = pc /\ [y EXCEPT !.pc = pc, !.jump = jump].jump = jump
      BY <3>2, MovedTo
    <3> QED BY <3>2, <3>3, <3>4
  <2> HIDE DEF entry, pc, next, jump, open
  <2>10. Running(c, Append(open, next), entry.pc, left)
    BY <2>7, <2>9
  <2>11. EntryDoes(c, entry, Append(open, next), evtDone[e])
    BY <2>3, <2>4, <2>9, <2>10, RunningDoes
  <2>12. evtDone' = [evtDone EXCEPT ![e] = evtDone[e]] /\ evtRuns' # 0
    BY <1>3, <1>4, <2>2 DEF Fetches
  <2> QED BY <1>1, <1>2, <2>1, <2>2, <2>11, <2>12, DoneStepOf
<1>12. ASSUME NEW e \in Entries, evtOpcodeReturnFromCall(e)
       PROVE  DoneInv'
  <2> DEFINE x == evtEntries[e].pc
             open == evtOpen[e]
             stack == returnStacks[e]
             pc == Last(stack)
             entry == [evtEntries[e] EXCEPT !.pc = pc]
  <2>1. /\ Fetches(e, {ReturnFromCall}) /\ evtEntries' = [evtEntries EXCEPT ![e] = entry]
        /\ evtOpen' = [evtOpen EXCEPT ![e] = IF open = <<>> THEN open ELSE Front(open)]
        /\ evtDone' = evtDone /\ evtMem' = evtMem /\ evtLines' = evtLines /\ evtRuns' = evtRuns
    BY <1>12 DEF evtOpcodeReturnFromCall
  <2>2. PICK left \in Seq(Nat) : Running(c, open, x, left) /\ evtDone[e] \o left = c.effect[1]
    BY <1>1, <2>1, FetchedRuns
  <2>3. /\ evtDone[e] \in Seq(Nat) /\ getOpcode(c.mem[x]) = ReturnFromCall
        /\ evtEntries[e].jump = LabelsFrom(c.mem, Parent, {EvtEnd})
    <3>1. getOpcode(c.mem[x]) \in {ReturnFromCall}
      BY <1>1, <2>1, FetchedRuns
    <3>2. evtDone[e] \in Seq(Nat) /\ evtEntries[e].jump = LabelsFrom(c.mem, Parent, {EvtEnd})
      BY <1>1, <2>1, FetchedRuns
    <3> QED BY <3>1, <3>2
  <2>4. open \in Seq(S) /\ stack \in Seq(S)
    BY <1>2, EntryAt
  <2>5. open # <<>> /\ Running(c, Front(open), Last(open), left)
    BY <1>1, <2>2, <2>3, <2>4, RunReturns
  <2>6. pc = Last(open)
    <3>1. IsSuffix(open, stack)
      <4>1. evtEntries[e].on
        BY <2>1 DEF Fetches
      <4> QED BY <4>1 DEF StackInv, ReturnsToCaller
    <3> HIDE DEF open, stack
    <3>2. /\ Len(open) <= Len(stack)
          /\ \A i \in 1 .. Len(open) : open[i] = stack[Len(stack) - Len(open) + i]
      BY <2>4, <3>1, SuffixByElements
    <3>3. Len(open) \in Nat \ {0} /\ Len(stack) \in Nat
      BY <2>4, <2>5, EmptySeq, LenProperties
    <3>4. Len(open) \in 1 .. Len(open) /\ Len(stack) - Len(open) + Len(open) = Len(stack)
      BY <3>3
    <3>5. open[Len(open)] = stack[Len(stack)]
      BY <3>2, <3>4
    <3> QED BY <3>5 DEF Last
  <2>7. entry.pc = pc /\ entry.jump = LabelsFrom(c.mem, Parent, {EvtEnd})
    <3>1. IsEntry(evtEntries[e])
      BY <1>2, EntryAt
    <3> DEFINE y == evtEntries[e]
    <3>2. IsEntry(y) /\ y.jump = LabelsFrom(c.mem, Parent, {EvtEnd}) /\ entry = [y EXCEPT !.pc = pc]
      BY <2>3, <3>1
    <3> HIDE DEF y, pc, entry
    <3>3. [y EXCEPT !.pc = pc].pc = pc /\ [y EXCEPT !.pc = pc].jump = y.jump
      BY <3>2, MovedTo
    <3> QED BY <3>2, <3>3
  <2> HIDE DEF entry, pc, stack
  <2>8. Running(c, Front(open), entry.pc, left)
    BY <2>5, <2>6, <2>7
  <2>9. EntryDoes(c, entry, Front(open), evtDone[e])
    BY <2>2, <2>3, <2>7, <2>8, RunningDoes
  <2>10. evtOpen' = [evtOpen EXCEPT ![e] = Front(open)]
    BY <2>1, <2>5
  <2>11. evtDone' = [evtDone EXCEPT ![e] = evtDone[e]] /\ evtRuns' # 0
    BY <1>3, <1>4, <2>1 DEF Fetches
  <2> HIDE DEF open
  <2> QED BY <1>1, <1>2, <2>1, <2>9, <2>10, <2>11, DoneStepOf
<1>13. ASSUME NEW e \in Entries, Returns(e)
       PROVE  DoneInv'
  BY <1>7, <1>13 DEF Returns, Fetches
<1> QED
  BY <1>5, <1>6, <1>7, <1>8, <1>9, <1>10, <1>11, <1>12, <1>13
     DEF EvtNext, evtEntry, evtRestart, Terminated, evtmgrCmd

LEMMA DoneInvImplies ==
    ASSUME DoneInv
    PROVE  DoesTheEditedLines
<1>1. PICK c : /\ c.mem = evtMem /\ c.lines = evtLines /\ Explains(c)
               /\ AllDo(c, evtEntries, evtOpen, evtDone)
  BY DEF DoneInv
<1>2. c.effect[1] = Effect(evtLines)
  BY <1>1, Explained
<1>3. ASSUME NEW e \in Entries PROVE IsPrefix(evtDone[e], Effect(evtLines))
  <2>1. evtDone[e] \in Seq(Nat) /\ Begun(evtDone[e], c.effect[1])
    BY <1>1 DEF AllDo, EntryDoes
  <2> QED BY <1>2, <2>1, BegunIsPrefix
<1>4. ASSUME NEW e \in Entries, Fetches(e, {Return, EvtEnd})
      PROVE  evtDone[e] = Effect(evtLines)
  <2>1. PICK left \in Seq(Nat) : /\ Running(c, evtOpen[e], evtEntries[e].pc, left)
                                 /\ evtDone[e] \o left = c.effect[1]
    BY <1>1, <1>4, FetchedRuns
  <2>2. getOpcode(c.mem[evtEntries[e].pc]) \in {Return, EvtEnd} /\ evtDone[e] \in Seq(Nat)
    BY <1>1, <1>4, FetchedRuns
  <2>3. left = <<>>
    BY <1>1, <2>1, <2>2, RunEnds
  <2>4. evtDone[e] \o <<>> = evtDone[e]
    BY <2>2, ConcatEmptySeq
  <2> QED BY <1>2, <2>1, <2>3, <2>4
<1> QED BY <1>3, <1>4 DEF DoesTheEditedLines

\* A patched script does what its edited lines say, in that order, and has done all of it
\* when it comes to its return: whichever lines main hooks or replaces, however often and in
\* whatever order, also lines that were hooked or replaced before, and whatever is started,
\* restarted and ended then.  The scripts are those of which the lines can say it.
THEOREM DoesTheEditedLinesCorrect ==
    ~PatchShorter /\ PlainScripts => (EvtSpec => []DoesTheEditedLines)
<1> SUFFICES ASSUME ~PatchShorter, PlainScripts PROVE EvtSpec => []DoesTheEditedLines
  OBVIOUS
<1>1. EvtInit => DoneInv
  <2> SUFFICES ASSUME EvtInit PROVE DoneInv
    OBVIOUS
  <2>1. PICK c : c.mem = Image /\ c.lines = LinesOf(Image, Parent) /\ Explains(c)
    BY FirstWhole, HasExplanation
  <2>2. /\ evtMem = Image /\ evtLines = LinesOf(Image, Parent)
        /\ evtEntries = [e \in Entries |-> Idle] /\ evtDone = [e \in Entries |-> <<>>]
    BY DEF EvtInit
  <2>3. Begun(<<>>, c.effect[1]) /\ <<>> \in Seq(Nat)
    BY <2>1, NothingBegun
  <2>4. Idle.on = FALSE
    BY DEF Idle
  <2>5. ASSUME NEW e \in Entries PROVE EntryDoes(c, evtEntries[e], evtOpen[e], evtDone[e])
    BY <2>2, <2>3, <2>4 DEF EntryDoes
  <2>6. AllDo(c, evtEntries, evtOpen, evtDone) /\ \A e \in Entries : evtDone[e] = <<>>
    BY <2>2, <2>5 DEF AllDo
  <2> QED BY <2>1, <2>2, <2>6 DEF DoneInv
<1>2. EvtInv /\ StackInv /\ DoneInv /\ [EvtNext]_evtVars => DoneInv'
  <2>1. CASE EvtInv /\ StackInv /\ DoneInv /\ EvtNext
    BY <2>1, DoneStep
  <2>2. CASE DoneInv /\ UNCHANGED evtVars
    BY <2>2 DEF evtVars, DoneInv
  <2> QED BY <2>1, <2>2
<1>3. DoneInv => DoesTheEditedLines
  BY DoneInvImplies
<1>4. EvtSpec => []EvtInv /\ []StackInv
  BY EvtInvHolds, StackInvHolds
<1> QED BY <1>1, <1>2, <1>3, <1>4, PTL DEF EvtSpec
=============================================================================
