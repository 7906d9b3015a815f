------------------------------ MODULE EvtPatch ------------------------------
(***************************************************************************)
(* Patching the game's event scripts (mod/source/evtpatch.cpp).  At start  *)
(* the mod writes calls of its own scripts into a script of the game; two  *)
(* new opcodes, call and return from call, keep a stack of return          *)
(* addresses for every entry of the game's event manager.                  *)
(*                                                                         *)
(* Scripts are words of one memory, an address is an index.  An            *)
(* instruction is a word with its opcode and its number of arguments, and  *)
(* the arguments after it.  The game's instructions are reduced to those   *)
(* that steer a script and one, Act, that stands for all the others.       *)
(***************************************************************************)
EXTENDS Integers, Sequences, SequencesExt

CONSTANTS Image,          \* the scripts in memory before the first patch
          Heads,          \* the addresses in Image at which an instruction begins
          Parent,         \* address of the game's script that is patched
          Children,       \* addresses of the mod's scripts
          Replacements,   \* addresses of single instructions to patch in
          PatchShorter,   \* TRUE: also with an instruction shorter than the patched one
          EVT_ENTRY_MAX,
          MaxPatches,     \* bound: patches applied
          MaxRuns         \* bound: scripts started or restarted

Entries == 1 .. EVT_ENTRY_MAX

\* Opcodes.  A word is an instruction's opcode + 8 * its number of arguments.
Nop == 0
EvtEnd == 1
Return == 2
Lbl == 3
Goto == 4
Act == 5
Call == 6
ReturnFromCall == 7
Word(op, args) == op + 8 * args
getOpcode(w) == w % 8
getNumArgs(w) == w \div 8
getInstructionLength(w) == 1 + getNumArgs(w)

\* Where the patched script ends.
ParentEnd == CHOOSE a \in Heads : /\ Parent <= a /\ getOpcode(Image[a]) = EvtEnd
                                  /\ \A b \in Heads : b >= Parent /\ getOpcode(Image[b]) = EvtEnd
                                                      => a <= b
ParentWords == Parent .. ParentEnd

\* An instruction of Image and the one after it.  Labels and gotos have a number, calls a
\* script of the mod.
HeadOK(a) ==
    LET op == getOpcode(Image[a])
        next == a + getInstructionLength(Image[a])
    IN /\ next <= Len(Image) + 1
       /\ op \notin {EvtEnd, ReturnFromCall} => next \in Heads
       /\ \A b \in Heads : a < b => next <= b
       /\ op \in {Lbl, Goto, Call} => getNumArgs(Image[a]) > 0
       /\ op = Call => Image[a + 1] \in Children

\* The scripts in memory are whole.  The patched one is the game's: it has no padding and
\* no return from call.  The mod's own are elsewhere.
ASSUME EvtAssumption ==
    /\ Image \in Seq(Nat) /\ Heads \subseteq 1 .. Len(Image)
    /\ EVT_ENTRY_MAX \in Nat /\ MaxPatches \in Nat /\ MaxRuns \in Nat
    /\ \A a \in Heads : HeadOK(a)
    /\ Parent \in Heads
    /\ \E a \in Heads : a >= Parent /\ getOpcode(Image[a]) = EvtEnd
    /\ \A a \in Heads \cap ParentWords : Image[a] # 0 /\ getOpcode(Image[a]) # ReturnFromCall
    /\ Children \cup Replacements \subseteq Heads \ ParentWords
    /\ \A a \in Replacements : /\ Image[a] # 0
                               /\ getOpcode(Image[a]) \notin {EvtEnd, ReturnFromCall}

VARIABLES
  evtMem,       \* the words in memory
  evtPatched,   \* how many patches were applied
  evtRuns,      \* how often a script was started or restarted
  evtEntries,   \* what the event manager runs: its next instruction and its jump table
  returnStacks, \* the return stack of each entry, empty where there is none
  evtLines,     \* history: the lines the patched script is meant to have
  evtOpen,      \* history: where the open calls of each entry's run are to return to
  evtDone       \* history: what each entry's run has done

evtVars == <<evtMem, evtPatched, evtRuns, evtEntries, returnStacks, evtLines, evtOpen, evtDone>>
historyVars == <<evtLines, evtOpen, evtDone>>

Idle == [on |-> FALSE, pc |-> 0, jump |-> <<>>]
-----------------------------------------------------------------------------
(* Scripts as words.                                                       *)

TrampolineCall(script) == <<Word(Call, 1), script>>
TRAMPOLINE_CALL_LENGTH == 2

\* memcpy of words into memory.
Write(m, at, words) == [i \in 1 .. Len(m) |->
                          IF i \in at .. at + Len(words) - 1 THEN words[i - at + 1] ELSE m[i]]
Zeros(n) == [i \in 1 .. n |-> 0]
\* The words at address at when their first bytes are cleared.  A head loses its number of
\* arguments with its first two bytes, and opcodes and other words fit in what is left.
Cleared(m, at, bytes) == [i \in 1 .. bytes \div 4 + 1 |->
    IF i <= bytes \div 4 THEN 0
    ELSE IF bytes % 4 > 1 THEN getOpcode(m[at + i - 1]) ELSE m[at + i - 1]]
Words(m, at, n) == SubSeq(m, at, at + n - 1)

\* The next instruction that is not padding.
SkipPadding(m, at) == CHOOSE a \in at .. Len(m) : m[a] # 0 /\ \A b \in at .. a - 1 : m[b] = 0

\* Addresses instead of offsets from the head of the script.
getLineOffset(m, script, line) ==
    LET at[i \in 1 .. line] ==
          IF i = 1 THEN script
          ELSE LET a == at[i - 1] IN SkipPadding(m, a + getInstructionLength(m[a]))
    IN at[line]

\* Mutant: only the first instruction moves, however short it is.
getInstructionBlockLengthOfOne(m, at, limit) == getInstructionLength(m[at])

getInstructionBlockLength(m, at, limit) ==
    LET len[n \in Nat] == IF n >= limit THEN n
                          ELSE len[n + getInstructionLength(m[at + n])]
    IN len[getInstructionLength(m[at])]

\* The labels of a script, up to an opcode that ends the search, or the end of memory.
LabelsFrom(m, script, ends) ==
    LET from[a \in Nat \ {0}] ==
          IF a > Len(m) \/ getOpcode(m[a]) \in ends THEN <<>>
          ELSE LET next == a + getInstructionLength(m[a]) IN
               (IF getOpcode(m[a]) = Lbl THEN <<[id |-> m[a + 1], at |-> next]>> ELSE <<>>)
                 \o from[next]
    IN from[script]

\* The child's labels are written from the first row of the entry's table on.
evt_patch_make_jump_table(jump, m, child) ==
    LET new == LabelsFrom(m, child, {EvtEnd, ReturnFromCall})
    IN new \o SubSeq(jump, Len(new) + 1, Len(jump))
-----------------------------------------------------------------------------
(* What the lines of a script mean: what a line does, where it goes on,    *)
(* and how many words its first instruction has.                           *)

LineAt(m, a) ==
    LET op == getOpcode(m[a]) IN
    [acts |-> IF op = Act /\ getNumArgs(m[a]) > 0 THEN <<m[a + 1]>>
              ELSE IF op = Act THEN <<0>> ELSE <<>>,
     flow |-> op,
     label |-> IF op \in {Lbl, Goto} THEN m[a + 1] ELSE 0,
     words |-> getInstructionLength(m[a])]

LinesOf(m, script) ==
    LET from[a \in Nat \ {0}] ==
          IF a > Len(m) THEN <<>>
          ELSE <<LineAt(m, a)>> \o (IF getOpcode(m[a]) \in {EvtEnd, ReturnFromCall} THEN <<>>
                                    ELSE from[a + getInstructionLength(m[a])])
    IN from[script]

\* The mod's scripts have no labels.
ActsOf(m, child) == FlattenSeq([i \in 1 .. Len(LinesOf(m, child)) |-> LinesOf(m, child)[i].acts])

\* What a script with these lines does.
Effect(lines) ==
    LET from[i \in 1 .. Len(lines)] ==
          lines[i].acts \o
            CASE lines[i].flow \in {Return, EvtEnd} -> <<>>
              [] lines[i].flow = Goto ->
                   from[CHOOSE j \in 1 .. Len(lines) : /\ lines[j].flow = Lbl
                                                       /\ lines[j].label = lines[i].label]
              [] OTHER -> from[i + 1]
    IN from[1]

\* A goto goes on at a later line, and no two lines have the same label.
GoesForward(lines) ==
    /\ \A i \in 1 .. Len(lines) : lines[i].flow = Goto =>
         \E j \in 1 .. Len(lines) : /\ i < j
                                    /\ lines[j].flow = Lbl /\ lines[j].label = lines[i].label
    /\ \A i, j \in 1 .. Len(lines) : /\ lines[i].flow = Lbl /\ lines[j].flow = Lbl
                                     /\ lines[i].label = lines[j].label
                                     => i = j

\* From these addresses on there is nothing but work up to a return from call.
Straight == {a \in Heads \ ParentWords :
               \E r \in Heads :
                 /\ a <= r /\ getOpcode(Image[r]) = ReturnFromCall
                 /\ \A b \in Heads : a <= b /\ b < r => getOpcode(Image[b]) \in {Nop, Act}}

\* Scripts of which ActsOf and Effect say what they do: the mod's work straight on, the
\* game's calls nothing and does not loop, and what replaces a line is one of work, or a return.
PlainScripts ==
    /\ GoesForward(LinesOf(Image, Parent))
    /\ \A a \in Heads \cap ParentWords : getOpcode(Image[a]) # Call
    /\ Children \subseteq Straight
    /\ \A r \in Replacements : getOpcode(Image[r]) \in {Nop, Act, Return}

\* A line and the one after it, when it is too short for a call, as one line that does
\* `first` before them.
Joined(lines, i, k, first) ==
    LET last == IF lines[i].flow = Return THEN i ELSE k IN
    [acts |-> first \o FlattenSeq([j \in 1 .. last - i + 1 |-> lines[i + j - 1].acts]),
     flow |-> lines[last].flow, label |-> lines[last].label, words |-> TRAMPOLINE_CALL_LENGTH]

\* The last line whose words a call written at line i takes.
LastCovered(lines, i) == IF lines[i].words < TRAMPOLINE_CALL_LENGTH THEN i + 1 ELSE i

CallLine(child) == [acts |-> ActsOf(evtMem, child), flow |-> Act, label |-> 0,
                    words |-> TRAMPOLINE_CALL_LENGTH]

\* Lines i to k give way to one.
Splice(lines, i, k, line) ==
    SubSeq(lines, 1, i - 1) \o <<line>> \o SubSeq(lines, k + 1, Len(lines))
-----------------------------------------------------------------------------
EvtInit ==
    /\ evtMem = Image
    /\ evtPatched = 0 /\ evtRuns = 0
    /\ evtEntries = [e \in Entries |-> Idle]
    /\ returnStacks = [e \in Entries |-> <<>>]
    /\ evtLines = LinesOf(Image, Parent)
    /\ evtOpen = [e \in Entries |-> <<>>] /\ evtDone = [e \in Entries |-> <<>>]

(* The patches.  main applies them before the game runs a script.  A line  *)
(* is not moved or replaced where the script would lose what it needs: its *)
(* end, a label, or, when the line is dropped, its return.                 *)

Patching(i, k, kept) ==
    /\ evtRuns = 0 /\ evtPatched < MaxPatches
    /\ k <= Len(evtLines)
    /\ \A j \in i .. k : evtLines[j].flow \notin kept
    /\ evtPatched' = evtPatched + 1
    /\ UNCHANGED <<evtRuns, evtEntries, returnStacks, evtOpen, evtDone>>

\* The call goes to a forwarder: a call of the child, the instructions that made
\* room, and a return from call.
hookEvtByOffset(src, child) ==
    LET len == getInstructionBlockLength(evtMem, src, TRAMPOLINE_CALL_LENGTH)
        forwarder == TrampolineCall(child) \o Words(evtMem, src, len) \o <<Word(ReturnFromCall, 0)>>
    IN evtMem' = Write(Write(evtMem, src, Zeros(len)), src, TrampolineCall(Len(evtMem) + 1))
                   \o forwarder

hookEvt ==
    \E i \in 1 .. Len(evtLines), child \in Children :
      LET k == LastCovered(evtLines, i) IN
      /\ Patching(i, k, {Lbl, EvtEnd})
      /\ hookEvtByOffset(getLineOffset(evtMem, Parent, i), child)
      /\ evtLines' = Splice(evtLines, i, k, Joined(evtLines, i, k, ActsOf(evtMem, child)))

hookEvtReplaceByOffset(src, child) ==
    LET len == getInstructionBlockLength(evtMem, src, TRAMPOLINE_CALL_LENGTH)
    IN evtMem' = Write(Write(evtMem, src, Zeros(len)), src, TrampolineCall(child))

hookEvtReplace ==
    \E i \in 1 .. Len(evtLines), child \in Children :
      LET k == LastCovered(evtLines, i) IN
      /\ Patching(i, k, {Lbl, EvtEnd, Return})
      /\ hookEvtReplaceByOffset(getLineOffset(evtMem, Parent, i), child)
      /\ evtLines' = Splice(evtLines, i, k, CallLine(child))

hookEvtReplaceBlockByOffset(src, child, end) ==
    evtMem' = Write(Write(evtMem, src, Zeros(end - src)), src, TrampolineCall(child))

\* A block of less than two words has no room for the call.
hookEvtReplaceBlock ==
    \E i, k \in 1 .. Len(evtLines), child \in Children :
      LET src == getLineOffset(evtMem, Parent, i)
          end == getLineOffset(evtMem, Parent, k + 1)
      IN /\ i <= k /\ k < Len(evtLines)
         /\ Patching(i, k, {Lbl, EvtEnd, Return})
         /\ end - src >= TRAMPOLINE_CALL_LENGTH
         /\ hookEvtReplaceBlockByOffset(src, child, end)
         /\ evtLines' = Splice(evtLines, i, k, CallLine(child))

\* The instruction's length in words is taken for one in bytes.
patchEvtInstructionByOffset(src, replacement) ==
    LET len == getInstructionLength(evtMem[src])
        n == getInstructionLength(evtMem[replacement])
    IN evtMem' = Write(Write(evtMem, src, Cleared(evtMem, src, len)), src,
                       Words(evtMem, replacement, n))

patchEvtInstruction ==
    \E i \in 1 .. Len(evtLines), new \in Replacements :
      LET src == getLineOffset(evtMem, Parent, i)
          old == getInstructionLength(evtMem[src])
          line == LineAt(evtMem, new)
      IN /\ Patching(i, i, {Lbl, EvtEnd, Return})
         /\ old >= line.words /\ (PatchShorter \/ old = line.words)
         /\ patchEvtInstructionByOffset(src, new)
         /\ evtLines' = Splice(evtLines, i, i, line)

Patch == hookEvt \/ hookEvtReplace \/ hookEvtReplaceBlock \/ patchEvtInstruction
-----------------------------------------------------------------------------
(* The game's event manager, with the mod's opcodes and hooks.             *)

Begin(e) == /\ evtRuns < MaxRuns
            /\ evtRuns' = evtRuns + 1
            /\ evtEntries' = [evtEntries EXCEPT ![e] =
                 [on |-> TRUE, pc |-> Parent, jump |-> LabelsFrom(evtMem, Parent, {EvtEnd})]]
            /\ evtOpen' = [evtOpen EXCEPT ![e] = <<>>]
            /\ evtDone' = [evtDone EXCEPT ![e] = <<>>]
            /\ UNCHANGED <<evtMem, evtPatched, returnStacks, evtLines>>

evtEntry == \E e \in Entries : ~evtEntries[e].on /\ Begin(e)

\* The mod does not hook it: the return stack stays.
evtRestart == \E e \in Entries : evtEntries[e].on /\ Begin(e)

evtmgrDestroyReturnStack(stacks, e) == [stacks EXCEPT ![e] = <<>>]

\* Mutant: evtDelete is not hooked.
evtDeleteNotHooked(e) ==
    /\ evtEntries' = [evtEntries EXCEPT ![e] = Idle]
    /\ UNCHANGED <<evtMem, evtPatched, evtRuns, returnStacks, historyVars>>

evtDelete(e) ==
    /\ evtEntries' = [evtEntries EXCEPT ![e] = Idle]
    /\ returnStacks' = evtmgrDestroyReturnStack(returnStacks, e)
    /\ UNCHANGED <<evtMem, evtPatched, evtRuns, historyVars>>

\* Another script ends this one.
Terminated == \E e \in Entries : evtEntries[e].on /\ evtDelete(e)

evtmgrReInit ==
    /\ \E e \in Entries : evtEntries[e].on
    /\ evtEntries' = [e \in Entries |-> Idle]
    /\ returnStacks' = [e \in Entries |-> <<>>]
    /\ UNCHANGED <<evtMem, evtPatched, evtRuns, historyVars>>

\* evtmgrCmd: the entry's next instruction is past this one when it is executed.
Fetches(e, ops) == evtEntries[e].on /\ getOpcode(evtMem[evtEntries[e].pc]) \in ops
NextPc(e) == evtEntries[e].pc + getInstructionLength(evtMem[evtEntries[e].pc])
Arg(e) == evtMem[evtEntries[e].pc + 1]

GoesOn(e) ==
    /\ Fetches(e, {Nop, Lbl, Act})
    /\ evtEntries' = [evtEntries EXCEPT ![e].pc = NextPc(e)]
    /\ evtDone' = [evtDone EXCEPT ![e] = @ \o LineAt(evtMem, evtEntries[e].pc).acts]
    /\ UNCHANGED <<evtMem, evtPatched, evtRuns, returnStacks, evtLines, evtOpen>>

Jumps(e) ==
    /\ Fetches(e, {Goto})
    /\ \E row \in Range(evtEntries[e].jump) :
         /\ row.id = Arg(e)
         /\ evtEntries' = [evtEntries EXCEPT ![e].pc = row.at]
    /\ UNCHANGED <<evtMem, evtPatched, evtRuns, returnStacks, historyVars>>

Returns(e) == Fetches(e, {Return}) /\ evtDelete(e)

\* Mutant: the address is counted in bytes.
evtOpcodeCallBytes(e) ==
    /\ Fetches(e, {Call})
    /\ returnStacks' = [returnStacks EXCEPT ![e] = Append(@, 4 * NextPc(e))]
    /\ evtEntries' = [evtEntries EXCEPT
                        ![e].pc = Arg(e),
                        ![e].jump = evt_patch_make_jump_table(@, evtMem, Arg(e))]
    /\ evtOpen' = [evtOpen EXCEPT ![e] = Append(@, NextPc(e))]
    /\ UNCHANGED <<evtMem, evtPatched, evtRuns, evtLines, evtDone>>

evtOpcodeCall(e) ==
    /\ Fetches(e, {Call})
    /\ returnStacks' = [returnStacks EXCEPT ![e] = Append(@, NextPc(e))]
    /\ evtEntries' = [evtEntries EXCEPT
                        ![e].pc = Arg(e),
                        ![e].jump = evt_patch_make_jump_table(@, evtMem, Arg(e))]
    /\ evtOpen' = [evtOpen EXCEPT ![e] = Append(@, NextPc(e))]
    /\ UNCHANGED <<evtMem, evtPatched, evtRuns, evtLines, evtDone>>

\* A stack that is empty is freed, and the next call makes a new one.
evtOpcodeReturnFromCall(e) ==
    /\ Fetches(e, {ReturnFromCall}) /\ returnStacks[e] # <<>>
    /\ evtEntries' = [evtEntries EXCEPT ![e].pc = Last(returnStacks[e])]
    /\ returnStacks' = [returnStacks EXCEPT ![e] = Front(@)]
    /\ evtOpen' = [evtOpen EXCEPT ![e] = IF @ = <<>> THEN @ ELSE Front(@)]
    /\ UNCHANGED <<evtMem, evtPatched, evtRuns, evtLines, evtDone>>

evtmgrCmd == \E e \in Entries : \/ GoesOn(e) \/ Jumps(e) \/ Returns(e)
                                \/ evtOpcodeCall(e) \/ evtOpcodeReturnFromCall(e)

EvtNext == Patch \/ evtEntry \/ evtRestart \/ Terminated \/ evtmgrReInit \/ evtmgrCmd
EvtSpec == EvtInit /\ [][EvtNext]_evtVars
-----------------------------------------------------------------------------
(* Properties.                                                             *)

\* Types: every address the manager holds, also in jump tables and on return stacks, is one
\* of memory.
EvtTypeOK ==
    /\ evtMem \in Seq(Nat) /\ evtPatched \in 0 .. MaxPatches /\ evtRuns \in 0 .. MaxRuns
    /\ \A e \in Entries :
         /\ evtEntries[e].on \in BOOLEAN /\ evtEntries[e].pc \in 0 .. Len(evtMem)
         /\ evtEntries[e].jump \in Seq([id : Nat, at : 1 .. Len(evtMem)])
    /\ returnStacks \in [Entries -> Seq(1 .. Len(evtMem))]

\* A run returns from each call to where it was made: its own open calls are on top of
\* the return stack, whatever an earlier run of the entry left, and an entry that runs
\* nothing has no stack.
ReturnsToCaller ==
    \A e \in Entries :
      IF evtEntries[e].on THEN IsSuffix(evtOpen[e], returnStacks[e]) ELSE returnStacks[e] = <<>>

\* A patched script does what its edited lines say, in that order: a hooked line the
\* child's work and then its own, a replaced one the child's, all others what they did;
\* and it has done all of it when it comes to the return.
DoesTheEditedLines ==
    \A e \in Entries :
      /\ IsPrefix(evtDone[e], Effect(evtLines))
      /\ Fetches(e, {Return, EvtEnd}) => evtDone[e] = Effect(evtLines)
=============================================================================
