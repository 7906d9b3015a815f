----------------------------- MODULE MCEvtPatch -----------------------------
(* A script of the game and two of the mod for checking EvtPatch.          *)
EXTENDS EvtPatch

\* A line of one word, one of three, a goto over a line, a label.
Script == <<Word(Act, 1), 10, Word(Act, 0), Word(Act, 2), 11, 2, Word(Goto, 1), 1,
            Word(Act, 1), 12, Word(Lbl, 1), 1, Word(Act, 1), 13, Word(Return, 0),
            Word(EvtEnd, 0)>>
ChildA == <<Word(Act, 1), 20, Word(ReturnFromCall, 0)>>
ChildB == <<Word(Act, 0), Word(Act, 1), 21, Word(ReturnFromCall, 0)>>
Instruction == <<Word(Act, 1), 30, Word(EvtEnd, 0)>>

MCImage == Script \o ChildA \o ChildB \o Instruction
MCHeads == {1, 3, 4, 7, 9, 11, 13, 15, 16} \cup {17, 19} \cup {20, 21, 23} \cup {24, 26}
MCChildren == {Len(Script) + 1, Len(Script) + Len(ChildA) + 1}
MCReplacements == {Len(Script) + Len(ChildA) + Len(ChildB) + 1}

\* They are scripts for which the patches are proved to do what they say.
ASSUME ScriptsArePlain == PlainScripts
=============================================================================
