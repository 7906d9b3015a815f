------------------------------ MODULE MsgList -------------------------------
(***************************************************************************)
(* What message patching promises: a list of texts, at most Capacity of    *)
(* them, each for a name; a new one goes to the end, one is removed from   *)
(* the end, and the last one for a name is the one that counts.            *)
(***************************************************************************)
EXTENDS Integers, Sequences

CONSTANTS Names, Texts, Capacity, NoText

VARIABLE msgTexts

Positions(name) == {i \in 1 .. Len(msgTexts) : msgTexts[i].name = name}
LastPosition(name) == CHOOSE i \in Positions(name) : \A j \in Positions(name) : j <= i
TextOf(name) == IF Positions(name) = {} THEN NoText ELSE msgTexts[LastPosition(name)].text

Init == msgTexts = <<>>

Add(name, text, layered) ==
    /\ Len(msgTexts) < Capacity
    /\ layered \/ Positions(name) = {}
    /\ msgTexts' = Append(msgTexts, [name |-> name, text |-> text])

Without(k) == [i \in 1 .. Len(msgTexts) - 1 |-> msgTexts[IF i < k THEN i ELSE i + 1]]

Remove(name) ==
    /\ Positions(name) # {}
    /\ msgTexts' = Without(LastPosition(name))

Next == \E name \in Names :
          \/ \E text \in Texts, layered \in BOOLEAN : Add(name, text, layered)
          \/ Remove(name)

Spec == Init /\ [][Next]_msgTexts
=============================================================================
