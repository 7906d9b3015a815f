------------------------------ MODULE MsgPatch ------------------------------
(***************************************************************************)
(* The table of replaced messages (mod/source/msgpatch.cpp) and the two    *)
(* searches of the game that are rewritten to look into it first.          *)
(*                                                                         *)
(* A name is a stem and the ending that the search without fallback looks  *)
(* for; "_ex_" stands for any name with that text in it.                   *)
(***************************************************************************)
EXTENDS Integers, Sequences

CONSTANTS Stems,        \* what names start with, numbers in the order of strcmp
          Texts,
          NoText,       \* the null pointer
          TableSize,    \* 512 rows
          Files,        \* the game's message files: rows sorted by name
          NoMessage     \* the name "anna_no_message"

ASSUME MsgAssumption ==
    /\ Stems \subseteq Nat
    /\ NoText \notin Texts
    /\ TableSize \in Nat \ {0}

Endings == {"", "_ex", "_ex2", "_ex_"}
Names == [stem : Stems, suffix : Endings]
Rows == 0 .. TableSize - 1
Empty == [name |-> [stem |-> -1, suffix |-> ""], text |-> NoText]
MsgEntries == [name : Names, text : Texts]

VARIABLE msgpatchEntries

Used(i) == msgpatchEntries[i] # Empty
UsedRows == {i \in Rows : Used(i)}
RowsOf(name) == {i \in Rows : Used(i) /\ msgpatchEntries[i].name = name}
Highest(S) == CHOOSE i \in S : \A j \in S : j <= i

MsgInit == msgpatchEntries = [i \in Rows |-> Empty]

\* Mutant: a null text is not refused.
msgpatchAddEntryOfNull(name, text, allowDuplicate) ==
    \E i \in Rows :
      /\ ~Used(i) /\ \A j \in 0 .. i - 1 : Used(j)
      /\ allowDuplicate \/ \A j \in 0 .. i - 1 : msgpatchEntries[j].name # name
      /\ msgpatchEntries' = [msgpatchEntries EXCEPT ![i] = [name |-> name, text |-> text]]

\* Not without a text; the first row that is empty; a row of the same name before it
\* may refuse.
msgpatchAddEntry(name, text, allowDuplicate) ==
    /\ text # NoText
    /\ \E i \in Rows :
         /\ ~Used(i) /\ \A j \in 0 .. i - 1 : Used(j)
         /\ allowDuplicate \/ \A j \in 0 .. i - 1 : msgpatchEntries[j].name # name
         /\ msgpatchEntries' = [msgpatchEntries EXCEPT ![i] = [name |-> name, text |-> text]]

\* Mutant: the row is cleared and the others stay where they are.
NotShifted(i) == [msgpatchEntries EXCEPT ![i] = Empty]

\* Row i is cleared, and each row takes the next one up to the first that is empty.
\* When there is none, the last row is only cleared if it is row i itself.
Shifted(i) ==
    LET end == CHOOSE e \in i + 1 .. TableSize :
                 /\ e = TableSize \/ ~Used(e)
                 /\ \A j \in i + 1 .. e - 1 : Used(j)
    IN [j \in Rows |->
          IF j \in i .. end - 2 THEN msgpatchEntries[j + 1]
          ELSE IF j = end - 1 /\ (end < TableSize \/ j = i) THEN Empty
          ELSE msgpatchEntries[j]]

\* Mutant: the oldest row of the name is removed.
msgpatchDelEntryOldest(name) ==
    /\ RowsOf(name) # {}
    /\ msgpatchEntries' = Shifted(CHOOSE i \in RowsOf(name) : \A j \in RowsOf(name) : i <= j)

msgpatchDelEntry(name) ==
    /\ RowsOf(name) # {}
    /\ msgpatchEntries' = Shifted(Highest(RowsOf(name)))

MsgNext == \E name \in Names :
             \/ \E text \in Texts \cup {NoText}, layered \in BOOLEAN :
                  msgpatchAddEntry(name, text, layered)
             \/ msgpatchDelEntry(name)

MsgSpec == MsgInit /\ [][MsgNext]_msgpatchEntries
-----------------------------------------------------------------------------
(* The searches.                                                           *)

\* Mutant: the rows are searched from the first one on.
msgpatchSearchUp(name, checkForEx) ==
    LET skipped == checkForEx /\ name.suffix = "_ex_"
        first == CHOOSE i \in RowsOf(name) : \A j \in RowsOf(name) : i <= j
    IN [text |-> IF skipped \/ RowsOf(name) = {} THEN NoText ELSE msgpatchEntries[first].text,
        containsEx |-> IF checkForEx /\ UsedRows # {} /\ name.suffix \in {"_ex", "_ex2"}
                       THEN 1 ELSE 0]

\* containsEx is set when a used row is looked at.  "_ex2" sets it to 2 and then,
\* since "_ex" is in it too, to 1.  A name with "_ex_" in it is never found.
msgpatchSearch(name, checkForEx) ==
    LET skipped == checkForEx /\ name.suffix = "_ex_" IN
    [text |-> IF skipped \/ RowsOf(name) = {} THEN NoText
              ELSE msgpatchEntries[Highest(RowsOf(name))].text,
     containsEx |-> IF checkForEx /\ UsedRows # {} /\ name.suffix \in {"_ex", "_ex2"}
                    THEN 1 ELSE 0]

\* The order of strcmp: an ending before its extensions, '2' before '_'.
EndingOrder == <<"", "_ex", "_ex2", "_ex_">>
Rank(name) == 4 * name.stem + CHOOSE i \in 1 .. 4 : EndingOrder[i] = name.suffix

\* The game's files are sorted, as a search by bisection needs them to be.
FileOK(file) ==
    /\ Len(file) \in Nat
    /\ \A k \in 1 .. Len(file) : file[k].name \in Names /\ file[k].text # NoText
    /\ \A k \in 1 .. Len(file), l \in 1 .. Len(file) :
         k < l => Rank(file[k].name) < Rank(file[l].name)
ASSUME FilesAssumption ==
    /\ Len(Files) \in Nat /\ \A n \in 1 .. Len(Files) : FileOK(Files[n])
    /\ NoMessage \in Names

\* The bisection of one file between two rows, counted from 0.
FileSearch(file, name) ==
    LET between[range \in Nat \X Int] ==
          LET low == range[1]
              high == range[2]
              middle == (low + high) \div 2
              row == file[middle + 1]
          IN IF low > high \/ middle >= Len(file) THEN NoText
             ELSE IF Rank(name) = Rank(row.name) THEN row.text
             ELSE between[IF Rank(name) < Rank(row.name) THEN <<low, middle - 1>>
                                                         ELSE <<middle + 1, high>>]
    IN between[<<0, Len(file)>>]

VanillaSearch == [name \in Names |->
    LET from[n \in Nat] == IF n > Len(Files) THEN NoText
                           ELSE IF FileSearch(Files[n], name) # NoText
                                THEN FileSearch(Files[n], name) ELSE from[n + 1]
    IN from[1]]

\* The first of several texts that there is.
FirstOf(texts) ==
    LET found == SelectSeq(texts, LAMBDA text : text # NoText)
    IN IF found = <<>> THEN NoText ELSE Head(found)

\* The last resort is the game's own function, which is this one.
msgSearchNew(name) ==
    LET search(n) == <<msgpatchSearch(n, FALSE).text, VanillaSearch[n]>>
    IN FirstOf(search(name) \o search(NoMessage))

\* strncpy of the name without its last three characters.
Stripped(name) == [name EXCEPT !.suffix = IF @ = "_ex" THEN "" ELSE "_"]

msgSearchNoFallbackNew(name) ==
    LET patched == msgpatchSearch(name, TRUE)
        base == IF patched.containsEx > 0 THEN msgpatchSearch(Stripped(name), FALSE).text
                                          ELSE NoText
    IN FirstOf(<<patched.text, base, VanillaSearch[name]>>)
-----------------------------------------------------------------------------
(* Properties.                                                             *)

\* Types: a row is a name with a text, or empty.
MsgTypeOK == msgpatchEntries \in [Rows -> MsgEntries \cup {Empty}]

\* The rows in use are the first ones: msgpatchDelEntry closes the gap it makes, from
\* whatever row and however full the table is, so that msgpatchAddEntry, which stops at
\* the first empty row, sees every duplicate.
NoGaps == \A i \in Rows : Used(i) => \A j \in 0 .. i : Used(j)

\* The rows before the first empty one.
Count == CHOOSE n \in 0 .. TableSize : /\ n = TableSize \/ ~Used(n)
                                      /\ \A j \in 0 .. n - 1 : Used(j)
TextList == [i \in 1 .. Count |-> msgpatchEntries[i - 1]]
List == INSTANCE MsgList WITH msgTexts <- TextList, Capacity <- TableSize

\* The table is a list of texts, added at its end and removed from the last of a name, as
\* the comments of msgpatchAddEntry (91) and msgpatchDelEntry (126, 153) say: the row that
\* was copied up is no longer in its old place.
TableIsList == List!Spec

\* It is, from any table with a free row: the old place of the last text is then cleared,
\* whatever row was removed.
TableIsListWhenNotFull ==
    /\ List!Init
    /\ [][Count < TableSize => List!Next]_TextList

InFiles == [name \in Names |->
    LET has == {n \in 1 .. Len(Files) : \E k \in 1 .. Len(Files[n]) : Files[n][k].name = name}
        file == CHOOSE n \in has : \A m \in has : n <= m
    IN IF has = {} THEN NoText
       ELSE (CHOOSE row \in {Files[file][k] : k \in 1 .. Len(Files[file])} : row.name = name).text]

\* The newest text in the table for a name.
NewestText(name) ==
    LET rows == {i \in 1 .. Len(TextList) : TextList[i].name = name}
    IN IF rows = {} THEN NoText ELSE TextList[Highest(rows)].text

Stem(name) == [name EXCEPT !.suffix = ""]

\* What the game shows for a name is the newest text added for it, and its own text only
\* where there is none.  A search that falls back never comes back without a text.  The
\* search without fallback shows a name with the ending "_ex" the text of its stem before
\* the game's; one with the ending "_ex2" has its own text or the game's, never that of
\* its stem; and nothing that is added for a name with "_ex_" in it is shown by it.
NewestTextShown ==
    \A name \in Names :
      LET own == IF name.suffix = "_ex_" THEN NoText ELSE NewestText(name)
          stem == IF name.suffix = "_ex" THEN NewestText(Stem(name)) ELSE NoText
      IN /\ msgSearchNew(name) =
              FirstOf(<<NewestText(name), InFiles[name],
                      NewestText(NoMessage), InFiles[NoMessage]>>)
         /\ msgSearchNoFallbackNew(name) = FirstOf(<<own, stem, InFiles[name]>>)

\* A text added for a stem is shown for the names that differ from it by "_ex" or "_ex2"
\* and have no text of their own, as the comment at 73-75 says.
EndingsHandled ==
    \A name \in Names :
      /\ name.suffix \in {"_ex", "_ex2"}
      /\ NewestText(name) = NoText /\ NewestText(Stem(name)) # NoText
      => msgSearchNoFallbackNew(name) = NewestText(Stem(name))
=============================================================================
