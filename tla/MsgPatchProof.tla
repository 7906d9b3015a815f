---------------------------- MODULE MsgPatchProof -----------------------------
(***************************************************************************)
(* Theorems about the table of replaced messages, for any number of rows,  *)
(* names and texts: its rows never have a gap, and while a row is free it  *)
(* is the list of texts that module MsgList describes.                     *)
(***************************************************************************)
EXTENDS MsgPatch, NatRecursion, SequenceTheorems

-----------------------------------------------------------------------------
(* The largest of some numbers.                                            *)

\* Highest is the largest of some numbers that have a bound.
LEMMA HighestOf ==
    ASSUME NEW S \in SUBSET Nat, S # {}, NEW b \in Nat, \A i \in S : i <= b
    PROVE  Highest(S) \in S /\ \A j \in S : j <= Highest(S)
<1> DEFINE D == {b - i : i \in S}
<1>1. D \in SUBSET Nat /\ D # {}
  <2>1. \A i \in S : i \in Nat /\ b - i \in Nat
    OBVIOUS
  <2>2. PICK i \in S : TRUE
    OBVIOUS
  <2>3. b - i \in D
    BY <2>2
  <2> QED BY <2>1, <2>3
<1>2. PICK d \in D : \A x \in D : d <= x
  BY <1>1, SmallestIn
<1>3. PICK i \in S : d = b - i
  BY <1>2
<1>4. \A j \in S : j <= i
  <2> SUFFICES ASSUME NEW j \in S PROVE j <= i
    OBVIOUS
  <2>1. d <= b - j
    BY <1>2
  <2> QED BY <1>3, <2>1
<1> QED BY <1>4 DEF Highest
-----------------------------------------------------------------------------
(* The rows in use.                                                        *)

TableInv == MsgTypeOK /\ NoGaps

\* Without gaps, the rows in use are those before the first empty one.
LEMMA CountOfRows ==
    ASSUME TableInv
    PROVE  /\ Count \in 0 .. TableSize
           /\ \A i \in Rows : Used(i) <=> i < Count
<1> DEFINE S == {n \in 0 .. TableSize : n = TableSize \/ ~Used(n)}
<1>1. S \in SUBSET Nat /\ S # {}
  BY MsgAssumption
<1>2. PICK n \in S : \A m \in S : n <= m
  BY <1>1, SmallestIn
<1>3. \A j \in 0 .. n - 1 : Used(j)
  <2> SUFFICES ASSUME NEW j \in 0 .. n - 1, ~Used(j) PROVE FALSE
    OBVIOUS
  <2>1. j \in S
    BY MsgAssumption
  <2> QED BY <1>2, <2>1
<1>4. /\ Count \in 0 .. TableSize
      /\ Count = TableSize \/ ~Used(Count)
      /\ \A j \in 0 .. Count - 1 : Used(j)
  BY <1>2, <1>3 DEF Count
<1>5. \A i \in Rows : i < Count => Used(i)
  BY <1>4, MsgAssumption DEF Rows
<1>6. \A i \in Rows : Used(i) => i < Count
  <2> SUFFICES ASSUME NEW i \in Rows, Used(i), ~(i < Count) PROVE FALSE
    OBVIOUS
  <2>1. Count \in 0 .. i /\ Count # TableSize
    BY <1>4, MsgAssumption DEF Rows
  <2>2. Used(Count)
    BY <2>1 DEF TableInv, NoGaps
  <2> QED BY <1>4, <2>1, <2>2
<1> QED BY <1>4, <1>5, <1>6

\* The other way round, in the state a step leads to.
LEMMA CountOfNext ==
    ASSUME NEW n \in 0 .. TableSize, \A i \in Rows : Used(i)' <=> i < n
    PROVE  Count' = n /\ NoGaps'
<1>1. \A m \in 0 .. TableSize : /\ m = TableSize \/ ~Used(m)'
                                /\ \A j \in 0 .. m - 1 : Used(j)'
                                => m = n
  <2> SUFFICES ASSUME NEW m \in 0 .. TableSize, m = TableSize \/ ~Used(m)',
                      \A j \in 0 .. m - 1 : Used(j)'
               PROVE  m = n
    OBVIOUS
  <2>1. CASE m < n
    BY <2>1, MsgAssumption DEF Rows
  <2>2. CASE n < m
    <3>1. n \in Rows /\ n \in 0 .. m - 1
      BY <2>2, MsgAssumption DEF Rows
    <3> QED BY <3>1
  <2> QED BY <2>1, <2>2, MsgAssumption
<1>2. n = TableSize \/ ~Used(n)'
  BY MsgAssumption DEF Rows
<1>3. \A j \in 0 .. n - 1 : Used(j)'
  BY MsgAssumption DEF Rows
<1>4. Count' = n
  BY <1>1, <1>2, <1>3 DEF Count
<1>5. NoGaps'
  BY MsgAssumption DEF NoGaps, Rows
<1> QED BY <1>4, <1>5

\* No entry is the empty row.
LEMMA EntryIsNotEmpty == Empty \notin MsgEntries
BY MsgAssumption DEF MsgEntries, Empty

\* A new entry takes the first empty row, which is the one after those in use.
LEMMA AddTakesNextRow ==
    ASSUME TableInv, NEW name \in Names, NEW text \in Texts \cup {NoText},
           NEW layered \in BOOLEAN, msgpatchAddEntry(name, text, layered)
    PROVE  /\ text \in Texts /\ Count < TableSize
           /\ layered \/ \A j \in 0 .. Count - 1 : msgpatchEntries[j].name # name
           /\ msgpatchEntries' = [msgpatchEntries EXCEPT ![Count] = [name |-> name, text |-> text]]
<1>1. Count \in 0 .. TableSize /\ \A i \in Rows : Used(i) <=> i < Count
  BY CountOfRows
<1>2. PICK i \in Rows :
         /\ ~Used(i) /\ \A j \in 0 .. i - 1 : Used(j)
         /\ layered \/ \A j \in 0 .. i - 1 : msgpatchEntries[j].name # name
         /\ msgpatchEntries' = [msgpatchEntries EXCEPT ![i] = [name |-> name, text |-> text]]
  BY DEF msgpatchAddEntry
<1>3. i = Count
  <2>1. ~(i < Count)
    BY <1>1, <1>2
  <2>2. ~(Count < i)
    <3> SUFFICES ASSUME Count < i PROVE FALSE
      OBVIOUS
    <3>1. Count \in 0 .. i - 1 /\ Count \in Rows
      BY <1>1, MsgAssumption DEF Rows
    <3> QED BY <1>1, <1>2, <3>1
  <2> QED BY <1>1, <2>1, <2>2, MsgAssumption DEF Rows
<1>4. text \in Texts
  BY DEF msgpatchAddEntry
<1> QED BY <1>2, <1>3, <1>4, MsgAssumption DEF Rows

\* A row that is removed from a table without gaps: the ones after it move up, and only
\* when the table is full and it was not the last one the last one stays as well.
LEMMA ShiftedRows ==
    ASSUME TableInv, NEW i \in Rows, i < Count
    PROVE  \A j \in Rows :
             Shifted(i)[j] = IF j < i THEN msgpatchEntries[j]
                             ELSE IF j < Count - 1 THEN msgpatchEntries[j + 1]
                             ELSE IF j = Count - 1 /\ Count = TableSize /\ j # i
                                  THEN msgpatchEntries[j] ELSE Empty
<1>1. Count \in 0 .. TableSize /\ \A j \in Rows : Used(j) <=> j < Count
  BY CountOfRows
<1> DEFINE end == CHOOSE e \in i + 1 .. TableSize :
                    /\ e = TableSize \/ ~Used(e)
                    /\ \A j \in i + 1 .. e - 1 : Used(j)
<1>2. Count \in i + 1 .. TableSize
  BY <1>1 DEF Rows
<1>3. Count = TableSize \/ ~Used(Count)
  BY <1>1, MsgAssumption DEF Rows
<1>4. \A j \in i + 1 .. Count - 1 : Used(j)
  BY <1>1, MsgAssumption DEF Rows
<1>5. /\ end \in i + 1 .. TableSize
      /\ end = TableSize \/ ~Used(end)
      /\ \A j \in i + 1 .. end - 1 : Used(j)
  BY <1>2, <1>3, <1>4
<1>6. end = Count
  <2> HIDE DEF end
  <2>1. ~(end < Count)
    BY <1>1, <1>5, MsgAssumption DEF Rows
  <2>2. ~(Count < end)
    <3> SUFFICES ASSUME Count < end PROVE FALSE
      OBVIOUS
    <3>1. Count \in i + 1 .. end - 1 /\ Count \in Rows
      BY <1>1, <1>2, <1>5, MsgAssumption DEF Rows
    <3> QED BY <1>1, <1>5, <3>1
  <2> QED BY <1>1, <1>5, <2>1, <2>2, MsgAssumption DEF Rows
<1>7. Shifted(i) = [j \in Rows |->
         IF j \in i .. end - 2 THEN msgpatchEntries[j + 1]
         ELSE IF j = end - 1 /\ (end < TableSize \/ j = i) THEN Empty
         ELSE msgpatchEntries[j]]
  BY DEF Shifted
<1>8. \A j \in Rows : j >= Count => msgpatchEntries[j] = Empty
  BY <1>1 DEF Rows, Used
<1> SUFFICES ASSUME NEW j \in Rows
             PROVE  Shifted(i)[j] = IF j < i THEN msgpatchEntries[j]
                             ELSE IF j < Count - 1 THEN msgpatchEntries[j + 1]
                             ELSE IF j = Count - 1 /\ Count = TableSize /\ j # i
                                  THEN msgpatchEntries[j] ELSE Empty
  OBVIOUS
<1>9. Shifted(i)[j] = IF j \in i .. Count - 2 THEN msgpatchEntries[j + 1]
                      ELSE IF j = Count - 1 /\ (Count < TableSize \/ j = i) THEN Empty
                      ELSE msgpatchEntries[j]
  BY <1>6, <1>7
<1> QED BY <1>1, <1>2, <1>8, <1>9, MsgAssumption DEF Rows
-----------------------------------------------------------------------------
(* What the operations do to the rows in use.                              *)

LEMMA AddGrows ==
    ASSUME TableInv, NEW name \in Names, NEW text \in Texts \cup {NoText},
           NEW layered \in BOOLEAN, msgpatchAddEntry(name, text, layered)
    PROVE  MsgTypeOK' /\ NoGaps' /\ Count' = Count + 1
<1> DEFINE new == [name |-> name, text |-> text]
<1>1. Count \in 0 .. TableSize /\ \A i \in Rows : Used(i) <=> i < Count
  BY CountOfRows
<1>2. /\ text \in Texts /\ Count < TableSize
      /\ msgpatchEntries' = [msgpatchEntries EXCEPT ![Count] = new]
  BY AddTakesNextRow
<1>3. new \in MsgEntries /\ new # Empty
  BY <1>2, EntryIsNotEmpty DEF MsgEntries
<1>4. MsgTypeOK'
  BY <1>2, <1>3 DEF TableInv, MsgTypeOK
<1>5. Count \in Rows
  BY <1>1, <1>2, MsgAssumption DEF Rows
<1>6. \A i \in Rows : Used(i)' <=> i < Count + 1
  <2> SUFFICES ASSUME NEW i \in Rows PROVE Used(i)' <=> i < Count + 1
    OBVIOUS
  <2> HIDE DEF new
  <2>1. msgpatchEntries'[i] = IF i = Count THEN new ELSE msgpatchEntries[i]
    BY <1>2, <1>5 DEF TableInv, MsgTypeOK
  <2>2. CASE i = Count
    BY <2>1, <2>2, <1>1, <1>3 DEF Used, Rows
  <2>3. CASE i # Count
    BY <2>1, <2>3, <1>1, MsgAssumption DEF Used, Rows
  <2> QED BY <2>2, <2>3
<1>7. Count + 1 \in 0 .. TableSize
  BY <1>1, <1>2, MsgAssumption
<1> QED BY <1>4, <1>6, <1>7, CountOfNext

\* The row msgpatchDelEntry removes is the last one of the name.
LEMMA RowOfName ==
    ASSUME TableInv, NEW name \in Names, RowsOf(name) # {}
    PROVE  LET i == Highest(RowsOf(name))
           IN i \in RowsOf(name) /\ i < Count /\ \A j \in RowsOf(name) : j <= i
<1>1. RowsOf(name) \in SUBSET Nat /\ \A i \in RowsOf(name) : i <= TableSize
  BY MsgAssumption DEF RowsOf, Rows
<1>2. /\ Highest(RowsOf(name)) \in RowsOf(name)
      /\ \A j \in RowsOf(name) : j <= Highest(RowsOf(name))
  BY <1>1, HighestOf, MsgAssumption
<1> QED BY <1>2, CountOfRows DEF RowsOf

LEMMA DelShrinks ==
    ASSUME TableInv, NEW name \in Names, msgpatchDelEntry(name)
    PROVE  LET i == Highest(RowsOf(name))
               m == IF Count = TableSize /\ i < Count - 1 THEN Count ELSE Count - 1
           IN /\ MsgTypeOK' /\ NoGaps' /\ Count' = m
              /\ \A j \in 0 .. m - 1 :
                   msgpatchEntries'[j] = IF j < i THEN msgpatchEntries[j]
                                         ELSE IF j < Count - 1 THEN msgpatchEntries[j + 1]
                                         ELSE msgpatchEntries[Count - 1]
<1> DEFINE i == Highest(RowsOf(name))
           m == IF Count = TableSize /\ i < Count - 1 THEN Count ELSE Count - 1
<1>1. Count \in 0 .. TableSize /\ \A j \in Rows : Used(j) <=> j < Count
  BY CountOfRows
<1>2. i \in Rows /\ i < Count
  BY RowOfName DEF msgpatchDelEntry, RowsOf
<1>3. msgpatchEntries' = Shifted(i)
  BY DEF msgpatchDelEntry
<1> HIDE DEF i
<1>4. \A j \in Rows :
         msgpatchEntries'[j] = IF j < i THEN msgpatchEntries[j]
                               ELSE IF j < Count - 1 THEN msgpatchEntries[j + 1]
                               ELSE IF j = Count - 1 /\ Count = TableSize /\ j # i
                                    THEN msgpatchEntries[j] ELSE Empty
  BY <1>2, <1>3, ShiftedRows
<1>5. MsgTypeOK'
  <2>1. DOMAIN msgpatchEntries' = Rows /\ msgpatchEntries' = [j \in Rows |-> msgpatchEntries'[j]]
    BY <1>3 DEF Shifted
  <2>2. \A j \in Rows : j < Count - 1 => j + 1 \in Rows
    BY <1>1, MsgAssumption DEF Rows
  <2>3. \A j \in Rows : msgpatchEntries'[j] \in MsgEntries \cup {Empty}
    BY <1>4, <2>2 DEF TableInv, MsgTypeOK
  <2> QED BY <2>1, <2>3 DEF MsgTypeOK
<1>6. \A j \in Rows : Used(j)' <=> j < m
  <2> SUFFICES ASSUME NEW j \in Rows PROVE Used(j)' <=> j < m
    OBVIOUS
  <2>1. CASE j < i
    BY <1>1, <1>2, <1>4, <2>1, MsgAssumption DEF Used, Rows
  <2>2. CASE ~(j < i) /\ j < Count - 1
    BY <1>1, <1>2, <1>4, <2>2, MsgAssumption DEF Used, Rows
  <2>3. CASE ~(j < i) /\ ~(j < Count - 1)
    BY <1>1, <1>2, <1>4, <2>3, MsgAssumption DEF Used, Rows
  <2> QED BY <2>1, <2>2, <2>3
<1>7. m \in 0 .. TableSize
  BY <1>1, <1>2, MsgAssumption DEF Rows
<1>8. Count' = m /\ NoGaps'
  <2> HIDE DEF m
  <2> QED BY <1>6, <1>7, CountOfNext
<1>9. \A j \in 0 .. m - 1 :
         msgpatchEntries'[j] = IF j < i THEN msgpatchEntries[j]
                               ELSE IF j < Count - 1 THEN msgpatchEntries[j + 1]
                               ELSE msgpatchEntries[Count - 1]
  BY <1>1, <1>2, <1>4, MsgAssumption DEF Rows
<1> QED BY <1>5, <1>8, <1>9 DEF i
-----------------------------------------------------------------------------
LEMMA TableInvHolds == MsgSpec => []TableInv
<1>1. MsgInit => TableInv
  BY DEF MsgInit, TableInv, MsgTypeOK, NoGaps, Used
<1>2. TableInv /\ [MsgNext]_msgpatchEntries => TableInv'
  <2> SUFFICES ASSUME TableInv, [MsgNext]_msgpatchEntries PROVE TableInv'
    OBVIOUS
  <2>1. ASSUME NEW name \in Names, NEW text \in Texts \cup {NoText}, NEW layered \in BOOLEAN,
               msgpatchAddEntry(name, text, layered)
        PROVE  TableInv'
    BY <2>1, AddGrows DEF TableInv
  <2>2. ASSUME NEW name \in Names, msgpatchDelEntry(name)
        PROVE  TableInv'
    BY <2>2, DelShrinks DEF TableInv
  <2>3. CASE UNCHANGED msgpatchEntries
    BY <2>3 DEF TableInv, MsgTypeOK, NoGaps, Used
  <2> QED BY <2>1, <2>2, <2>3 DEF MsgNext
<1> QED BY <1>1, <1>2, PTL DEF MsgSpec

\* A row of the table is an entry or empty.
THEOREM MsgTypeCorrect == MsgSpec => []MsgTypeOK
<1>1. TableInv => MsgTypeOK
  BY DEF TableInv
<1> QED BY <1>1, TableInvHolds, PTL

\* msgpatchDelEntry closes the gap it makes, in a table of any size and however full: the
\* rows in use are always the first ones.
THEOREM NoGapsCorrect == MsgSpec => []NoGaps
<1>1. TableInv => NoGaps
  BY DEF TableInv
<1> QED BY <1>1, TableInvHolds, PTL
-----------------------------------------------------------------------------
(* The table is a list.                                                    *)

LEMMA TextListRows ==
    ASSUME TableInv
    PROVE  /\ TextList \in Seq(MsgEntries) /\ Len(TextList) = Count
           /\ \A k \in 1 .. Count : TextList[k] = msgpatchEntries[k - 1]
<1>1. Count \in 0 .. TableSize /\ \A j \in Rows : Used(j) <=> j < Count
  BY CountOfRows
<1>2. \A k \in 1 .. Count : msgpatchEntries[k - 1] \in MsgEntries
  <2> SUFFICES ASSUME NEW k \in 1 .. Count PROVE msgpatchEntries[k - 1] \in MsgEntries
    OBVIOUS
  <2>1. k - 1 \in Rows /\ Used(k - 1)
    BY <1>1, MsgAssumption DEF Rows
  <2> QED BY <2>1 DEF TableInv, MsgTypeOK, Used
<1>3. TextList \in [1 .. Count -> MsgEntries]
  BY <1>2 DEF TextList
<1> QED BY <1>1, <1>3, MsgAssumption DEF TextList

\* A name's last text is in its last row.
LEMMA PositionsAreRows ==
    ASSUME TableInv, NEW name \in Names
    PROVE  /\ List!Positions(name) = {} <=> RowsOf(name) = {}
           /\ RowsOf(name) # {} => List!LastPosition(name) = Highest(RowsOf(name)) + 1
<1>1. Count \in 0 .. TableSize /\ \A j \in Rows : Used(j) <=> j < Count
  BY CountOfRows
<1>2. \A k \in 1 .. Count : k \in List!Positions(name) <=> k - 1 \in RowsOf(name)
  <2> SUFFICES ASSUME NEW k \in 1 .. Count
               PROVE  k \in List!Positions(name) <=> k - 1 \in RowsOf(name)
    OBVIOUS
  <2>1. k - 1 \in Rows /\ Used(k - 1) /\ TextList[k] = msgpatchEntries[k - 1]
    BY <1>1, TextListRows, MsgAssumption DEF Rows
  <2> QED BY <2>1, TextListRows DEF List!Positions, RowsOf
<1>3. List!Positions(name) \subseteq 1 .. Count
  BY TextListRows DEF List!Positions
<1>4. \A j \in RowsOf(name) : j + 1 \in 1 .. Count /\ j \in Nat
  BY <1>1, MsgAssumption DEF RowsOf, Rows
<1>5. \A j \in RowsOf(name) : j + 1 \in List!Positions(name)
  BY <1>2, <1>4
<1>6. ASSUME RowsOf(name) # {}
      PROVE  List!LastPosition(name) = Highest(RowsOf(name)) + 1
  <2> DEFINE i == Highest(RowsOf(name))
  <2>1. i \in RowsOf(name) /\ \A j \in RowsOf(name) : j <= i
    BY <1>6, RowOfName
  <2> HIDE DEF i
  <2>2. i + 1 \in List!Positions(name)
    BY <2>1, <1>5
  <2>3. \A k \in List!Positions(name) : k <= i + 1
    <3> SUFFICES ASSUME NEW k \in List!Positions(name) PROVE k <= i + 1
      OBVIOUS
    <3>1. k \in 1 .. Count /\ k - 1 \in RowsOf(name)
      BY <1>2, <1>3
    <3>2. k - 1 <= i
      BY <2>1, <3>1
    <3> QED BY <3>1, <3>2, <2>1, <1>4
  <2>4. \A k \in List!Positions(name) :
           (\A j \in List!Positions(name) : j <= k) => k = i + 1
    <3> SUFFICES ASSUME NEW k \in List!Positions(name), \A j \in List!Positions(name) : j <= k
                 PROVE  k = i + 1
      OBVIOUS
    <3>1. k <= i + 1 /\ i + 1 <= k
      BY <2>2, <2>3
    <3> QED BY <3>1, <1>3, <2>1, <1>4
  <2>5. List!LastPosition(name) = i + 1
    BY <2>2, <2>3, <2>4 DEF List!LastPosition
  <2> QED BY <2>5 DEF i
<1> QED BY <1>2, <1>3, <1>5, <1>6

LEMMA AddIsListAdd ==
    ASSUME TableInv, NEW name \in Names, NEW text \in Texts \cup {NoText},
           NEW layered \in BOOLEAN, msgpatchAddEntry(name, text, layered)
    PROVE  text \in Texts /\ List!Add(name, text, layered)
<1> DEFINE new == [name |-> name, text |-> text]
<1>1. Count \in 0 .. TableSize /\ \A j \in Rows : Used(j) <=> j < Count
  BY CountOfRows
<1>2. /\ text \in Texts /\ Count < TableSize
      /\ layered \/ \A j \in 0 .. Count - 1 : msgpatchEntries[j].name # name
      /\ msgpatchEntries' = [msgpatchEntries EXCEPT ![Count] = new]
  BY AddTakesNextRow
<1>3. Count' = Count + 1
  BY AddGrows
<1>4. layered \/ List!Positions(name) = {}
  <2> SUFFICES ASSUME ~layered PROVE List!Positions(name) = {}
    OBVIOUS
  <2>1. RowsOf(name) = {}
    BY <1>1, <1>2, MsgAssumption DEF RowsOf, Rows
  <2> QED BY <2>1, PositionsAreRows
<1>5. TextList' = Append(TextList, new)
  <2>1. TextList' = [k \in 1 .. Count + 1 |-> msgpatchEntries'[k - 1]]
    BY <1>3 DEF TextList
  <2>2. new \in MsgEntries
    BY <1>2 DEF MsgEntries
  <2> HIDE DEF new
  <2>3. /\ Len(Append(TextList, new)) = Count + 1
        /\ Append(TextList, new) \in Seq(MsgEntries)
        /\ \A k \in 1 .. Count + 1 :
             Append(TextList, new)[k] = IF k = Count + 1 THEN new ELSE TextList[k]
    BY TextListRows, <1>1, <2>2, AppendProperties
  <2>4. \A k \in 1 .. Count + 1 :
           msgpatchEntries'[k - 1] = IF k = Count + 1 THEN new ELSE TextList[k]
    <3> SUFFICES ASSUME NEW k \in 1 .. Count + 1
                 PROVE  msgpatchEntries'[k - 1] = IF k = Count + 1 THEN new ELSE TextList[k]
      OBVIOUS
    <3>1. k - 1 \in Rows /\ Count \in Rows
      BY <1>1, <1>2, MsgAssumption DEF Rows
    <3>2. msgpatchEntries'[k - 1] = IF k - 1 = Count THEN new ELSE msgpatchEntries[k - 1]
      BY <3>1, <1>2 DEF TableInv, MsgTypeOK
    <3>3. k # Count + 1 => k \in 1 .. Count
      BY <1>1
    <3> QED BY <3>2, <3>3, <1>1, TextListRows
  <2>5. Append(TextList, new) = [k \in 1 .. Count + 1 |-> Append(TextList, new)[k]]
    BY <2>3, LenProperties
  <2> QED BY <2>1, <2>3, <2>4, <2>5
<1>6. Len(TextList) < TableSize
  BY <1>2, TextListRows
<1> QED BY <1>2, <1>4, <1>5, <1>6 DEF List!Add

LEMMA DelIsListRemove ==
    ASSUME TableInv, NEW name \in Names, msgpatchDelEntry(name), Count < TableSize
    PROVE  List!Remove(name)
<1> DEFINE i == Highest(RowsOf(name))
           n == Count
           m == IF Count = TableSize /\ i < Count - 1 THEN Count ELSE Count - 1
<1>1. n \in 0 .. TableSize
  BY CountOfRows
<1>2. i \in 0 .. n - 1 /\ RowsOf(name) # {}
  <2>1. RowsOf(name) # {} /\ i \in RowsOf(name) /\ i < n
    BY RowOfName DEF msgpatchDelEntry
  <2>2. i \in Rows
    BY <2>1 DEF RowsOf
  <2> HIDE DEF i
  <2> QED BY <1>1, <2>1, <2>2, MsgAssumption DEF Rows
<1>3. /\ Count' = m
      /\ \A j \in 0 .. m - 1 :
           msgpatchEntries'[j] = IF j < i THEN msgpatchEntries[j]
                                 ELSE IF j < n - 1 THEN msgpatchEntries[j + 1]
                                 ELSE msgpatchEntries[n - 1]
  BY DelShrinks
<1>4. /\ List!Positions(name) # {} /\ List!LastPosition(name) = i + 1
      /\ Len(TextList) = n
  BY <1>2, PositionsAreRows, TextListRows
<1>5. TextList' = [k \in 1 .. m |-> msgpatchEntries'[k - 1]]
  BY <1>3 DEF TextList
<1> DEFINE kept == List!Without(i + 1)
<1>6. kept = [k \in 1 .. n - 1 |-> TextList[IF k < i + 1 THEN k ELSE k + 1]]
  BY <1>4 DEF List!Without
<1> HIDE DEF i
<1>7. \A k \in 1 .. n - 1 :
         /\ kept[k] = IF k - 1 < i THEN msgpatchEntries[k - 1] ELSE msgpatchEntries[k]
         /\ kept[k] \in MsgEntries
  <2> SUFFICES ASSUME NEW k \in 1 .. n - 1
               PROVE  /\ kept[k] = IF k - 1 < i THEN msgpatchEntries[k - 1] ELSE msgpatchEntries[k]
                      /\ kept[k] \in MsgEntries
    OBVIOUS
  <2>1. /\ k \in 1 .. n /\ k + 1 \in 1 .. n
        /\ TextList[k] = msgpatchEntries[k - 1] /\ TextList[k + 1] = msgpatchEntries[k]
    <3>1. k \in 1 .. n /\ k + 1 \in 1 .. n /\ (k + 1) - 1 = k
      BY <1>1, MsgAssumption
    <3> QED BY <3>1, TextListRows
  <2>2. TextList[k] \in MsgEntries /\ TextList[k + 1] \in MsgEntries
    BY <2>1, TextListRows, ElementOfSeq
  <2>3. kept[k] = TextList[IF k < i + 1 THEN k ELSE k + 1]
    BY <1>6
  <2>4. k < i + 1 <=> k - 1 < i
    BY <1>1, <1>2, MsgAssumption
  <2> HIDE DEF kept
  <2> QED BY <2>1, <2>2, <2>3, <2>4
<1>8. m = n - 1
  BY <1>1, MsgAssumption
<1>9. \A k \in 1 .. n - 1 : msgpatchEntries'[k - 1] = kept[k]
  <2> SUFFICES ASSUME NEW k \in 1 .. n - 1 PROVE msgpatchEntries'[k - 1] = kept[k]
    OBVIOUS
  <2>1. k - 1 \in 0 .. m - 1 /\ (k - 1) + 1 = k /\ k - 1 < n - 1
    BY <1>1, <1>8, MsgAssumption
  <2>2. msgpatchEntries'[k - 1] = IF k - 1 < i THEN msgpatchEntries[k - 1]
                                  ELSE msgpatchEntries[k]
    <3> HIDE DEF m
    <3> QED BY <1>3, <2>1
  <2> HIDE DEF kept
  <2> QED BY <2>2, <1>7
<1>10. kept = [k \in 1 .. n - 1 |-> kept[k]]
  BY <1>6
<1> HIDE DEF kept
<1>11. TextList' = kept
  BY <1>5, <1>8, <1>9, <1>10
<1> QED BY <1>4, <1>11 DEF List!Remove, kept

\* Adding and removing rows is adding and removing texts of the list of module MsgList,
\* from any table with a free row: whatever is added and removed there, from whatever row,
\* the table then holds the texts that list holds, in its order.  (From a full table it
\* does not: see TableIsList.)
THEOREM TableIsListWhenNotFullCorrect == MsgSpec => TableIsListWhenNotFull
<1>1. MsgInit => List!Init
  <2> SUFFICES ASSUME MsgInit PROVE TextList = <<>>
    BY DEF List!Init
  <2>1. TableInv
    BY DEF MsgInit, TableInv, MsgTypeOK, NoGaps, Used
  <2>2. Count = 0
    <3>1. Count \in 0 .. TableSize /\ \A i \in Rows : Used(i) <=> i < Count
      BY <2>1, CountOfRows
    <3>2. 0 \in Rows /\ ~Used(0)
      BY MsgAssumption DEF MsgInit, Rows, Used
    <3> QED BY <3>1, <3>2, MsgAssumption
  <2> QED BY <2>1, <2>2, TextListRows, EmptySeq
<1>2. TableInv /\ [MsgNext]_msgpatchEntries => [Count < TableSize => List!Next]_TextList
  <2> SUFFICES ASSUME TableInv, [MsgNext]_msgpatchEntries, Count < TableSize
               PROVE  List!Next \/ UNCHANGED TextList
    OBVIOUS
  <2>1. ASSUME NEW name \in Names, NEW text \in Texts \cup {NoText}, NEW layered \in BOOLEAN,
               msgpatchAddEntry(name, text, layered)
        PROVE  List!Next
    BY <2>1, AddIsListAdd DEF List!Next
  <2>2. ASSUME NEW name \in Names, msgpatchDelEntry(name)
        PROVE  List!Next
    BY <2>2, DelIsListRemove DEF List!Next
  <2>3. CASE UNCHANGED msgpatchEntries
    BY <2>3 DEF TextList, Count, Used
  <2> QED BY <2>1, <2>2, <2>3 DEF MsgNext
<1> QED BY <1>1, <1>2, TableInvHolds, PTL DEF MsgSpec, TableIsListWhenNotFull

\* msgpatchSearch walks the table from its last row down, and so finds a name's last text.
LEMMA SearchIsTextOf ==
    ASSUME TableInv, NEW name \in Names
    PROVE  msgpatchSearch(name, FALSE).text = List!TextOf(name)
<1>1. CASE RowsOf(name) = {}
  BY <1>1, PositionsAreRows DEF msgpatchSearch, List!TextOf
<1>2. CASE RowsOf(name) # {}
  <2> DEFINE i == Highest(RowsOf(name))
  <2>1. i \in Rows /\ i < Count
    BY <1>2, RowOfName DEF RowsOf
  <2>2. List!Positions(name) # {} /\ List!LastPosition(name) = i + 1
    BY <1>2, PositionsAreRows
  <2> HIDE DEF i
  <2>3. TextList[i + 1] = msgpatchEntries[i]
    <3>1. i + 1 \in 1 .. Count /\ (i + 1) - 1 = i
      BY <2>1, CountOfRows, MsgAssumption DEF Rows
    <3> QED BY <3>1, TextListRows
  <2>4. msgpatchSearch(name, FALSE).text = msgpatchEntries[i].text
    BY <1>2 DEF msgpatchSearch, i
  <2> QED BY <2>2, <2>3, <2>4 DEF List!TextOf
<1> QED BY <1>1, <1>2

\* What msgpatchSearch finds for a name is what the list says: the newest text of that
\* name, or none.
THEOREM SearchFindsListText ==
    MsgSpec => [](\A name \in Names : msgpatchSearch(name, FALSE).text = List!TextOf(name))
<1>1. TableInv => \A name \in Names : msgpatchSearch(name, FALSE).text = List!TextOf(name)
  BY SearchIsTextOf
<1> QED BY <1>1, TableInvHolds, PTL
-----------------------------------------------------------------------------
(* The bisection of a file.                                                *)

\* The order of strcmp tells the names apart.
LEMMA RankTellsApart ==
    ASSUME NEW name \in Names, NEW other \in Names
    PROVE  Rank(name) \in Nat /\ (Rank(name) = Rank(other) => name = other)
<1>1. /\ name.stem \in Nat /\ name.suffix \in Endings
      /\ name = [stem |-> name.stem, suffix |-> name.suffix]
  BY MsgAssumption DEF Names
<1>2. /\ other.stem \in Nat /\ other.suffix \in Endings
      /\ other = [stem |-> other.stem, suffix |-> other.suffix]
  BY MsgAssumption DEF Names
<1> DEFINE At(n) == CHOOSE i \in 1 .. 4 : EndingOrder[i] = n.suffix
<1>3. \A n \in {name, other} : At(n) \in 1 .. 4 /\ EndingOrder[At(n)] = n.suffix
  <2> SUFFICES ASSUME NEW n \in {name, other}
               PROVE  \E i \in 1 .. 4 : EndingOrder[i] = n.suffix
    OBVIOUS
  <2>1. /\ EndingOrder[1] = "" /\ EndingOrder[2] = "_ex"
        /\ EndingOrder[3] = "_ex2" /\ EndingOrder[4] = "_ex_"
    BY DEF EndingOrder
  <2>2. n.suffix = "" \/ n.suffix = "_ex" \/ n.suffix = "_ex2" \/ n.suffix = "_ex_"
    BY <1>1, <1>2 DEF Endings
  <2>3. 1 \in 1 .. 4 /\ 2 \in 1 .. 4 /\ 3 \in 1 .. 4 /\ 4 \in 1 .. 4
    OBVIOUS
  <2> QED BY <2>1, <2>2, <2>3, Zenon
<1>4. Rank(name) = 4 * name.stem + At(name) /\ Rank(other) = 4 * other.stem + At(other)
  BY DEF Rank
<1> HIDE DEF At
<1>5. Rank(name) \in Nat
  BY <1>1, <1>3, <1>4
<1>6. Rank(name) = Rank(other) => name.stem = other.stem /\ At(name) = At(other)
  BY <1>1, <1>2, <1>3, <1>4
<1>7. At(name) = At(other) => name.suffix = other.suffix
  BY <1>3
<1> QED BY <1>1, <1>2, <1>5, <1>6, <1>7

\* One round of the bisection, when g is what the rest of it finds.
Halving(file, name, g) == [range \in Nat \X Int |->
    LET low == range[1]
        high == range[2]
        middle == (low + high) \div 2
        row == file[middle + 1]
    IN IF low > high \/ middle >= Len(file) THEN NoText
       ELSE IF Rank(name) = Rank(row.name) THEN row.text
       ELSE g[IF Rank(name) < Rank(row.name) THEN <<low, middle - 1>> ELSE <<middle + 1, high>>]]

\* The range gets shorter in every round, so that the search has an end.
LEMMA BisectionEnds ==
    ASSUME NEW file, FileOK(file), NEW name \in Names
    PROVE  \E g : g = Halving(file, name, g) /\ FileSearch(file, name) = g[<<0, Len(file)>>]
<1> DEFINE D == Nat \X Int
           Mid(d) == (d[1] + d[2]) \div 2
           Over(d) == d[1] > d[2] \/ Mid(d) >= Len(file)
           Row(d) == file[Mid(d) + 1]
           Stops == {d \in D : Over(d) \/ Rank(name) = Rank(Row(d).name)}
           Found == [d \in D |-> IF Over(d) THEN NoText ELSE Row(d).text]
           X == {Found[d] : d \in D}
           On(d) == IF Rank(name) < Rank(Row(d).name) THEN <<d[1], Mid(d) - 1>>
                                                      ELSE <<Mid(d) + 1, d[2]>>
           Next == [d \in D |-> IF d \in Stops THEN d ELSE On(d)]
           Left == [d \in D |-> IF d[2] >= d[1] THEN d[2] - d[1] + 1 ELSE 0]
<1>1. \A d \in D : d[1] \in Nat /\ d[2] \in Int /\ d = <<d[1], d[2]>> /\ Mid(d) \in Int
  OBVIOUS
<1>2. \A d \in D : d[1] <= d[2] => d[1] <= Mid(d) /\ Mid(d) <= d[2]
  OBVIOUS
<1> HIDE DEF Mid
<1>3. \A d \in D \ Stops : On(d) \in D
  BY <1>1, <1>2
<1>4. Next \in [D -> D]
  BY <1>3
<1>5. Left \in [D -> Nat]
  BY <1>1
<1>6. \A d \in D \ Stops : Left[Next[d]] < Left[d]
  <2> SUFFICES ASSUME NEW d \in D, d \notin Stops PROVE Left[On(d)] < Left[d]
    OBVIOUS
  <2>1. d[1] \in Nat /\ d[2] \in Int /\ Mid(d) \in Int /\ d[1] <= Mid(d) /\ Mid(d) <= d[2]
    BY <1>1, <1>2
  <2>2. On(d) \in D
    BY <1>3
  <2>3. CASE Rank(name) < Rank(Row(d).name)
    <3>1. On(d)[1] = d[1] /\ On(d)[2] = Mid(d) - 1
      BY <2>3
    <3> HIDE DEF On, Stops
    <3> QED BY <2>1, <2>2, <3>1
  <2>4. CASE ~(Rank(name) < Rank(Row(d).name))
    <3>1. On(d)[1] = Mid(d) + 1 /\ On(d)[2] = d[2]
      BY <2>4
    <3> HIDE DEF On, Stops
    <3> QED BY <2>1, <2>2, <3>1
  <2> QED BY <2>3, <2>4
<1>7. Stops \in SUBSET D /\ Found \in [D -> X]
  OBVIOUS
<1> HIDE DEF D, Stops, Found, X, Next, Left
<1>8. PICK g : Searches(g, D, X, Stops, Found, Next)
  BY <1>4, <1>5, <1>6, <1>7, FunctionBySearch
<1>9. g = [d \in D |-> IF d \in Stops THEN Found[d] ELSE g[Next[d]]]
  BY <1>8 DEF Searches
<1>10. \A d \in D : (IF d \in Stops THEN Found[d] ELSE g[Next[d]]) =
                     IF Over(d) THEN NoText
                     ELSE IF Rank(name) = Rank(Row(d).name) THEN Row(d).text
                     ELSE g[On(d)]
  <2> HIDE DEF On, Over, Row
  <2> QED BY DEF Stops, Found, Next
<1>11. g = [d \in D |-> IF Over(d) THEN NoText
                        ELSE IF Rank(name) = Rank(Row(d).name) THEN Row(d).text
                        ELSE g[On(d)]]
  <2> HIDE DEF On, Over, Row
  <2> QED BY <1>9, <1>10
<1>12. g = Halving(file, name, g)
  BY <1>11 DEF Halving, D, Mid
<1> DEFINE h == CHOOSE f : f = Halving(file, name, f)
<1>13. h = Halving(file, name, h)
  BY <1>12
<1>14. FileSearch(file, name) = h[<<0, Len(file)>>]
  BY DEF FileSearch, Halving
<1> QED BY <1>13, <1>14

\* The rows of a range that have a name, counted from 0 as the code does.
Between(file, name, low, high) ==
    {k \in 1 .. Len(file) : low <= k - 1 /\ k - 1 <= high /\ file[k].name = name}

\* t is the text of the rows in S, or none when there are none.
IsTextAt(t, file, S) == /\ S = {} => t = NoText
                        /\ \A k \in S : t = file[k].text

\* A round of the bisection leaves out only rows that do not have the name.
LEMMA BisectionRound ==
    ASSUME NEW file, FileOK(file), NEW name \in Names, NEW g, g = Halving(file, name, g),
           NEW low \in Nat, NEW high \in Int, high <= Len(file),
           \A l \in Nat, h \in Int : h <= Len(file) /\ h - l < high - low /\ low <= high
               => IsTextAt(g[<<l, h>>], file, Between(file, name, l, h))
    PROVE  IsTextAt(g[<<low, high>>], file, Between(file, name, low, high))
<1> DEFINE middle == (low + high) \div 2
           row == file[middle + 1]
           next == IF Rank(name) < Rank(row.name) THEN <<low, middle - 1>> ELSE <<middle + 1, high>>
           S == Between(file, name, low, high)
<1>1. g[<<low, high>>] = IF low > high \/ middle >= Len(file) THEN NoText
                         ELSE IF Rank(name) = Rank(row.name) THEN row.text
                         ELSE g[next]
  <2>1. <<low, high>> \in Nat \X Int
    OBVIOUS
  <2>2. Halving(file, name, g)[<<low, high>>] =
           IF low > high \/ middle >= Len(file) THEN NoText
           ELSE IF Rank(name) = Rank(row.name) THEN row.text
           ELSE g[next]
    BY <2>1 DEF Halving
  <2> QED BY <2>2
<1>2. Len(file) \in Nat /\ middle \in Int
  BY DEF FileOK
<1>3. low <= high => low <= middle /\ middle <= high
  OBVIOUS
<1>4. middle >= Len(file) /\ low <= high => low >= Len(file)
  BY <1>2
<1> HIDE DEF middle
<1>5. CASE low > high \/ middle >= Len(file)
  <2>1. S = {}
    BY <1>2, <1>4, <1>5 DEF Between
  <2> QED BY <1>1, <1>5, <2>1 DEF IsTextAt
<1>6. CASE ~(low > high \/ middle >= Len(file))
  <2>1. low <= middle /\ middle <= high /\ middle + 1 \in 1 .. Len(file) /\ middle \in Nat
    BY <1>2, <1>3, <1>6
  <2>2. row.name \in Names
    BY <2>1 DEF FileOK
  <2>3. \A k \in S : k \in 1 .. Len(file) /\ low <= k - 1 /\ k - 1 <= high /\ file[k].name = name
    BY DEF Between
  <2>4. \A k \in 1 .. Len(file) : /\ k < middle + 1 => Rank(file[k].name) < Rank(row.name)
                                  /\ middle + 1 < k => Rank(row.name) < Rank(file[k].name)
    BY <2>1 DEF FileOK
  <2>5. Rank(name) \in Nat /\ Rank(row.name) \in Nat
    BY <2>2, RankTellsApart
  <2> HIDE DEF S
  <2>6. CASE Rank(name) = Rank(row.name)
    <3>1. name = row.name
      BY <2>2, <2>6, RankTellsApart
    <3>2. middle + 1 \in S
      BY <1>2, <2>1, <3>1 DEF Between, S
    <3>3. \A k \in S : k = middle + 1
      <4> SUFFICES ASSUME NEW k \in S PROVE k = middle + 1
        OBVIOUS
      <4>1. k \in 1 .. Len(file) /\ Rank(file[k].name) = Rank(row.name)
        BY <2>3, <2>6
      <4> HIDE DEF row
      <4>2. ~(k < middle + 1) /\ ~(middle + 1 < k)
        BY <2>4, <2>5, <4>1
      <4> QED BY <1>2, <2>1, <4>1, <4>2
    <3>4. g[<<low, high>>] = file[middle + 1].text
      BY <1>1, <1>6, <2>6
    <3>5. \A k \in S : g[<<low, high>>] = file[k].text
      BY <3>3, <3>4
    <3> QED BY <3>2, <3>5 DEF IsTextAt, S
  <2>7. CASE Rank(name) < Rank(row.name)
    <3>1. \A k \in S : k - 1 <= middle - 1
      BY <1>2, <2>1, <2>3, <2>4, <2>5, <2>7
    <3>2. Between(file, name, low, middle - 1) = S
      <4>1. \A k \in Between(file, name, low, middle - 1) : k \in S
        BY <1>2, <2>1 DEF Between, S
      <4>2. \A k \in S : k \in Between(file, name, low, middle - 1)
        BY <2>3, <3>1 DEF Between
      <4> QED BY <4>1, <4>2
    <3>3. IsTextAt(g[<<low, middle - 1>>], file, Between(file, name, low, middle - 1))
      BY <1>2, <1>6, <2>1
    <3>4. g[<<low, high>>] = g[<<low, middle - 1>>]
      BY <1>1, <1>6, <2>5, <2>7
    <3> QED BY <3>2, <3>3, <3>4 DEF S
  <2>8. CASE Rank(row.name) < Rank(name)
    <3>1. \A k \in S : middle + 1 <= k - 1
      BY <1>2, <2>1, <2>3, <2>4, <2>5, <2>8
    <3>2. Between(file, name, middle + 1, high) = S
      <4>1. \A k \in Between(file, name, middle + 1, high) : k \in S
        BY <1>2, <2>1 DEF Between, S
      <4>2. \A k \in S : k \in Between(file, name, middle + 1, high)
        BY <2>3, <3>1 DEF Between
      <4> QED BY <4>1, <4>2
    <3>3. IsTextAt(g[<<middle + 1, high>>], file, Between(file, name, middle + 1, high))
      BY <1>2, <1>6, <2>1
    <3>4. g[<<low, high>>] = g[<<middle + 1, high>>]
      BY <1>1, <1>6, <2>5, <2>8
    <3> QED BY <3>2, <3>3, <3>4 DEF S
  <2> QED BY <2>5, <2>6, <2>7, <2>8
<1> QED BY <1>5, <1>6

\* The bisection of a sorted file finds the row of a name if there is one.
LEMMA BisectionFinds ==
    ASSUME NEW file, FileOK(file), NEW name \in Names
    PROVE  IsTextAt(FileSearch(file, name), file, {k \in 1 .. Len(file) : file[k].name = name})
<1>1. PICK g : g = Halving(file, name, g) /\ FileSearch(file, name) = g[<<0, Len(file)>>]
  BY BisectionEnds
<1> DEFINE Holds(l, h) == IsTextAt(g[<<l, h>>], file, Between(file, name, l, h))
           S == {n \in Nat : \A l \in Nat, h \in Int : h <= Len(file) /\ h - l < n => Holds(l, h)}
<1>2. Len(file) \in Nat
  BY DEF FileOK
<1> HIDE DEF Holds
<1>3. \A l \in Nat, h \in Int :
         h <= Len(file) /\ (\A m \in Nat, i \in Int :
                               i <= Len(file) /\ i - m < h - l /\ l <= h => Holds(m, i))
         => Holds(l, h)
  BY <1>1, BisectionRound DEF Holds
<1>4. 0 \in S
  BY <1>2, <1>3
<1>5. ASSUME NEW n \in S PROVE n + 1 \in S
  BY <1>2, <1>3, <1>5
<1>6. Len(file) + 1 \in S
  <2> HIDE DEF S
  <2>1. S \in SUBSET Nat
    BY DEF S
  <2>2. S = Nat
    BY <1>4, <1>5, <2>1, SetInduction
  <2> QED BY <1>2, <2>2
<1>7. Holds(0, Len(file))
  BY <1>2, <1>6
<1>8. Between(file, name, 0, Len(file)) = {k \in 1 .. Len(file) : file[k].name = name}
  BY <1>2 DEF Between
<1> QED BY <1>1, <1>7, <1>8 DEF Holds
-----------------------------------------------------------------------------
(* The files one after the other.                                          *)

\* What the files after the first few of them give, when g is what the rest gives.
Onward(name, g) == [n \in Nat |-> IF n > Len(Files) THEN NoText
                                  ELSE IF FileSearch(Files[n], name) # NoText
                                       THEN FileSearch(Files[n], name) ELSE g[n + 1]]

LEMMA FilesEnd ==
    ASSUME NEW name \in Names
    PROVE  \E g : g = Onward(name, g) /\ VanillaSearch[name] = g[1]
<1> DEFINE T == [n \in Nat |-> FileSearch(Files[n], name)]
           X == {NoText} \cup {T[n] : n \in Nat}
           Stops == {n \in Nat : n > Len(Files) \/ T[n] # NoText}
           Found == [n \in Nat |-> IF n > Len(Files) THEN NoText ELSE T[n]]
           Next == [n \in Nat |-> n + 1]
           Left == [n \in Nat |-> IF n > Len(Files) THEN 0 ELSE Len(Files) - n + 1]
<1>1. Len(Files) \in Nat
  BY FilesAssumption
<1>2. Next \in [Nat -> Nat] /\ Left \in [Nat -> Nat] /\ Stops \in SUBSET Nat
  BY <1>1
<1>3. Found \in [Nat -> X]
  OBVIOUS
<1>4. \A n \in Nat \ Stops : Left[Next[n]] < Left[n]
  BY <1>1
<1>5. \A n \in Nat : T[n] = FileSearch(Files[n], name)
  OBVIOUS
<1> HIDE DEF T
<1>6. \A n \in Nat : (n \in Stops <=> n > Len(Files) \/ T[n] # NoText)
                    /\ Found[n] = (IF n > Len(Files) THEN NoText ELSE T[n]) /\ Next[n] = n + 1
  OBVIOUS
<1> HIDE DEF X, Stops, Found, Next, Left
<1>7. PICK g : Searches(g, Nat, X, Stops, Found, Next)
  BY <1>2, <1>3, <1>4, FunctionBySearch
<1>8. g = [n \in Nat |-> IF n > Len(Files) THEN NoText
                         ELSE IF T[n] # NoText THEN T[n] ELSE g[n + 1]]
  <2>1. g = [n \in Nat |-> g[n]]
    BY <1>7 DEF Searches
  <2>2. \A n \in Nat : g[n] = IF n > Len(Files) THEN NoText
                              ELSE IF T[n] # NoText THEN T[n] ELSE g[n + 1]
    BY <1>6, <1>7 DEF Searches
  <2> QED BY <2>1, <2>2
<1>9. g = Onward(name, g)
  BY <1>5, <1>8 DEF Onward
<1> DEFINE h == CHOOSE f : f = Onward(name, f)
<1>10. h = Onward(name, h)
  BY <1>9
<1>11. VanillaSearch[name] = h[1]
  BY DEF VanillaSearch, Onward
<1> QED BY <1>10, <1>11

\* The rows of a file that have a name; there is at most one.
Having(n, name) == {k \in 1 .. Len(Files[n]) : Files[n][k].name = name}

LEMMA HavingOne ==
    ASSUME NEW n \in 1 .. Len(Files), NEW name \in Names, NEW k \in Having(n, name)
    PROVE  /\ FileSearch(Files[n], name) = Files[n][k].text
           /\ Files[n][k].text # NoText
           /\ \A l \in Having(n, name) : l = k
<1>1. FileOK(Files[n])
  BY FilesAssumption
<1>2. FileSearch(Files[n], name) = Files[n][k].text
  BY <1>1, BisectionFinds DEF IsTextAt, Having
<1>3. Files[n][k].text # NoText
  BY <1>1 DEF FileOK, Having
<1>4. ASSUME NEW l \in Having(n, name) PROVE l = k
  <2>1. /\ k \in 1 .. Len(Files[n]) /\ l \in 1 .. Len(Files[n]) /\ Len(Files[n]) \in Nat
        /\ Rank(Files[n][k].name) = Rank(name) /\ Rank(Files[n][l].name) = Rank(name)
    BY <1>1, <1>4 DEF FileOK, Having
  <2>2. ~(k < l) /\ ~(l < k)
    <3>1. Rank(name) \in Nat
      BY RankTellsApart
    <3> QED BY <1>1, <2>1, <3>1 DEF FileOK
  <2> QED BY <2>1, <2>2
<1> QED BY <1>2, <1>3, <1>4

\* The files are searched in their order: what is shown is the text of the first file
\* that has the name.
LEMMA VanillaFindsFirst ==
    ASSUME NEW name \in Names
    PROVE  VanillaSearch[name] = InFiles[name]
<1> DEFINE T(n) == FileSearch(Files[n], name)
           Has == {n \in 1 .. Len(Files) : Having(n, name) # {}}
<1>1. Len(Files) \in Nat
  BY FilesAssumption
<1>2. PICK g : g = Onward(name, g) /\ VanillaSearch[name] = g[1]
  BY FilesEnd
<1>3. \A n \in Nat : g[n] = IF n > Len(Files) THEN NoText
                            ELSE IF T(n) # NoText THEN T(n) ELSE g[n + 1]
  BY <1>2 DEF Onward
<1>4. \A n \in 1 .. Len(Files) : n \notin Has => T(n) = NoText
  <2> SUFFICES ASSUME NEW n \in 1 .. Len(Files), n \notin Has PROVE T(n) = NoText
    OBVIOUS
  <2>1. FileOK(Files[n])
    BY FilesAssumption
  <2>2. {k \in 1 .. Len(Files[n]) : Files[n][k].name = name} = {}
    BY DEF Having
  <2> QED BY <2>1, <2>2, BisectionFinds DEF IsTextAt
<1> HIDE DEF T
\* Files without the name are passed over.
<1>5. ASSUME NEW m \in 1 .. Len(Files) + 1, \A n \in 1 .. m - 1 : n \notin Has
      PROVE  g[1] = g[m]
  <2> DEFINE S == {n \in Nat : n + 1 <= m => g[1] = g[n + 1]}
  <2>1. 0 \in S
    OBVIOUS
  <2>2. ASSUME NEW n \in S PROVE n + 1 \in S
    <3> SUFFICES ASSUME (n + 1) + 1 <= m PROVE g[1] = g[(n + 1) + 1]
      BY <2>2
    <3>1. n + 1 \in 1 .. m - 1 /\ n + 1 \in 1 .. Len(Files) /\ n + 1 \in Nat
      BY <1>1, <2>2
    <3>2. T(n + 1) = NoText
      BY <1>4, <1>5, <3>1
    <3>3. ~(n + 1 > Len(Files))
      BY <1>1, <3>1
    <3>4. g[n + 1] = g[(n + 1) + 1]
      BY <1>3, <3>1, <3>2, <3>3
    <3>5. g[1] = g[n + 1]
      BY <1>1, <2>2, <3>1
    <3> QED BY <3>4, <3>5
  <2>3. m - 1 \in S
    <3> HIDE DEF S
    <3>1. S \in SUBSET Nat
      BY DEF S
    <3>2. S = Nat
      BY <2>1, <2>2, <3>1, SetInduction
    <3> QED BY <1>1, <3>2
  <2> QED BY <1>1, <2>3
<1>6. CASE Has = {}
  <2>1. g[1] = g[Len(Files) + 1]
    BY <1>1, <1>5, <1>6
  <2>2. Len(Files) + 1 \in Nat /\ Len(Files) + 1 > Len(Files)
    BY <1>1
  <2>3. g[Len(Files) + 1] = NoText
    BY <1>3, <2>2
  <2>4. InFiles[name] = NoText
    <3>1. {n \in 1 .. Len(Files) : \E k \in 1 .. Len(Files[n]) : Files[n][k].name = name} = {}
      BY <1>6 DEF Having
    <3> QED BY <3>1 DEF InFiles
  <2> QED BY <1>2, <2>1, <2>3, <2>4
<1>7. CASE Has # {}
  <2> DEFINE file == CHOOSE n \in Has : \A m \in Has : n <= m
  <2>1. file \in Has /\ \A m \in Has : file <= m
    <3>1. Has \in SUBSET Nat
      BY <1>1
    <3> HIDE DEF Has
    <3>2. \E n \in Has : \A m \in Has : n <= m
      BY <1>7, <3>1, SmallestIn
    <3> QED BY <3>2
  <2>2. Has = {n \in 1 .. Len(Files) : \E k \in 1 .. Len(Files[n]) : Files[n][k].name = name}
    BY DEF Having
  <2>3. InFiles[name] = (CHOOSE row \in {Files[file][k] : k \in 1 .. Len(Files[file])} :
                           row.name = name).text
    BY <1>7, <2>2 DEF InFiles
  <2> HIDE DEF file
  <2>4. file \in 1 .. Len(Files) /\ Having(file, name) # {}
    BY <2>1
  <2>5. PICK k \in Having(file, name) : TRUE
    BY <2>4
  <2>6. T(file) = Files[file][k].text /\ T(file) # NoText
    BY <2>4, HavingOne DEF T
  <2>7. InFiles[name] = Files[file][k].text
    <3> DEFINE Texted == {Files[file][l] : l \in 1 .. Len(Files[file])}
    <3>1. Files[file][k] \in Texted /\ Files[file][k].name = name
      BY <2>5 DEF Having
    <3>2. \A row \in Texted : row.name = name => row = Files[file][k]
      <4> SUFFICES ASSUME NEW l \in 1 .. Len(Files[file]), Files[file][l].name = name
                   PROVE  Files[file][l] = Files[file][k]
        OBVIOUS
      <4>1. l \in Having(file, name)
        BY DEF Having
      <4>2. l = k
        BY <2>4, <2>5, <4>1, HavingOne
      <4> QED BY <4>2
    <3> HIDE DEF Texted
    <3>3. (CHOOSE row \in Texted : row.name = name) = Files[file][k]
      BY <3>1, <3>2
    <3> QED BY <2>3, <3>3 DEF Texted
  <2>8. g[1] = g[file]
    <3>1. \A n \in 1 .. file - 1 : n \notin Has
      BY <1>1, <2>1, <2>4
    <3>2. file \in 1 .. Len(Files) + 1
      BY <1>1, <2>4
    <3> QED BY <1>5, <3>1, <3>2
  <2>9. file \in Nat /\ ~(file > Len(Files))
    BY <1>1, <2>4
  <2>10. g[file] = T(file)
    BY <1>3, <2>6, <2>9
  <2> QED BY <1>2, <2>6, <2>7, <2>8, <2>10
<1> QED BY <1>6, <1>7
-----------------------------------------------------------------------------
(* What the game shows.                                                    *)

LEMMA SearchFindsNewest ==
    ASSUME TableInv, NEW name \in Names
    PROVE  msgpatchSearch(name, FALSE).text = NewestText(name)
<1>1. msgpatchSearch(name, FALSE).text = List!TextOf(name)
  BY SearchIsTextOf
<1>2. List!TextOf(name) = NewestText(name)
  BY DEF List!TextOf, List!Positions, List!LastPosition, NewestText, Highest
<1> QED BY <1>1, <1>2

LEMMA PairsConcatenate ==
    ASSUME NEW a, NEW b, NEW c, NEW d
    PROVE  <<a, b>> \o <<c, d>> = <<a, b, c, d>>
<1> DEFINE S == {a, b, c, d}
           p == <<a, b>>
           q == <<c, d>>
           r == <<a, b, c, d>>
<1>1. p \in Seq(S) /\ Len(p) = 2 /\ p[1] = a /\ p[2] = b
  OBVIOUS
<1>2. q \in Seq(S) /\ Len(q) = 2 /\ q[1] = c /\ q[2] = d
  OBVIOUS
<1>3. r \in Seq(S) /\ Len(r) = 4 /\ r[1] = a /\ r[2] = b /\ r[3] = c /\ r[4] = d
  OBVIOUS
<1> HIDE DEF S, p, q, r
<1>4. /\ p \o q \in Seq(S) /\ Len(p \o q) = Len(p) + Len(q)
      /\ \A i \in 1 .. Len(p) + Len(q) :
           (p \o q)[i] = IF i <= Len(p) THEN p[i] ELSE q[i - Len(p)]
  BY <1>1, <1>2, ConcatProperties
<1>5. Len(p \o q) = 4 /\ \A i \in 1 .. 4 : (p \o q)[i] = r[i]
  BY <1>1, <1>2, <1>3, <1>4
<1>6. p \o q = r
  BY <1>3, <1>4, <1>5, SeqEqual
<1> QED BY <1>6 DEF p, q, r

LEMMA SearchNewShows ==
    ASSUME TableInv, NEW name \in Names
    PROVE  msgSearchNew(name) =
             FirstOf(<<NewestText(name), InFiles[name], NewestText(NoMessage), InFiles[NoMessage]>>)
<1>1. NoMessage \in Names
  BY FilesAssumption
<1>2. /\ msgpatchSearch(name, FALSE).text = NewestText(name)
      /\ msgpatchSearch(NoMessage, FALSE).text = NewestText(NoMessage)
  BY <1>1, SearchFindsNewest
<1>3. VanillaSearch[name] = InFiles[name] /\ VanillaSearch[NoMessage] = InFiles[NoMessage]
  BY <1>1, VanillaFindsFirst
<1> DEFINE search(n) == <<msgpatchSearch(n, FALSE).text, VanillaSearch[n]>>
<1>4. search(name) \o search(NoMessage) =
        <<NewestText(name), InFiles[name], NewestText(NoMessage), InFiles[NoMessage]>>
  <2>1. <<NewestText(name), InFiles[name]>> \o <<NewestText(NoMessage), InFiles[NoMessage]>> =
          <<NewestText(name), InFiles[name], NewestText(NoMessage), InFiles[NoMessage]>>
    BY PairsConcatenate
  <2> QED BY <1>2, <1>3, <2>1
<1>5. msgSearchNew(name) = FirstOf(search(name) \o search(NoMessage))
  BY DEF msgSearchNew
<1> HIDE DEF search
<1> QED BY <1>4, <1>5

\* What the search without fallback takes from the table for a name itself, and for the
\* stem of one with the ending "_ex".
OwnText(name) == IF name.suffix = "_ex_" THEN NoText ELSE NewestText(name)
StemText(name) == IF name.suffix = "_ex" THEN NewestText(Stem(name)) ELSE NoText

LEMMA StemIsName ==
    ASSUME NEW name \in Names
    PROVE  Stem(name) \in Names
BY DEF Stem, Names, Endings

\* No row has the name of an ending that is not one of them.
LEMMA StrippedHasNoRow ==
    ASSUME TableInv, NEW name \in Names, name.suffix # "_ex"
    PROVE  msgpatchSearch(Stripped(name), FALSE).text = NoText
<1>1. Stripped(name).suffix = "_"
  BY DEF Stripped, Names
<1>2. Stripped(name) \notin Names
  BY <1>1 DEF Names, Endings
<1>3. \A i \in Rows : Used(i) => msgpatchEntries[i].name \in Names
  BY DEF TableInv, MsgTypeOK, Used, MsgEntries
<1>4. RowsOf(Stripped(name)) = {}
  BY <1>2, <1>3 DEF RowsOf
<1> QED BY <1>4 DEF msgpatchSearch

\* With an empty table nothing is taken off, and nothing would be found.
LEMMA EmptyTable ==
    ASSUME TableInv, UsedRows = {}, NEW name \in Names
    PROVE  NewestText(name) = NoText
<1>1. RowsOf(name) = {}
  BY DEF UsedRows, RowsOf
<1>2. msgpatchSearch(name, FALSE).text = NoText
  BY <1>1 DEF msgpatchSearch
<1> QED BY <1>2, SearchFindsNewest

\* The text of the stem, for the ending "_ex"; for "_ex2" a name is looked for that no row
\* has, and for the others none.
LEMMA BaseIsStemText ==
    ASSUME TableInv, NEW name \in Names
    PROVE  StemText(name) = IF msgpatchSearch(name, TRUE).containsEx > 0
                            THEN msgpatchSearch(Stripped(name), FALSE).text ELSE NoText
<1> DEFINE ex == msgpatchSearch(name, TRUE).containsEx
<1>1. ex = IF UsedRows # {} /\ name.suffix \in {"_ex", "_ex2"} THEN 1 ELSE 0
  BY DEF msgpatchSearch
<1> HIDE DEF ex
<1>2. CASE name.suffix = "_ex"
  <2>1. Stripped(name) = Stem(name)
    BY <1>2 DEF Stripped, Stem
  <2>2. msgpatchSearch(Stem(name), FALSE).text = NewestText(Stem(name))
    BY StemIsName, SearchFindsNewest
  <2>3. StemText(name) = NewestText(Stem(name))
    BY <1>2 DEF StemText
  <2>4. CASE UsedRows # {}
    <3>1. ex > 0
      BY <1>1, <1>2, <2>4
    <3> QED BY <2>1, <2>2, <2>3, <3>1 DEF ex
  <2>5. CASE UsedRows = {}
    <3>1. ~(ex > 0)
      BY <1>1, <2>5
    <3>2. NewestText(Stem(name)) = NoText
      BY <2>5, StemIsName, EmptyTable
    <3> QED BY <2>3, <3>1, <3>2 DEF ex
  <2> QED BY <2>4, <2>5
<1>3. CASE name.suffix # "_ex"
  <2>1. StemText(name) = NoText
    BY <1>3 DEF StemText
  <2>2. msgpatchSearch(Stripped(name), FALSE).text = NoText
    BY <1>3, StrippedHasNoRow
  <2> QED BY <2>1, <2>2
<1> QED BY <1>2, <1>3

\* The text of its own, the text of the stem, the game's.
LEMMA SearchNoFallbackShows ==
    ASSUME TableInv, NEW name \in Names
    PROVE  msgSearchNoFallbackNew(name) =
             FirstOf(<<OwnText(name), StemText(name), InFiles[name]>>)
<1>1. msgpatchSearch(name, TRUE).text = OwnText(name)
  <2>1. CASE name.suffix = "_ex_"
    BY <2>1 DEF msgpatchSearch, OwnText
  <2>2. CASE name.suffix # "_ex_"
    <3>1. msgpatchSearch(name, TRUE).text = msgpatchSearch(name, FALSE).text
      BY <2>2 DEF msgpatchSearch
    <3> QED BY <2>2, <3>1, SearchFindsNewest DEF OwnText
  <2> QED BY <2>1, <2>2
<1>2. VanillaSearch[name] = InFiles[name]
  BY VanillaFindsFirst
<1> QED BY <1>1, <1>2, BaseIsStemText DEF msgSearchNoFallbackNew

\* Whatever was added and removed, from whatever row of a table however full, what the game
\* shows for a name of any ending is what NewestTextShown says: the newest text in the
\* table for it, for its stem where the search without fallback meets the ending "_ex",
\* and the game's own text of the first file that has one where there is none; the
\* bisections, the search from the last row down and the order of the fallbacks together
\* do this.
THEOREM NewestTextShownCorrect == MsgSpec => []NewestTextShown
<1>1. TableInv => NewestTextShown
  BY SearchNewShows, SearchNoFallbackShows DEF NewestTextShown, OwnText, StemText
<1> QED BY <1>1, TableInvHolds, PTL
=============================================================================
