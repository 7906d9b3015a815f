---------------------------- MODULE NatRecursion -----------------------------
(***************************************************************************)
(* Induction and recursion over the natural numbers, stated with sets and  *)
(* functions instead of operators, so that the facts can be cited for a    *)
(* definition at hand: a property is the set of the numbers that have it,  *)
(* the step of a recursive function is a function itself.  The last of     *)
(* them are about the community modules' FlattenSeq.                       *)
(***************************************************************************)
EXTENDS Integers, Sequences, SequencesExt, SequenceTheorems, WellFoundedInduction, TLAPS

\* Every set of natural numbers has a smallest element.
LEMMA SmallestIn ==
    ASSUME NEW S \in SUBSET Nat, S # {}
    PROVE  \E i \in S : \A j \in S : i <= j
<1> DEFINE R == {p \in Nat \X Nat : p[1] < p[2]}
<1>1. R = OpToRel(<, Nat)
  BY DEF OpToRel
<1>2. IsWellFoundedOn(R, Nat)
  BY <1>1, NatLessThanWellFounded
<1>3. \A i, j \in Nat : j < i => <<j, i>> \in R
  OBVIOUS
<1> HIDE DEF R
<1>4. PICK i \in S : \A j \in S : <<j, i>> \notin R
  BY <1>2, WFMin
<1>5. \A j \in S : ~(j < i)
  BY <1>3, <1>4
<1>6. \A j \in S : i <= j
  BY <1>5
<1> QED BY <1>6

\* What holds of 0, and of n + 1 when it holds of n, holds of all numbers.
LEMMA SetInduction ==
    ASSUME NEW S \in SUBSET Nat, 0 \in S, \A n \in S : n + 1 \in S
    PROVE  S = Nat
<1> SUFFICES ASSUME Nat \ S # {} PROVE FALSE
  OBVIOUS
<1>1. PICK i \in Nat \ S : \A j \in Nat \ S : i <= j
  BY SmallestIn
<1>2. i # 0
  BY <1>1
<1>3. i - 1 \in Nat /\ i - 1 \in S
  BY <1>1, <1>2
<1>4. (i - 1) + 1 \in S
  BY <1>3
<1> QED BY <1>1, <1>4

\* f starts at a and goes on from n to n + 1 by the step F[n].
Recurs(f, X, a, F) == f \in [Nat -> X] /\ f[0] = a /\ \A n \in Nat : f[n + 1] = F[n][f[n]]

\* A function on the numbers may be given by its first value and by how each value
\* follows from the one before it.
LEMMA FunctionByRecursion ==
    ASSUME NEW X, NEW a \in X, NEW F \in [Nat -> [X -> X]]
    PROVE  \E f : Recurs(f, X, a, F)
<1> DEFINE Starts(n, g) == /\ g \in [0 .. n -> X]
                           /\ g[0] = a
                           /\ \A k \in 0 .. n - 1 : g[k + 1] = F[k][g[k]]
           Has == {n \in Nat : \E g : Starts(n, g)}
           Same == {n \in Nat : \A m \in Nat : \A g, h :
                      n <= m /\ Starts(n, g) /\ Starts(m, h) => g[n] = h[n]}
<1>1. Has = Nat
  <2>1. 0 \in Has
    <3>1. Starts(0, [k \in 0 .. 0 |-> a])
      OBVIOUS
    <3> QED BY <3>1
  <2>2. ASSUME NEW n \in Has PROVE n + 1 \in Has
    <3>1. PICK g : Starts(n, g)
      BY <2>2
    <3> DEFINE h == [k \in 0 .. n + 1 |-> IF k = n + 1 THEN F[n][g[n]] ELSE g[k]]
    <3>2. n \in Nat /\ g[n] \in X /\ F[n][g[n]] \in X
      BY <2>2, <3>1
    <3>3. h \in [0 .. n + 1 -> X]
      BY <3>1, <3>2
    <3>4. h[0] = a
      BY <3>1, <3>2
    <3>5. \A k \in 0 .. (n + 1) - 1 : h[k + 1] = F[k][h[k]]
      BY <3>1, <3>2
    <3>6. Starts(n + 1, h)
      BY <3>3, <3>4, <3>5
    <3> HIDE DEF Starts, h
    <3> QED BY <3>2, <3>6
  <2> HIDE DEF Has
  <2>3. Has \in SUBSET Nat
    BY DEF Has
  <2> QED BY <2>1, <2>2, <2>3, SetInduction
<1>2. Same = Nat
  <2>1. 0 \in Same
    OBVIOUS
  <2>2. ASSUME NEW n \in Same PROVE n + 1 \in Same
    <3> SUFFICES ASSUME NEW m \in Nat, NEW g, NEW h, n + 1 <= m, Starts(n + 1, g), Starts(m, h)
                 PROVE  g[n + 1] = h[n + 1]
      <4> HIDE DEF Starts
      <4> QED BY <2>2
    <3> DEFINE g0 == [k \in 0 .. n |-> g[k]]
    <3>1. n \in Nat
      BY <2>2
    <3>2. Starts(n, g0)
      <4>1. g0 \in [0 .. n -> X] /\ g0[0] = a
        BY <3>1
      <4>2. \A k \in 0 .. n - 1 : g0[k + 1] = F[k][g0[k]]
        BY <3>1
      <4> QED BY <4>1, <4>2
    <3>3. n <= m
      BY <3>1
    <3>4. g0[n] = h[n]
      <4> HIDE DEF Starts, g0
      <4> QED BY <2>2, <3>2, <3>3
    <3>5. g[n] = h[n]
      BY <3>1, <3>4
    <3>6. g[n + 1] = F[n][g[n]] /\ h[n + 1] = F[n][h[n]]
      BY <3>1
    <3> QED BY <3>5, <3>6
  <2> HIDE DEF Same
  <2>3. Same \in SUBSET Nat
    BY DEF Same
  <2> QED BY <2>1, <2>2, <2>3, SetInduction
<1> DEFINE at(n) == CHOOSE g : Starts(n, g)
           f == [n \in Nat |-> at(n)[n]]
<1>3. \A n \in Nat : Starts(n, at(n))
  <2> SUFFICES ASSUME NEW n \in Nat PROVE \E g : Starts(n, g)
    OBVIOUS
  <2>1. n \in Has
    BY <1>1
  <2> HIDE DEF Starts
  <2> QED BY <2>1
<1> HIDE DEF at
<1>4. f \in [Nat -> X]
  <2> SUFFICES ASSUME NEW n \in Nat PROVE at(n)[n] \in X
    OBVIOUS
  <2>1. Starts(n, at(n)) /\ n \in 0 .. n
    BY <1>3
  <2> QED BY <2>1
<1>5. f[0] = a
  BY <1>3
<1>6. ASSUME NEW n \in Nat PROVE f[n + 1] = F[n][f[n]]
  <2>1. Starts(n, at(n)) /\ Starts(n + 1, at(n + 1))
    BY <1>3
  <2>2. at(n)[n] = at(n + 1)[n]
    <3>1. n \in Same /\ n + 1 \in Nat /\ n <= n + 1
      <4> HIDE DEF Same
      <4> QED BY <1>2
    <3> HIDE DEF Starts
    <3> QED BY <2>1, <3>1
  <2>3. at(n + 1)[n + 1] = F[n][at(n + 1)[n]]
    BY <2>1
  <2>4. f[n] = at(n)[n] /\ f[n + 1] = at(n + 1)[n + 1]
    OBVIOUS
  <2> QED BY <2>2, <2>3, <2>4
<1> HIDE DEF f
<1> QED BY <1>4, <1>5, <1>6 DEF Recurs

\* f goes from place d on: where it stops is what it finds, and on the way back from
\* next[d] it does the step of d.
Walks(f, D, X, stops, found, next, step) ==
    /\ f \in [D -> X]
    /\ \A d \in D : f[d] = IF d \in stops THEN found[d] ELSE step[d][f[next[d]]]

\* A measure that falls on the way makes a walk a function of the place it starts from.
LEMMA FunctionByWalk ==
    ASSUME NEW D, NEW X, NEW stops \in SUBSET D, NEW found \in [D -> X],
           NEW next \in [D -> D], NEW step \in [D -> [X -> X]], NEW left \in [D -> Nat],
           \A d \in D \ stops : left[next[d]] < left[d]
    PROVE  \E f : Walks(f, D, X, stops, found, next, step)
<1> DEFINE Round(g) == [d \in D |-> IF d \in stops THEN found[d] ELSE step[d][g[next[d]]]]
           F == [n \in Nat |-> [g \in [D -> X] |-> Round(g)]]
<1>1. F \in [Nat -> [[D -> X] -> [D -> X]]]
  <2> SUFFICES ASSUME NEW g \in [D -> X], NEW d \in D
               PROVE  (IF d \in stops THEN found[d] ELSE step[d][g[next[d]]]) \in X
    OBVIOUS
  <2>1. next[d] \in D /\ step[d] \in [X -> X]
    OBVIOUS
  <2> QED BY <2>1
<1>2. PICK r \in [Nat -> [D -> X]] : r[0] = found /\ \A n \in Nat : r[n + 1] = F[n][r[n]]
  <2> DEFINE Y == [D -> X]
  <2>1. F \in [Nat -> [Y -> Y]] /\ found \in Y
    BY <1>1
  <2> HIDE DEF F, Y
  <2>2. \E r : Recurs(r, Y, found, F)
    BY <2>1, FunctionByRecursion
  <2> QED BY <2>2 DEF Y, Recurs
<1>3. \A n \in Nat, d \in D : r[n + 1][d] = IF d \in stops THEN found[d] ELSE step[d][r[n][next[d]]]
  <2> SUFFICES ASSUME NEW n \in Nat, NEW d \in D
               PROVE  r[n + 1][d] = IF d \in stops THEN found[d] ELSE step[d][r[n][next[d]]]
    OBVIOUS
  <2>1. r[n] \in [D -> X]
    OBVIOUS
  <2>2. r[n + 1] = Round(r[n])
    <3>1. r[n + 1] = F[n][r[n]]
      BY <1>2
    <3> HIDE DEF Round
    <3> QED BY <2>1, <3>1
  <2> QED BY <2>2
<1> HIDE DEF F
<1> DEFINE S == {n \in Nat : \A d \in D : left[d] <= n =>
                   \A m \in Nat : n <= m => r[m + 1][d] = r[n + 1][d]}
<1>4. 0 \in S
  <2> SUFFICES ASSUME NEW d \in D, left[d] <= 0, NEW m \in Nat PROVE r[m + 1][d] = r[0 + 1][d]
    OBVIOUS
  <2>1. d \in stops
    <3>1. left[d] \in Nat /\ left[next[d]] \in Nat
      OBVIOUS
    <3> QED BY <3>1
  <2> QED BY <1>3, <2>1
<1>5. ASSUME NEW n \in S PROVE n + 1 \in S
  <2> SUFFICES ASSUME NEW d \in D, left[d] <= n + 1, NEW m \in Nat, n + 1 <= m
               PROVE  r[m + 1][d] = r[(n + 1) + 1][d]
    BY <1>5
  <2>1. n \in Nat
    BY <1>5
  <2>2. CASE d \in stops
    <3>1. r[m + 1][d] = found[d]
      BY <1>3, <2>2
    <3>2. n + 1 \in Nat
      BY <2>1
    <3>3. r[(n + 1) + 1][d] = found[d]
      BY <1>3, <2>2, <3>2
    <3> QED BY <3>1, <3>3
  <2>3. CASE d \notin stops
    <3>1. left[d] \in Nat /\ left[next[d]] \in Nat /\ left[next[d]] < left[d] /\ next[d] \in D
      BY <2>3
    <3>2. left[next[d]] <= n /\ m - 1 \in Nat /\ n <= m - 1
      BY <2>1, <3>1
    <3>3. r[(m - 1) + 1][next[d]] = r[n + 1][next[d]]
      BY <1>5, <3>1, <3>2
    <3>4. (m - 1) + 1 = m
      BY <2>1
    <3>5. r[m + 1][d] = step[d][r[m][next[d]]] /\ r[(n + 1) + 1][d] = step[d][r[n + 1][next[d]]]
      BY <1>3, <2>1, <2>3
    <3> QED BY <3>3, <3>4, <3>5
  <2> QED BY <2>2, <2>3
<1>6. S = Nat
  <2> HIDE DEF S
  <2>1. S \in SUBSET Nat
    BY DEF S
  <2> QED BY <1>4, <1>5, <2>1, SetInduction
<1> DEFINE f == [d \in D |-> r[left[d] + 1][d]]
<1>7. \A n \in Nat, d \in D : left[d] <= n => f[d] = r[n + 1][d]
  <2> SUFFICES ASSUME NEW n \in Nat, NEW d \in D, left[d] <= n PROVE f[d] = r[n + 1][d]
    OBVIOUS
  <2>1. left[d] \in S /\ left[d] \in Nat
    <3> HIDE DEF S
    <3> QED BY <1>6
  <2>2. r[n + 1][d] = r[left[d] + 1][d]
    BY <2>1
  <2> QED BY <2>2
<1>8. ASSUME NEW d \in D PROVE f[d] = IF d \in stops THEN found[d] ELSE step[d][f[next[d]]]
  <2>1. CASE d \in stops
    BY <1>3, <2>1
  <2>2. CASE d \notin stops
    <3>1. left[d] \in Nat /\ left[next[d]] \in Nat /\ left[next[d]] < left[d] /\ next[d] \in D
      BY <2>2
    <3>2. left[d] - 1 \in Nat /\ left[next[d]] <= left[d] - 1 /\ (left[d] - 1) + 1 = left[d]
      BY <3>1
    <3>3. f[next[d]] = r[left[d]][next[d]]
      BY <1>7, <3>1, <3>2
    <3>4. f[d] = step[d][r[left[d]][next[d]]]
      BY <1>3, <2>2, <3>1
    <3> QED BY <2>2, <3>3, <3>4
  <2> QED BY <2>1, <2>2
<1>9. f \in [D -> X]
  <2> SUFFICES ASSUME NEW d \in D PROVE r[left[d] + 1][d] \in X
    OBVIOUS
  <2>1. left[d] + 1 \in Nat
    OBVIOUS
  <2> QED BY <1>2, <2>1
<1> HIDE DEF f
<1> QED BY <1>8, <1>9 DEF Walks

\* f looks from place d on: where it stops is what it finds, or it goes on to next[d].
Searches(f, D, X, stops, found, next) ==
    /\ f \in [D -> X]
    /\ \A d \in D : f[d] = IF d \in stops THEN found[d] ELSE f[next[d]]

\* A search is a walk that brings back what it found.
LEMMA FunctionBySearch ==
    ASSUME NEW D, NEW X, NEW stops \in SUBSET D, NEW found \in [D -> X],
           NEW next \in [D -> D], NEW left \in [D -> Nat],
           \A d \in D \ stops : left[next[d]] < left[d]
    PROVE  \E f : Searches(f, D, X, stops, found, next)
<1> DEFINE step == [d \in D |-> [x \in X |-> x]]
<1>1. step \in [D -> [X -> X]] /\ \A d \in D : \A x \in X : step[d][x] = x
  OBVIOUS
<1> HIDE DEF step
<1>2. PICK f : Walks(f, D, X, stops, found, next, step)
  BY <1>1, FunctionByWalk
<1>3. Searches(f, D, X, stops, found, next)
  <2>1. f \in [D -> X] /\ \A d \in D : next[d] \in D /\ f[next[d]] \in X
    BY <1>2 DEF Walks
  <2> QED BY <1>1, <1>2, <2>1 DEF Walks, Searches
<1> QED BY <1>3
-----------------------------------------------------------------------------
(* Flattening, by recursion over how many sequences are joined.             *)

\* g[n] joins the first n of the sequences s.
Joins(g, s, S) == /\ g \in [Nat -> Seq(S)] /\ g[0] = <<>>
                  /\ \A n \in 1 .. Len(s) : g[n] = g[n - 1] \o s[n]

LEMMA JoinsExists ==
    ASSUME NEW S, NEW s \in Seq(Seq(S))
    PROVE  \E g : Joins(g, s, S)
<1> DEFINE X == Seq(S)
           F == [n \in Nat |-> [x \in X |-> IF n + 1 \in 1 .. Len(s) THEN x \o s[n + 1] ELSE x]]
<1>1. F \in [Nat -> [X -> X]]
  <2> SUFFICES ASSUME NEW n \in Nat, NEW x \in X, n + 1 \in 1 .. Len(s)
               PROVE  x \o s[n + 1] \in X
    OBVIOUS
  <2> QED BY ElementOfSeq, ConcatProperties
<1>2. <<>> \in X
  OBVIOUS
<1>3. \A n \in Nat, x \in X : n + 1 \in 1 .. Len(s) => F[n][x] = x \o s[n + 1]
  OBVIOUS
<1> HIDE DEF F, X
<1>4. PICK g : Recurs(g, X, <<>>, F)
  BY <1>1, <1>2, FunctionByRecursion
<1>5. ASSUME NEW n \in 1 .. Len(s) PROVE g[n] = g[n - 1] \o s[n]
  <2>1. n - 1 \in Nat /\ (n - 1) + 1 = n
    OBVIOUS
  <2>2. g[(n - 1) + 1] = F[n - 1][g[n - 1]] /\ g[n - 1] \in X
    BY <1>4, <2>1 DEF Recurs
  <2> QED BY <1>3, <2>1, <2>2
<1>6. Joins(g, s, S)
  BY <1>4, <1>5 DEF Joins, Recurs, X
<1> QED BY <1>6

LEMMA FlattenJoins ==
    ASSUME NEW S, NEW s \in Seq(Seq(S)), NEW g, Joins(g, s, S)
    PROVE  FlattenSeq(s) = g[Len(s)]
<1>1. CASE Len(s) = 0
  <2>1. s = <<>>
    BY <1>1
  <2> QED BY <1>1, <2>1 DEF FlattenSeq, Joins
<1>2. CASE Len(s) # 0
  <2> DEFINE Def(f) == [i \in 1 .. Len(s) |-> IF i = 1 THEN s[i] ELSE f[i - 1] \o s[i]]
             h == [i \in 1 .. Len(s) |-> g[i]]
             f == CHOOSE x : x = Def(x)
  <2>1. Len(s) \in Nat /\ Len(s) >= 1
    BY <1>2
  <2>2. FlattenSeq(s) = f[Len(s)]
    BY <1>2 DEF FlattenSeq
  <2>3. g[1] = s[1]
    <3>1. g[1] = g[0] \o s[1] /\ s[1] \in Seq(S) /\ g[0] = <<>>
      <4>1. 1 \in 1 .. Len(s) /\ 1 - 1 = 0
        BY <2>1
      <4>2. s[1] \in Seq(S)
        BY <4>1, ElementOfSeq
      <4>3. g[1] = g[1 - 1] \o s[1] /\ g[0] = <<>>
        BY <4>1 DEF Joins
      <4> QED BY <4>1, <4>2, <4>3
    <3> QED BY <3>1, ConcatEmptySeq
  <2>4. \A i \in 1 .. Len(s) : h[i] = IF i = 1 THEN s[i] ELSE h[i - 1] \o s[i]
    <3> SUFFICES ASSUME NEW i \in 1 .. Len(s), i # 1 PROVE h[i] = h[i - 1] \o s[i]
      BY <2>1, <2>3
    <3>1. i - 1 \in 1 .. Len(s)
      OBVIOUS
    <3> QED BY <3>1 DEF Joins
  <2>5. h = Def(h)
    BY <2>4
  <2>6. f = Def(f)
    <3> HIDE DEF Def, h
    <3> QED BY <2>5
  <2> HIDE DEF f
  <2>7. \A i \in 1 .. Len(s) : f[i] = IF i = 1 THEN s[i] ELSE f[i - 1] \o s[i]
    BY <2>6
  <2> HIDE DEF Def
  <2> DEFINE T == {n \in Nat : n + 1 <= Len(s) => f[n + 1] = g[n + 1]}
  <2>8. 0 \in T
    BY <2>1, <2>3, <2>7
  <2>9. ASSUME NEW n \in T PROVE n + 1 \in T
    <3> SUFFICES ASSUME (n + 1) + 1 <= Len(s) PROVE f[(n + 1) + 1] = g[(n + 1) + 1]
      BY <2>9
    <3>1. n \in Nat /\ (n + 1) + 1 \in 1 .. Len(s) /\ n + 1 <= Len(s)
          /\ ((n + 1) + 1) - 1 = n + 1 /\ (n + 1) + 1 # 1
      BY <2>1, <2>9
    <3>2. f[(n + 1) + 1] = f[n + 1] \o s[(n + 1) + 1]
      BY <2>7, <3>1
    <3>3. g[(n + 1) + 1] = g[n + 1] \o s[(n + 1) + 1]
      BY <3>1 DEF Joins
    <3> QED BY <2>9, <3>1, <3>2, <3>3
  <2>10. T \in SUBSET Nat
    OBVIOUS
  <2>11. Len(s) - 1 \in T
    <3>1. Len(s) - 1 \in Nat
      BY <2>1
    <3> HIDE DEF T
    <3> QED BY <2>8, <2>9, <2>10, <3>1, SetInduction
  <2>12. f[Len(s)] = g[Len(s)]
    BY <2>1, <2>11
  <2> QED BY <2>2, <2>12
<1> QED BY <1>1, <1>2

\* Flattening one sequence more appends it.
LEMMA FlattenGrows ==
    ASSUME NEW S, NEW s \in Seq(Seq(S)), NEW x \in Seq(S)
    PROVE  /\ FlattenSeq(s) \in Seq(S)
           /\ FlattenSeq(Append(s, x)) = FlattenSeq(s) \o x
<1> DEFINE t == Append(s, x)
<1>1. t \in Seq(Seq(S)) /\ Len(t) = Len(s) + 1 /\ Len(s) \in Nat
      /\ t[Len(s) + 1] = x /\ \A n \in 1 .. Len(s) : t[n] = s[n]
  OBVIOUS
<1> HIDE DEF t
<1>2. PICK g : Joins(g, t, S)
  BY <1>1, JoinsExists
<1>3. Joins(g, s, S)
  <2>1. \A n \in 1 .. Len(s) : n \in 1 .. Len(t)
    BY <1>1
  <2>2. ASSUME NEW n \in 1 .. Len(s) PROVE g[n] = g[n - 1] \o s[n]
    <3>1. g[n] = g[n - 1] \o t[n]
      BY <1>2, <2>1 DEF Joins
    <3> QED BY <1>1, <3>1
  <2> QED BY <1>2, <2>2 DEF Joins
<1>4. FlattenSeq(s) = g[Len(s)] /\ FlattenSeq(t) = g[Len(s) + 1]
  BY <1>1, <1>2, <1>3, FlattenJoins
<1>5. g[Len(s) + 1] = g[Len(s)] \o x
  <2>1. Len(s) + 1 \in 1 .. Len(t) /\ (Len(s) + 1) - 1 = Len(s)
    BY <1>1
  <2> QED BY <1>1, <1>2, <2>1 DEF Joins
<1>6. g[Len(s)] \in Seq(S)
  BY <1>1, <1>2 DEF Joins
<1> QED BY <1>4, <1>5, <1>6 DEF t

\* Flattening one sequence more in front prepends it.
LEMMA FlattenPrepends ==
    ASSUME NEW S, NEW s \in Seq(Seq(S)), NEW x \in Seq(S)
    PROVE  FlattenSeq(<<x>> \o s) = x \o FlattenSeq(s)
<1> DEFINE t == <<x>> \o s
<1>1. /\ t \in Seq(Seq(S)) /\ Len(t) = Len(s) + 1 /\ Len(s) \in Nat
      /\ t[1] = x /\ \A n \in 1 .. Len(s) : t[n + 1] = s[n]
  <2> DEFINE o == <<x>>
  <2>1. o \in Seq(Seq(S)) /\ Len(o) = 1 /\ o[1] = x
    OBVIOUS
  <2> HIDE DEF o
  <2>2. Len(s) \in Nat
    BY LenProperties
  <2>3. /\ o \o s \in Seq(Seq(S)) /\ Len(o \o s) = Len(o) + Len(s)
        /\ \A n \in 1 .. Len(o) + Len(s) :
             (o \o s)[n] = IF n <= Len(o) THEN o[n] ELSE s[n - Len(o)]
    BY <2>1, ConcatProperties
  <2>4. (o \o s)[1] = x
    BY <2>1, <2>2, <2>3
  <2>5. ASSUME NEW n \in 1 .. Len(s) PROVE (o \o s)[n + 1] = s[n]
    <3>1. n + 1 \in 1 .. Len(o) + Len(s) /\ ~(n + 1 <= Len(o)) /\ (n + 1) - Len(o) = n
      BY <2>1, <2>2
    <3> QED BY <2>3, <3>1
  <2>6. Len(o \o s) = Len(s) + 1
    BY <2>1, <2>2, <2>3
  <2> QED BY <2>2, <2>3, <2>4, <2>5, <2>6 DEF o
<1> HIDE DEF t
<1>2. PICK g : Joins(g, t, S)
  BY <1>1, JoinsExists
<1>3. PICK h : Joins(h, s, S)
  BY JoinsExists
<1> DEFINE N == {n \in Nat : n <= Len(s) => g[n + 1] = x \o h[n]}
<1>4. 0 \in N
  <2>1. 1 \in 1 .. Len(t) /\ 1 - 1 = 0
    BY <1>1
  <2>2. g[1] = g[0] \o x /\ g[0] = <<>> /\ h[0] = <<>>
    BY <1>1, <1>2, <1>3, <2>1 DEF Joins
  <2>3. <<>> \o x = x /\ x \o <<>> = x
    BY ConcatEmptySeq
  <2> QED BY <2>2, <2>3
<1>5. ASSUME NEW n \in N PROVE n + 1 \in N
  <2> SUFFICES ASSUME n + 1 <= Len(s) PROVE g[(n + 1) + 1] = x \o h[n + 1]
    BY <1>5
  <2>1. n \in Nat /\ (n + 1) + 1 \in 1 .. Len(t) /\ n + 1 \in 1 .. Len(s) /\ n <= Len(s)
        /\ ((n + 1) + 1) - 1 = n + 1 /\ (n + 1) - 1 = n
    BY <1>1, <1>5
  <2>2. g[n + 1] = x \o h[n]
    BY <1>5, <2>1
  <2>3. g[(n + 1) + 1] = g[n + 1] \o t[(n + 1) + 1]
    BY <1>2, <2>1 DEF Joins
  <2>4. t[(n + 1) + 1] = s[n + 1]
    BY <1>1, <2>1
  <2>5. h[n + 1] = h[n] \o s[n + 1]
    BY <1>3, <2>1 DEF Joins
  <2>6. h[n] \in Seq(S) /\ s[n + 1] \in Seq(S)
    BY <1>3, <2>1, ElementOfSeq DEF Joins
  <2>7. (x \o h[n]) \o s[n + 1] = x \o (h[n] \o s[n + 1])
    <3> DEFINE y == h[n]
               z == s[n + 1]
    <3>1. y \in Seq(S) /\ z \in Seq(S)
      BY <2>6
    <3> HIDE DEF y, z, N
    <3>2. (x \o y) \o z = x \o (y \o z)
      BY <3>1, ConcatAssociative
    <3> QED BY <3>2 DEF y, z
  <2> QED BY <2>2, <2>3, <2>4, <2>5, <2>7
<1> HIDE DEF N
<1>6. N = Nat
  <2>1. N \in SUBSET Nat
    BY DEF N
  <2> QED BY <1>4, <1>5, <2>1, SetInduction
<1>7. g[Len(s) + 1] = x \o h[Len(s)]
  <2>1. Len(s) \in N
    BY <1>1, <1>6
  <2> QED BY <1>1, <2>1 DEF N
<1>8. FlattenSeq(t) = g[Len(s) + 1] /\ FlattenSeq(s) = h[Len(s)]
  BY <1>1, <1>2, <1>3, FlattenJoins
<1> QED BY <1>7, <1>8 DEF t

LEMMA FlattenEmpty == FlattenSeq(<<>>) = <<>>
BY DEF FlattenSeq
=============================================================================
