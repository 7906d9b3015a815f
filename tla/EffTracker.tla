----------------------------- MODULE EffTracker -----------------------------
(***************************************************************************)
(* Tracking the effects that commands spawn (mod/source/mod.cpp and the    *)
(* effect commands of mod/source/commands.cpp): a table of tracked effects *)
(* and one of allocations nobody was found for, both shortened by moving   *)
(* their last row into the hole.                                           *)
(*                                                                         *)
(* The receiver and the game's thread have the same priority and neither   *)
(* blocks in here: a command and a walk over the table are a step each.    *)
(***************************************************************************)
EXTENDS Integers, Sequences, SequencesExt

CONSTANTS Effs,            \* the game's effect entries
          Works,           \* addresses of what effects allocate
          MainFuncs,
          Null,            \* the null pointer
          MAX_EFFS, MAX_MEM_ALLOC

ASSUME EffAssumption ==
    /\ Null \notin Effs \cup Works \cup MainFuncs
    /\ MAX_EFFS \in Nat \ {0} /\ MAX_MEM_ALLOC \in Nat \ {0}

VARIABLES
  effs,          \* the game's effects
  tracked,       \* the rows of tracked below trackedCount
  pendingAllocs  \* the rows of pendingAllocs below pendingAllocCount: their addresses

effVars == <<effs, tracked, pendingAllocs>>

NoEffect == [mainFunc |-> Null, userWork |-> Null]
EffInit == effs = [e \in Effs |-> NoEffect] /\ tracked = <<>> /\ pendingAllocs = <<>>

\* What __memAlloc returned is recorded, the null pointer too; with the table full it
\* is not.
memAllocDebug(work) ==
    pendingAllocs' = IF Len(pendingAllocs) < MAX_MEM_ALLOC
                     THEN Append(pendingAllocs, work) ELSE pendingAllocs

\* The game makes an effect of a free entry; it may allocate nothing, or get nothing.
Spawns(e) ==
    /\ effs[e] = NoEffect
    /\ \E f \in MainFuncs, work \in Works \cup {Null} :
         /\ work # Null => \A o \in Effs : effs[o].userWork # work
         /\ effs' = [effs EXCEPT ![e] = [mainFunc |-> f, userWork |-> work]]
         /\ \/ memAllocDebug(work)
            \/ work = Null /\ UNCHANGED pendingAllocs

GameSpawns == \E e \in Effs : Spawns(e) /\ UNCHANGED tracked

\* An effect that is over leaves its entry and its memory to the next one.
GameEnds == /\ \E e \in Effs : /\ effs[e] # NoEffect
                               /\ effs' = [effs EXCEPT ![e] = NoEffect]
            /\ UNCHANGED <<tracked, pendingAllocs>>

Row(e, f) == [entry |-> e, mainFunc |-> f, userWork |-> Null]

\* Mutant: the table is not looked at before a row is added.
TrackUnbounded(row) == tracked' = Append(tracked, row)

Track(row) == tracked' = IF Len(tracked) < MAX_EFFS THEN Append(tracked, row) ELSE tracked

\* An effect command: the game gives an effect, or none.
effectCommand ==
    \/ \E e \in Effs : Spawns(e) /\ Track(Row(e, effs'[e].mainFunc))
    \/ Track(Row(Null, Null)) /\ UNCHANGED <<effs, pendingAllocs>>

\* Nothing is done about a row whose effect is not complete or has the memory it had.
Unchanged(row) ==
    \/ row.entry = Null
    \/ Null \in {effs[row.entry].mainFunc, effs[row.entry].userWork}
    \/ row.userWork = effs[row.entry].userWork
Outdated(row) == ~Unchanged(row) /\ row.mainFunc # effs[row.entry].mainFunc

SwapRemove(s, i) == Front([s EXCEPT ![i] = Last(s)])

\* Mutant: the row that was moved into the hole is not looked at.
VisitSkipping(w) ==
    LET row == w.rows[w.i] IN
    IF w.i > Len(w.rows) \/ Unchanged(row) THEN [w EXCEPT !.i = @ + 1]
    ELSE IF Outdated(row) THEN [w EXCEPT !.rows = SwapRemove(@, w.i), !.i = @ + 1]
    ELSE [w EXCEPT !.rows[w.i].userWork = effs[row.entry].userWork, !.i = @ + 1]

\* One round of the loop over tracked.
Visit(w) ==
    LET row == w.rows[w.i]
        work == effs[row.entry].userWork
        found == {j \in 1 .. Len(w.pending) : w.pending[j] = work}
    IN IF Unchanged(row) THEN [w EXCEPT !.i = @ + 1]
       ELSE IF Outdated(row) THEN [w EXCEPT !.rows = SwapRemove(@, w.i)]
       ELSE [rows |-> [w.rows EXCEPT ![w.i].userWork = work],
             i |-> w.i + 1,
             pending |-> IF found = {} THEN w.pending
                         ELSE SwapRemove(w.pending, CHOOSE j \in found : \A k \in found : j <= k)]

\* The table after n rounds.  A round moves on by a row or takes one away, so there are
\* as many as there were rows.
Walk[n \in Nat] == IF n = 0 THEN [rows |-> tracked, i |-> 1, pending |-> pendingAllocs]
                   ELSE Visit(Walk[n - 1])

\* effDebug, in the frames in which its counter has run out.
effDebug == /\ tracked' = Walk[Len(tracked)].rows
            /\ pendingAllocs' = Walk[Len(tracked)].pending
            /\ UNCHANGED effs

EffNext == GameSpawns \/ GameEnds \/ effectCommand \/ effDebug
EffSpec == EffInit /\ [][EffNext]_effVars
-----------------------------------------------------------------------------
(* Properties.                                                             *)

\* Types, with the sizes of both tables.
EffTypeOK ==
    /\ effs \in [Effs -> [mainFunc : MainFuncs \cup {Null}, userWork : Works \cup {Null}]]
    /\ tracked \in Seq([entry : Effs \cup {Null}, mainFunc : MainFuncs \cup {Null},
                        userWork : Works \cup {Null}])
    /\ Len(tracked) <= MAX_EFFS
    /\ pendingAllocs \in Seq(Works \cup {Null}) /\ Len(pendingAllocs) <= MAX_MEM_ALLOC

Times(v, s) == Cardinality({i \in 1 .. Len(s) : s[i] = v})
Refreshed(row) == IF Unchanged(row) THEN row
                  ELSE [row EXCEPT !.userWork = effs[row.entry].userWork]
Atleast0(n) == IF n > 0 THEN n ELSE 0

\* What is in both tables after the walk, told from what was in them before.
EveryRowMet ==
    LET kept == {i \in 1 .. Len(tracked) : ~Outdated(tracked[i])}
        bound == {i \in kept : ~Unchanged(tracked[i])}
        RefreshedTo(row) == {i \in kept : Refreshed(tracked[i]) = row}
        BoundTo(work) == {i \in bound : effs[tracked[i].entry].userWork = work}
    IN /\ Len(tracked') = Cardinality(kept)
       /\ \A i \in kept : LET row == Refreshed(tracked[i])
                          IN Times(row, tracked') = Cardinality(RefreshedTo(row))
       /\ \A work \in Works \cup {Null} : Times(work, pendingAllocs') =
            Atleast0(Times(work, pendingAllocs) - Cardinality(BoundTo(work)))

\* The walk over the table looks at every row once although removals move rows under it:
\* the rows of effects that are no longer theirs go, every other one is left with the
\* memory its effect has now, and each row that got new memory takes one allocation of
\* that address from those that wait for an owner, if there is one.
WalkMeetsEveryRow == [][effDebug => EveryRowMet]_effVars
=============================================================================
