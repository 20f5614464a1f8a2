------------------------------ MODULE RingLocks ------------------------------
(***************************************************************************)
(* inf19-3.c: Count threads around a ring of Count cells and Count         *)
(* mutexes.  In every iteration a thread adds 1 to its own (middle) cell,  *)
(* 0.99 to its left and 1.01 to its right neighbour, taking the mutexes in *)
(* an order that depends on its index, so that neighbours do not wait for  *)
(* each other in a circle.  Values are counted in hundredths; the rounding *)
(* of the doubles is abstracted.                                           *)
(***************************************************************************)
EXTENDS RingArguments, Sequences

VARIABLES
  spawned,    \* number of threads main has created
  joined,     \* number of threads main has joined
  printed,    \* the values main has printed
  pc,         \* position of each thread in the body of its loop
  round,      \* the loop counter i of each thread
  loaded,     \* a thread has read the cell it is adding to, not yet written it
  reg,        \* the value it read
  owner,      \* holder of each mutex
  buffer      \* the cells

main == <<spawned, joined, printed>>
vars == <<main, pc, round, loaded, reg, owner, buffer>>

Threads == 0 .. Count - 1
Roles == {"middle", "left", "right"}
Free == -1

(***************************************************************************)
(* The neighbours, and what is added to each of them.                      *)
(***************************************************************************)
Cell(t, role) ==
  [middle |-> t,
   left   |-> (t - 1 + Count) % Count,
   right  |-> (t + 1) % Count][role]

Amount(role) == [middle |-> 100, left |-> 99, right |-> 101][role]

(***************************************************************************)
(* The body of the loop is straight-line code once Count and the index are *)
(* known: a sequence of instructions, each about one of the three roles.   *)
(***************************************************************************)
LockOf(role)   == [op |-> "lock",   role |-> role]
AddTo(role)    == [op |-> "add",    role |-> role]
UnlockOf(role) == [op |-> "unlock", role |-> role]

Single ==
  <<LockOf("right"), AddTo("right"), AddTo("left"), AddTo("middle"),
    UnlockOf("right")>>

Pair(a, b) ==
  <<LockOf(a), AddTo("middle"), LockOf(b), AddTo("left"), AddTo("right"),
    UnlockOf(b), UnlockOf(a)>>

Nested(a, b, c) ==
  <<LockOf(a), AddTo(a), LockOf(b), AddTo(b), LockOf(c), AddTo(c),
    UnlockOf(c), UnlockOf(b), UnlockOf(a)>>

PairProgram(t) ==
  IF t = 0 THEN Pair("middle", "left") ELSE Pair("left", "middle")

\* Mutant: every thread takes its own mutex first, then left, then right.
NestedSameOrder(t) == Nested("middle", "left", "right")

NestedProgram(t) ==
  IF t % 3 = 2 THEN Nested("right", "middle", "left")
  ELSE IF t % 3 = 0 THEN Nested("middle", "left", "right")
  ELSE Nested("left", "right", "middle")

Program(t) ==
  IF Count = 1 THEN Single
  ELSE IF Count = 2 THEN PairProgram(t)
  ELSE NestedProgram(t)

-----------------------------------------------------------------------------
Init ==
  /\ spawned = 0
  /\ joined = 0
  /\ printed = <<>>
  /\ pc = [t \in Threads |-> 1]
  /\ round = [t \in Threads |-> 0]
  /\ loaded = [t \in Threads |-> FALSE]
  /\ reg = [t \in Threads |-> 0]
  /\ owner = [m \in Threads |-> Free]
  /\ buffer = [c \in Threads |-> 0]

Finished(t) == round[t] = Iterations
Instr(t) == Program(t)[pc[t]]
Target(t) == Cell(t, Instr(t).role)

Executes(t, op) ==
  /\ t < spawned
  /\ ~Finished(t)
  /\ Instr(t).op = op

\* The next instruction, or the next iteration after the last one.
Advance(t) ==
  IF pc[t] < Len(Program(t))
  THEN /\ pc' = [pc EXCEPT ![t] = @ + 1]
       /\ UNCHANGED round
  ELSE /\ pc' = [pc EXCEPT ![t] = 1]
       /\ round' = [round EXCEPT ![t] = @ + 1]

\* Mutant: a lock that does not wait for the holder.
LockWithoutWaiting(t) ==
  /\ Executes(t, "lock")
  /\ owner' = [owner EXCEPT ![Target(t)] = t]
  /\ Advance(t)
  /\ UNCHANGED <<main, loaded, reg, buffer>>

Lock(t) ==
  /\ Executes(t, "lock")
  /\ owner[Target(t)] = Free
  /\ owner' = [owner EXCEPT ![Target(t)] = t]
  /\ Advance(t)
  /\ UNCHANGED <<main, loaded, reg, buffer>>

\* "*(value) += amount" is a load ...
Load(t) ==
  /\ Executes(t, "add")
  /\ ~loaded[t]
  /\ reg' = [reg EXCEPT ![t] = buffer[Target(t)]]
  /\ loaded' = [loaded EXCEPT ![t] = TRUE]
  /\ UNCHANGED <<main, pc, round, owner, buffer>>

\* ... and a store, and another thread may run in between.
Store(t) ==
  /\ Executes(t, "add")
  /\ loaded[t]
  /\ buffer' = [buffer EXCEPT ![Target(t)] = reg[t] + Amount(Instr(t).role)]
  /\ loaded' = [loaded EXCEPT ![t] = FALSE]
  /\ Advance(t)
  /\ UNCHANGED <<main, reg, owner>>

\* Mutant: a mutex that is never released.
UnlockNothing(t) ==
  /\ Executes(t, "unlock")
  /\ Advance(t)
  /\ UNCHANGED <<main, loaded, reg, owner, buffer>>

Unlock(t) ==
  /\ Executes(t, "unlock")
  /\ owner' = [owner EXCEPT ![Target(t)] = Free]
  /\ Advance(t)
  /\ UNCHANGED <<main, loaded, reg, buffer>>

ThreadStep(t) == Lock(t) \/ Load(t) \/ Store(t) \/ Unlock(t)

Create ==
  /\ spawned < Count
  /\ spawned' = spawned + 1
  /\ UNCHANGED <<joined, printed, pc, round, loaded, reg, owner, buffer>>

\* Mutant: main does not wait for the last thread.
JoinAllButLast ==
  /\ spawned = Count
  /\ joined < Count
  /\ joined < Count - 1 => Finished(joined)
  /\ joined' = joined + 1
  /\ UNCHANGED <<spawned, printed, pc, round, loaded, reg, owner, buffer>>

Join ==
  /\ spawned = Count
  /\ joined < Count
  /\ Finished(joined)
  /\ joined' = joined + 1
  /\ UNCHANGED <<spawned, printed, pc, round, loaded, reg, owner, buffer>>

PrintCell ==
  /\ joined = Count
  /\ Len(printed) < Count
  /\ printed' = Append(printed, buffer[Len(printed)])
  /\ UNCHANGED <<spawned, joined, pc, round, loaded, reg, owner, buffer>>

Return ==
  /\ Len(printed) = Count
  /\ UNCHANGED vars

MainStep == Create \/ Join \/ PrintCell

Next == MainStep \/ Return \/ \E t \in Threads : ThreadStep(t)

Spec == Init /\ [][Next]_vars

-----------------------------------------------------------------------------
TypeOK ==
  /\ spawned \in 0 .. Count
  /\ joined \in 0 .. spawned
  /\ printed \in Seq(Nat)
  /\ Len(printed) <= Count
  /\ \A t \in Threads : pc[t] \in 1 .. Len(Program(t))
  /\ pc \in [Threads -> Nat]
  /\ round \in [Threads -> 0 .. Iterations]
  /\ loaded \in [Threads -> BOOLEAN]
  /\ reg \in [Threads -> Nat]
  /\ owner \in [Threads -> Threads \cup {Free}]
  /\ buffer \in [Threads -> Nat]

(***************************************************************************)
(* The mutexes a thread holds, from its position alone: those locked       *)
(* before it and not unlocked since.                                       *)
(***************************************************************************)
Touches(t, k, op, m) == Program(t)[k].op = op /\ Cell(t, Program(t)[k].role) = m

HeldAt(t, p) ==
  {m \in Threads : \E k \in 1 .. p - 1 :
      /\ Touches(t, k, "lock", m)
      /\ \A j \in k .. p - 1 : ~Touches(t, j, "unlock", m)}

\* A mutex is owned by a thread exactly when the thread is between the lock
\* and the unlock of it: no thread runs inside another one's critical section,
\* and none leaves a mutex behind when it finishes.
OwnershipMatchesCode ==
  \A t, m \in Threads : owner[m] = t <=> m \in HeldAt(t, pc[t])

\* Two threads are never both between the load and the store of one cell,
\* although with two threads a cell is updated under the mutex of the other
\* cell (inf19-3.c:56).
NoConcurrentUpdate ==
  \A s, t \in Threads :
    (s # t /\ loaded[s] /\ loaded[t]) => Target(s) # Target(t)

\* What a thread is about to overwrite is what it has read: no addition of
\* another thread is lost.
NoLostUpdate == \A t \in Threads : loaded[t] => reg[t] = buffer[Target(t)]

\* How often a thread has added to the cell of a role.
AddedBefore(t, p, role) == \E k \in 1 .. p - 1 : Program(t)[k] = AddTo(role)
Added(t, role) == round[t] + (IF AddedBefore(t, pc[t], role) THEN 1 ELSE 0)

\* Every cell is the exact sum of the additions made so far by the thread it
\* is the middle of and by its two neighbours.
CellsAddUp ==
  \A c \in Threads :
    buffer[c] = Amount("middle") * Added(c, "middle")
              + Amount("left") * Added(Cell(c, "right"), "left")
              + Amount("right") * Added(Cell(c, "left"), "right")

\* main prints 3 * iterations for every cell, whatever the interleaving.
PrintedTotals == \A i \in 1 .. Len(printed) : printed[i] = 300 * Iterations

\* Where threads and main can be relative to each other.
ControlOK ==
  /\ \A t \in Threads : Finished(t) => pc[t] = 1
  /\ \A t \in Threads : loaded[t] => ~Finished(t) /\ Instr(t).op = "add"
  /\ \A t \in Threads : t < joined => Finished(t)
  /\ printed # <<>> => joined = Count

\* The inductive invariant.
IInv ==
  /\ TypeOK
  /\ ControlOK
  /\ OwnershipMatchesCode
  /\ NoLostUpdate
  /\ CellsAddUp
  /\ PrintedTotals

-----------------------------------------------------------------------------
Blocked(t) == Instr(t).op = "lock" /\ owner[Target(t)] # Free

\* As long as some thread has not finished, some such thread is not waiting
\* for a mutex: the order in which the three branches take the mutexes admits
\* no circular wait.
NoCircularWait ==
  (\E t \in Threads : ~Finished(t))
    => \E t \in Threads : ~Finished(t) /\ ~Blocked(t)

\* With Count % 3 = 1 the pattern of the three branches does not close around
\* the ring: threads 0 and Count - 1 are neighbours and both start with their
\* own mutex.  Getting stuck takes this seam: thread Count - 1, holding its own
\* mutex, waits for mutex 0, held by thread 0 or 1 (inf19-3.c:85).
StuckAtSeam ==
  /\ Count % 3 = 1 /\ Count > 1
  /\ Blocked(Count - 1) /\ Target(Count - 1) = 0
  /\ owner[Count - 1] = Count - 1
  /\ owner[0] \in {0, 1}

StuckOnlyAtSeam == NoCircularWait \/ StuckAtSeam

\* Every run either prints all cells or ends up stuck at the seam.
PrintedOrStuck == Len(printed) = Count \/ StuckAtSeam
=============================================================================
