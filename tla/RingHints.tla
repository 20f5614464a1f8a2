------------------------------ MODULE RingHints ------------------------------
(***************************************************************************)
(* inf19-0.c: the earlier version of inf19-3.c.  A thread reads flags that *)
(* say which cells are in use, without a mutex, and takes its three        *)
(* mutexes in an order that depends on them; the mutex it means for its    *)
(* own cell is always mutex 0 (arg->mut, not arg->mut + i).                *)
(***************************************************************************)
EXTENDS RingArguments, Sequences

VARIABLES
  created, waited, shown,   \* main: threads created, threads joined, cells printed
  at,       \* position of each thread in the body of its loop
  k,        \* its loop counter
  path,     \* what it found in the two flags: the branch it is in
  reg,      \* the value it has read and is adding to, or None
  lock,     \* the flags
  mut,      \* holder of each mutex
  buf       \* the cells, in hundredths

threads == <<at, k, path, reg, lock, mut, buf>>
vars == <<created, waited, shown, threads>>

Indices == 0 .. Count - 1
Free == -1
None == -1

\* "first" stands for the mutex at arg->mut, the others for neighbours and flags.
Place(i, p) ==
  [first |-> 0, own |-> i, left |-> (i - 1 + Count) % Count, right |-> (1 + i) % Count][p]

Amount(p) == [own |-> 100, left |-> 101, right |-> 99][p]

-----------------------------------------------------------------------------
Instr(op, p) == [op |-> op, place |-> p]
Take(m, flag) == <<Instr("lock", m), Instr("set", flag)>>
Give(flag, m) == <<Instr("clear", flag), Instr("unlock", m)>>
Adds == <<Instr("add", "own"), Instr("add", "left"), Instr("add", "right")>>

\* The own cell was in use: its mutex comes first.
Busy(right) ==
  <<Instr("test", "own")>> \o Take("first", "own") \o <<Instr("test", "right")>>
    \o (IF right
        THEN Take("right", "right") \o Take("left", "left") \o Adds
               \o Give("left", "left") \o Give("right", "right")
        ELSE Take("left", "right") \o Take("right", "left") \o Adds
               \o Give("left", "right") \o Give("right", "left"))
    \o Give("own", "first")

\* Mutant: a thread that finds its own cell idle does without its mutex.
IdleUnlocked(right) ==
  <<Instr("test", "own"), Instr("test", "right")>>
    \o Take("left", "left") \o Take("right", "right") \o Adds
    \o Give("right", "right") \o Give("left", "left")

\* It was not: its mutex comes last.
Idle(right) ==
  LET a == IF right THEN "right" ELSE "left"
      b == IF right THEN "left" ELSE "right"
  IN <<Instr("test", "own"), Instr("test", "right")>>
       \o Take(a, a) \o Take(b, b) \o Take("first", "own") \o Adds
       \o Give("own", "first") \o Give(b, b) \o Give(a, a)

Program(seen) == IF seen.own THEN Busy(seen.right) ELSE Idle(seen.right)

Init ==
  /\ created = 0 /\ waited = 0 /\ shown = <<>>
  /\ at = [i \in Indices |-> 1] /\ k = [i \in Indices |-> 0]
  /\ path = [i \in Indices |-> [own |-> FALSE, right |-> FALSE]]
  /\ reg = [i \in Indices |-> None]
  /\ lock = [i \in Indices |-> 0] /\ mut = [i \in Indices |-> Free]
  /\ buf = [i \in Indices |-> 0]

Finished(i) == k[i] = Iterations
Current(i) == Program(path[i])[at[i]]
Target(i) == Place(i, Current(i).place)

Executes(i, op) ==
  /\ i < created /\ ~Finished(i)
  /\ Current(i).op = op
  /\ UNCHANGED <<created, waited, shown>>

Advance(i) ==
  IF at[i] < Len(Program(path[i]))
  THEN at' = [at EXCEPT ![i] = @ + 1] /\ UNCHANGED k
  ELSE at' = [at EXCEPT ![i] = 1] /\ k' = [k EXCEPT ![i] = @ + 1]

\* A flag is read, with or without a mutex.
Test(i) ==
  /\ Executes(i, "test")
  /\ path' = [path EXCEPT ![i][Current(i).place] = (lock[Target(i)] = 1)]
  /\ at' = [at EXCEPT ![i] = @ + 1]
  /\ UNCHANGED <<k, reg, lock, mut, buf>>

\* A default mutex: its holder, too, waits for ever when it locks it again.
Lock(i) ==
  /\ Executes(i, "lock")
  /\ mut[Target(i)] = Free
  /\ mut' = [mut EXCEPT ![Target(i)] = i]
  /\ Advance(i)
  /\ UNCHANGED <<path, reg, lock, buf>>

Unlock(i) ==
  /\ Executes(i, "unlock")
  /\ mut' = [mut EXCEPT ![Target(i)] = Free]
  /\ Advance(i)
  /\ UNCHANGED <<path, reg, lock, buf>>

SetFlag(i) ==
  /\ Executes(i, "set") \/ Executes(i, "clear")
  /\ lock' = [lock EXCEPT ![Target(i)] = IF Current(i).op = "set" THEN 1 ELSE 0]
  /\ Advance(i)
  /\ UNCHANGED <<path, reg, mut, buf>>

Load(i) ==
  /\ Executes(i, "add") /\ reg[i] = None
  /\ reg' = [reg EXCEPT ![i] = buf[Target(i)]]
  /\ UNCHANGED <<at, k, path, lock, mut, buf>>

Store(i) ==
  /\ Executes(i, "add") /\ reg[i] # None
  /\ buf' = [buf EXCEPT ![Target(i)] = reg[i] + Amount(Current(i).place)]
  /\ reg' = [reg EXCEPT ![i] = None]
  /\ Advance(i)
  /\ UNCHANGED <<path, lock, mut>>

Thread(i) == Test(i) \/ Lock(i) \/ Unlock(i) \/ SetFlag(i) \/ Load(i) \/ Store(i)

Create ==
  /\ created < Count /\ created' = created + 1
  /\ UNCHANGED <<waited, shown, threads>>

Join ==
  /\ created = Count /\ waited < Count /\ Finished(waited)
  /\ waited' = waited + 1
  /\ UNCHANGED <<created, shown, threads>>

PrintCell ==
  /\ waited = Count /\ Len(shown) < Count
  /\ shown' = Append(shown, buf[Len(shown)])
  /\ UNCHANGED <<created, waited, threads>>

Next == Create \/ Join \/ PrintCell \/ \E i \in Indices : Thread(i)

Spec == Init /\ [][Next]_vars

-----------------------------------------------------------------------------
TypeOK ==
  /\ created \in 0 .. Count /\ waited \in 0 .. created
  /\ shown \in Seq(Nat) /\ Len(shown) <= Count
  /\ path \in [Indices -> [own : BOOLEAN, right : BOOLEAN]]
  /\ at \in [Indices -> Nat] /\ \A i \in Indices : at[i] \in 1 .. Len(Program(path[i]))
  /\ k \in [Indices -> 0 .. Iterations]
  /\ reg \in [Indices -> Nat \cup {None}]
  /\ lock \in [Indices -> {0, 1}] /\ mut \in [Indices -> Indices \cup {Free}]
  /\ buf \in [Indices -> Nat]

\* Although the flags are stale as soon as they are read and choose different
\* orders for different threads, only one thread at a time is in the midst of
\* its additions, and none of them is lost: mutex 0, meant for one cell, is
\* everybody's (inf19-0.c:35, 83).
NoAdditionLost ==
  \A i \in Indices : reg[i] # None =>
    /\ mut[0] = i
    /\ reg[i] = buf[Target(i)]

\* Thread 1 takes mutex 0 as that of its left neighbour and as its own: it
\* waits for itself, if it does not wait for somebody else before, and main
\* waits for it.  Nothing is ever printed (inf19-0.c:102).
NeverPrints == Iterations > 0 => shown = <<>>

\* The types, no addition lost, and none shown.
Inv == TypeOK /\ NoAdditionLost /\ NeverPrints
=============================================================================
