------------------------------ MODULE ParallelMap ------------------------------
(***************************************************************************)
(* inf20-1.c: pmap_process maps a function over an array with one child    *)
(* process for every processor.  The result of fork is stored in an array  *)
(* that parent and child share, and then looked at to tell them apart; a   *)
(* build that does not optimise reads it back from there.                  *)
(***************************************************************************)
EXTENDS Integers, FiniteSets

CONSTANTS
  Processors, \* bound: what get_nprocs () returns
  Counts,     \* bound: the lengths of the array
  Builds,     \* bound: the builds considered, of "keeps" and "reloads"
  Reloading,  \* bound: the processors of a build that reloads
  PageSize,   \* what mmap rounds sizes up to
  PidsAhead,  \* the pids that have room before the semaphore, for every cell
  MaxProcs    \* bound: the number of processes, children of children included

ASSUME ProcessorsAssumption ==
  /\ Processors \subseteq Nat \ {0} /\ MaxProcs \in Nat
  /\ \A n \in Processors : n < MaxProcs
ASSUME CountsAssumption == Counts \subseteq Nat
ASSUME LayoutAssumption == PidsAhead \in Nat
ASSUME BuildsAssumption == Builds \subseteq {"keeps", "reloads"}

VARIABLES
  proc_cnt,
  count,
  build,      \* "keeps" the result of fork in a register, or "reloads" it
  procs,      \* the processes there have been: 1 is the caller
  parent,
  pc, i,      \* where each of them is, and its loop counter
  forked,     \* what fork has returned to it
  pids,       \* shared: what has been stored
  buffer,     \* shared: how often each cell has been computed
  semaphore,
  private,    \* the semaphore lies in memory that fork copies
  misled,     \* history: somebody has read what another process had stored
  failed      \* history: a fork has failed

machine == <<procs, parent, pc, i, forked, pids, buffer, semaphore, private>>
call == <<proc_cnt, count, build>>
vars == <<call, machine, misled, failed>>

Main == 1
Nobody == 0
Ids == 1 .. MaxProcs
Slots == 0 .. proc_cnt - 1

-----------------------------------------------------------------------------
(***************************************************************************)
(* The array, and the layout of the mapping: sizeof (double) is 8,         *)
(* sizeof (int) 4 and sizeof (sem_t) 32.  The semaphore is placed by an    *)
(* index into an array of doubles, computed as if it counted bytes: at 64  *)
(* for every cell, so that PidsAhead is 14.  With more processors than     *)
(* that, the pids reach into the semaphore: its value comes first, then    *)
(* the number of those who wait.                                           *)
(***************************************************************************)
work(c) == c \div proc_cnt
remainder(c) == c % proc_cnt

Share(c, s) ==
  s * work(c) .. (s + 1) * work(c) - 1
    \cup IF s < remainder(c) THEN {work(c) * proc_cnt + s} ELSE {}

MappingSize == (proc_cnt + 1) * 4 + (count + 1) * 8 + 32
SemaphorePlace == (count + 1) * (8 + 4 * PidsAhead)
ValueSlot == (count + 1) * PidsAhead
Pages(n) == (n + PageSize - 1) \div PageSize

Apart == proc_cnt <= ValueSlot
SemaphoreFits == SemaphorePlace + 32 <= Pages(MappingSize) * PageSize

Init ==
  /\ proc_cnt \in Processors /\ count \in Counts /\ build \in Builds
  /\ build = "reloads" => proc_cnt <= Reloading
  /\ procs = {Main} /\ parent = [p \in Ids |-> Nobody]
  /\ pc = [p \in Ids |-> IF p = Main THEN "map" ELSE "none"]
  /\ i = [p \in Ids |-> 0] /\ forked = [p \in Ids |-> 0]
  /\ pids = [s \in Slots |-> 0] /\ buffer = [k \in 0 .. count - 1 |-> 0]
  /\ semaphore = 0 /\ private = FALSE
  /\ misled = FALSE /\ failed = FALSE

\* What a process may find in a slot.
Found(s) ==
  CASE s = ValueSlot     -> {semaphore}
    [] s = ValueSlot + 1 -> {pids[s] + n : n \in -MaxProcs .. MaxProcs}
    [] OTHER             -> {pids[s]}

GoesTo(p, where) == pc' = [pc EXCEPT ![p] = where]

\* Behind the mapping there may be nothing, memory that is shared as well, or
\* memory of which every child gets a copy.
Map ==
  /\ pc[Main] = "map"
  /\ \/ GoesTo(Main, "fork") /\ UNCHANGED private
     \/ ~SemaphoreFits /\ GoesTo(Main, "fork") /\ private' = TRUE
     \/ ~SemaphoreFits /\ GoesTo(Main, "killed") /\ UNCHANGED private
  /\ UNCHANGED <<call, procs, parent, i, forked, pids, buffer, semaphore,
                 misled, failed>>

Fork(p) ==
  /\ pc[p] = "fork" /\ Cardinality(procs) < MaxProcs
  /\ LET q == Cardinality(procs) + 1 IN
       /\ procs' = procs \cup {q}
       /\ parent' = [parent EXCEPT ![q] = p]
       /\ i' = [i EXCEPT ![q] = i[p]]
       /\ forked' = [forked EXCEPT ![p] = q, ![q] = 0]
       /\ pc' = [pc EXCEPT ![p] = "store", ![q] = "store"]
  /\ UNCHANGED <<call, pids, buffer, semaphore, private, misled, failed>>

ForkFails(p) ==
  /\ pc[p] = "fork" /\ ~failed
  /\ failed' = TRUE
  /\ forked' = [forked EXCEPT ![p] = -1]
  /\ GoesTo(p, "store")
  /\ UNCHANGED <<call, procs, parent, i, pids, buffer, semaphore, private, misled>>

Store(p) ==
  /\ pc[p] = "store"
  /\ pids' = [pids EXCEPT ![i[p]] = forked[p]]
  /\ semaphore' = IF i[p] = ValueSlot THEN forked[p] ELSE semaphore
  /\ GoesTo(p, "test")
  /\ UNCHANGED <<call, procs, parent, i, forked, buffer, private, misled, failed>>

\* The loop goes on to the next child, or to the first wait.
Test(p) ==
  /\ pc[p] = "test"
  /\ \E pid \in IF build = "keeps" THEN {forked[p]} ELSE Found(i[p]) :
       LET last == i[p] = proc_cnt - 1 IN
       /\ pc' = [pc EXCEPT ![p] = IF pid = 0 THEN "work" ELSE IF last THEN "wait" ELSE "fork"]
       /\ i' = [i EXCEPT ![p] = IF pid = 0 THEN @ ELSE IF last THEN 0 ELSE @ + 1]
       /\ misled' = (misled \/ (pid = 0) # (forked[p] = 0))
  /\ UNCHANGED <<call, procs, parent, forked, pids, buffer, semaphore, private,
                 failed>>

\* Mutant: the rest of the array is left out.
WorkWithoutRest(p) ==
  /\ pc[p] = "work"
  /\ buffer' = [k \in DOMAIN buffer |->
                  IF k \in Share(count, i[p]) /\ k < work(count) * proc_cnt
                  THEN buffer[k] + 1 ELSE buffer[k]]
  /\ GoesTo(p, "post")
  /\ UNCHANGED <<call, procs, parent, i, forked, pids, semaphore, private,
                 misled, failed>>

Work(p) ==
  /\ pc[p] = "work"
  /\ buffer' = [k \in DOMAIN buffer |->
                  IF k \in Share(count, i[p]) THEN buffer[k] + 1 ELSE buffer[k]]
  /\ GoesTo(p, "post")
  /\ UNCHANGED <<call, procs, parent, i, forked, pids, semaphore, private,
                 misled, failed>>

Post(p) ==
  /\ pc[p] = "post"
  /\ semaphore' = IF private THEN semaphore ELSE semaphore + 1
  /\ GoesTo(p, "exited")
  /\ UNCHANGED <<call, procs, parent, i, forked, pids, buffer, private, misled,
                 failed>>

Wait(p) ==
  /\ pc[p] = "wait" /\ semaphore # 0
  /\ semaphore' = semaphore - 1
  /\ LET last == i[p] = proc_cnt - 1 IN
       /\ i' = [i EXCEPT ![p] = IF last THEN 0 ELSE @ + 1]
       /\ GoesTo(p, IF last THEN "reap" ELSE "wait")
  /\ UNCHANGED <<call, procs, parent, forked, pids, buffer, private, misled,
                 failed>>

\* waitpid: a child, any child for 0 and -1, or an error when there is none.
Meant(p, pid) ==
  {q \in procs : parent[q] = p /\ pc[q] # "reaped" /\ (pid \in {0, -1} \/ q = pid)}

\* Mutant: the error is not expected.
ReapOnlyMeant(p) ==
  /\ pc[p] = "reap"
  /\ LET last == i[p] = proc_cnt - 1 IN
       /\ \E pid \in Found(i[p]) : \E q \in Meant(p, pid) :
            /\ pc[q] = "exited"
            /\ pc' = [pc EXCEPT ![p] = IF last THEN "returned" ELSE "reap", ![q] = "reaped"]
       /\ i' = [i EXCEPT ![p] = IF last THEN 0 ELSE @ + 1]
  /\ UNCHANGED <<call, procs, parent, forked, pids, buffer, semaphore, private,
                 misled, failed>>

Reap(p) ==
  /\ pc[p] = "reap"
  /\ LET last == i[p] = proc_cnt - 1
         then == IF last THEN "returned" ELSE "reap" IN
       /\ \E pid \in Found(i[p]) :
            \/ \E q \in Meant(p, pid) :
                 pc[q] = "exited" /\ pc' = [pc EXCEPT ![p] = then, ![q] = "reaped"]
            \/ Meant(p, pid) = {} /\ GoesTo(p, then)
       /\ i' = [i EXCEPT ![p] = IF last THEN 0 ELSE @ + 1]
  /\ UNCHANGED <<call, procs, parent, forked, pids, buffer, semaphore, private,
                 misled, failed>>

Process(p) ==
  \/ Fork(p) \/ ForkFails(p) \/ Store(p) \/ Test(p) \/ Work(p) \/ Post(p) \/ Wait(p)
  \/ Reap(p)

Next == Map \/ \E p \in procs : Process(p)

\* Every process that can run does.
Fairness == WF_vars(Map) /\ \A p \in Ids : WF_vars(p \in procs /\ Process(p))

Spec == Init /\ [][Next]_vars /\ Fairness

-----------------------------------------------------------------------------
TypeOK ==
  /\ proc_cnt \in Processors /\ count \in Counts /\ build \in Builds
  /\ procs \subseteq Ids /\ parent \in [Ids -> Ids \cup {Nobody}]
  /\ i \in [Ids -> Slots] /\ forked \in [Ids -> Ids \cup {0, -1}]
  /\ pids \in [Slots -> Ids \cup {0, -1}]
  /\ semaphore \in Int /\ private \in BOOLEAN /\ misled \in BOOLEAN /\ failed \in BOOLEAN

Children == {p \in procs : parent[p] = Main}

\* Unless a process has been misled about which one it is, or a pid has been stored
\* over the semaphore (inf20-1.c:40), the result is complete when pmap_process
\* returns, every cell was computed once, and no child is left at work.  A process
\* can only be misled by a build that reads the shared cell back (inf20-1.c:41).
MapIsComplete ==
  /\ misled => build = "reloads"
  /\ pc[Main] = "returned" /\ ~misled /\ Apart =>
       /\ \A k \in DOMAIN buffer : buffer[k] = 1
       /\ \A p \in Children : pc[p] \in {"exited", "reaped"}

\* No two processes that are not misled compute the same cell.
Inv ==
  /\ TypeOK /\ MapIsComplete
  /\ ~misled => \A k \in DOMAIN buffer : buffer[k] <= 1

\* The caller gets its result, although the pids it waits for may have been
\* overwritten with 0 by the children: the causes that can prevent it are a fork
\* that fails, a process that is misled, and a semaphore outside the mapping or
\* under the pids.
Excused == misled \/ failed \/ ~SemaphoreFits \/ ~Apart
Ends == <>(pc[Main] = "returned" \/ Excused)
=============================================================================
