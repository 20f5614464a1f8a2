----------------------------- MODULE SharedReader -----------------------------
(***************************************************************************)
(* inf20-0.c prints numbers from a shared memory object, when a semaphore  *)
(* says that they are there; inf20-0-test.c puts them there.  Nothing      *)
(* removes the two objects.  They hold less than a page.                   *)
(***************************************************************************)
EXTENDS Integers, Sequences, FiniteSets

CONSTANTS
  Writers, Readers,   \* runs of the two programs
  MaxNumbers          \* bound: numbers a run is asked for

VARIABLES
  asked,      \* how many numbers each run writes or prints
  posts,      \* the semaphore, or Absent
  size,       \* the memory object's size in numbers, or Absent
  cells,      \* its page
  pc,         \* each run: where it is
  j,          \* each run: its loop counter
  printed     \* what each run has printed

vars == <<asked, posts, size, cells, pc, j, printed>>

Absent == -1
Runs == Writers \cup Readers
Page == 0 .. MaxNumbers - 1

Init ==
  /\ asked \in [Runs -> 1 .. MaxNumbers]
  /\ posts = Absent /\ size = Absent
  /\ cells = [k \in Page |-> 0]
  /\ pc = [r \in Runs |-> "semaphore"] /\ j = [r \in Runs |-> 0]
  /\ printed = [r \in Runs |-> <<>>]

From(r, here, there) == pc[r] = here /\ pc' = [pc EXCEPT ![r] = there]

\* sem_open: the test program creates the semaphore if there is none.
CreateSemaphore(w) ==
  /\ From(w, "semaphore", "memory")
  /\ posts' = IF posts = Absent THEN 0 ELSE posts
  /\ UNCHANGED <<asked, size, cells, j, printed>>

CreateMemory(w) ==
  /\ From(w, "memory", "resize")
  /\ size' = IF size = Absent THEN 0 ELSE size
  /\ UNCHANGED <<asked, posts, cells, j, printed>>

\* ftruncate: what is cut off reads as 0 later.
Resize(r, here, there) ==
  /\ From(r, here, there)
  /\ size' = asked[r]
  /\ cells' = [k \in Page |-> IF k >= asked[r] /\ k < size THEN 0 ELSE cells[k]]
  /\ UNCHANGED <<asked, posts, j, printed>>

WriteCell(w) ==
  /\ pc[w] = "write"
  /\ cells' = [cells EXCEPT ![j[w]] = j[w] + 1]
  /\ j' = [j EXCEPT ![w] = (@ + 1) % asked[w]]
  /\ pc' = [pc EXCEPT ![w] = IF j[w] + 1 = asked[w] THEN "show" ELSE "write"]
  /\ UNCHANGED <<asked, posts, size, printed>>

\* The loops that print, of the test program and of the reader.
ShowCell(r, there) ==
  /\ pc[r] = "show"
  /\ printed' = [printed EXCEPT ![r] = Append(@, cells[j[r]])]
  /\ j' = [j EXCEPT ![r] = (@ + 1) % asked[r]]
  /\ pc' = [pc EXCEPT ![r] = IF j[r] + 1 = asked[r] THEN there ELSE "show"]
  /\ UNCHANGED <<asked, posts, size, cells>>

Post(w) ==
  /\ From(w, "post", "ended")
  /\ posts' = posts + 1
  /\ UNCHANGED <<asked, size, cells, j, printed>>

\* The reader creates nothing, and looks at no result: without a semaphore it
\* still cuts the memory to its size, and then sem_wait gets an invalid address;
\* without memory the mapping fails.
OpenSemaphore(r) ==
  /\ From(r, "semaphore", IF posts = Absent THEN "unopened" ELSE "memory")
  /\ UNCHANGED <<asked, posts, size, cells, j, printed>>

OpenMemory(r) ==
  /\ \/ From(r, "memory", IF size = Absent THEN "unmapped" ELSE "resize")
     \/ From(r, "unopened", IF size = Absent THEN "doomed" ELSE "cut")
  /\ UNCHANGED <<asked, posts, size, cells, j, printed>>

\* Mutant: the reader does not wait.
WaitNot(r) ==
  /\ posts' = IF posts > 0 THEN posts - 1 ELSE posts
  /\ From(r, "wait", "show")
  /\ UNCHANGED <<asked, size, cells, j, printed>>

Wait(r) ==
  /\ posts > 0 /\ posts' = posts - 1
  /\ From(r, "wait", "show")
  /\ UNCHANGED <<asked, size, cells, j, printed>>

WaitForNothing(r) ==
  /\ \/ From(r, "doomed", "killed") /\ UNCHANGED posts
     \/ posts > 0 /\ posts' = posts - 1 /\ From(r, "unmapped", "killed")
  /\ UNCHANGED <<asked, size, cells, j, printed>>

Writer(w) ==
  \/ CreateSemaphore(w) \/ CreateMemory(w) \/ Resize(w, "resize", "write") \/ WriteCell(w)
  \/ ShowCell(w, "post") \/ Post(w)

Reader(r) ==
  \/ OpenSemaphore(r) \/ OpenMemory(r) \/ Resize(r, "resize", "wait")
  \/ Resize(r, "cut", "doomed") \/ Wait(r) \/ WaitForNothing(r) \/ ShowCell(r, "ended")

Next == (\E w \in Writers : Writer(w)) \/ (\E r \in Readers : Reader(r))

Fairness == (\A w \in Writers : WF_vars(Writer(w))) /\ (\A r \in Readers : WF_vars(Reader(r)))

Spec == Init /\ [][Next]_vars /\ Fairness

-----------------------------------------------------------------------------
TypeOK ==
  /\ posts \in Nat \cup {Absent} /\ size \in 0 .. MaxNumbers \cup {Absent}
  /\ cells \in [Page -> 0 .. MaxNumbers] /\ j \in [Runs -> Page]

\* What is printed is what was written, by the reader after its wait and by the
\* writer itself, as long as no run asks for fewer numbers: its ftruncate cuts
\* the others off, also those of a writer that is still at work
\* (inf20-0.c:30).
NumbersAreRight ==
  \A r \in Runs : \A k \in DOMAIN printed[r] :
    \/ printed[r][k] = k
    \/ printed[r][k] = 0 /\ \E q \in Runs : asked[q] < k

Inv == TypeOK /\ NumbersAreRight

\* Every run ends, unless readers wait and all posts have been used up.
Settled ==
  /\ \A w \in Writers : pc[w] = "ended"
  /\ \A r \in Readers :
       pc[r] \in {"ended", "killed"} \/ (posts = 0 /\ pc[r] \in {"wait", "unmapped"})

Ends == <>Settled
=============================================================================
