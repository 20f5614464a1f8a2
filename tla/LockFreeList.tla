---------------------------- MODULE LockFreeList -----------------------------
(***************************************************************************)
(* inf19-2.c: N threads push K items each onto a shared list with a weak   *)
(* compare-and-swap on its head; main joins them, prints the list and      *)
(* frees it recursively.                                                   *)
(***************************************************************************)
EXTENDS Integers, Sequences

CONSTANTS N, K

ASSUME SizesAssumption == N \in Nat /\ K \in Nat

Threads == 0 .. N - 1
Items == Threads \X (0 .. K - 1)    \* the K items of each thread
Sentinel == <<-1, -1>>              \* what root points to at the start
Null == <<-2, -2>>
Nodes == Items \cup {Sentinel}

VARIABLES
  root,      \* the head of the list
  link,      \* the next field of every node
  at,        \* where each thread is in insert_nodes
  i,         \* its loop counter
  next,      \* the head it has read
  pushed,    \* history: the items in the order of their successful swaps
  main,      \* where main is
  created,   \* number of threads created
  joined,    \* number of threads joined
  start,     \* the node the printing loop has reached
  printed,   \* the values printed
  stack,     \* the nodes clear_list has entered and not left
  freed      \* the nodes freed

threadVars == <<root, link, at, i, next, pushed>>
mainVars == <<main, created, joined, start, printed, stack, freed>>
vars == <<threadVars, mainVars>>

Item(t) == <<t, i[t]>>

Value(item) == item[1] * K + item[2]

\* The memory of the sentinel is not initialised: it is the first block of a
\* fresh heap, whose pages the kernel fills with zeroes.
Init ==
  /\ root = Sentinel
  /\ link = [n \in Nodes |-> Null]
  /\ at = [t \in Threads |-> "loop"]
  /\ i = [t \in Threads |-> 0]
  /\ next = [t \in Threads |-> Sentinel]
  /\ pushed = <<>>
  /\ main = "create" /\ created = 0 /\ joined = 0
  /\ start = Sentinel /\ printed = <<>> /\ stack = <<>> /\ freed = {}

-----------------------------------------------------------------------------
\* insert_nodes: the head of the for loop.
Loop(t) ==
  /\ t < created /\ at[t] = "loop"
  /\ at' = [at EXCEPT ![t] = IF i[t] < K THEN "read" ELSE "returned"]
  /\ UNCHANGED <<root, link, i, next, pushed, mainVars>>

\* next = *current, new_item->next = next; the new item is still private.
ReadRoot(t) ==
  /\ at[t] = "read"
  /\ next' = [next EXCEPT ![t] = root]
  /\ link' = [link EXCEPT ![Item(t)] = root]
  /\ at' = [at EXCEPT ![t] = "swap"]
  /\ UNCHANGED <<root, i, pushed, mainVars>>

Insert(t) ==
  /\ root' = Item(t)
  /\ pushed' = Append(pushed, Item(t))
  /\ i' = [i EXCEPT ![t] = @ + 1]
  /\ at' = [at EXCEPT ![t] = "loop"]
  /\ UNCHANGED <<link, next, mainVars>>

\* Mutant: a plain store in place of the compare-and-swap.
SwapUnconditionally(t) == at[t] = "swap" /\ Insert(t)

Swap(t) == at[t] = "swap" /\ root = next[t] /\ Insert(t)

\* Mutant: a failed swap only refreshes the expected value.
SwapFailsAndKeepsLink(t) ==
  /\ at[t] = "swap"
  /\ next' = [next EXCEPT ![t] = root]
  /\ UNCHANGED <<root, link, at, i, pushed, mainVars>>

\* The head has moved, or the weak swap fails for no reason; a failed swap
\* leaves the current head in next.
SwapFails(t) ==
  /\ at[t] = "swap"
  /\ next' = [next EXCEPT ![t] = root]
  /\ at' = [at EXCEPT ![t] = "read"]
  /\ UNCHANGED <<root, link, i, pushed, mainVars>>

Thread(t) == Loop(t) \/ ReadRoot(t) \/ Swap(t) \/ SwapFails(t)

-----------------------------------------------------------------------------
Create ==
  /\ main = "create"
  /\ IF created < N THEN created' = created + 1 /\ UNCHANGED main
                    ELSE main' = "join" /\ UNCHANGED created
  /\ UNCHANGED <<threadVars, joined, start, printed, stack, freed>>

\* Mutant: main joins one thread too few.
JoinTooFew ==
  /\ main = "join"
  /\ IF joined < N - 1
     THEN at[joined] = "returned" /\ joined' = joined + 1 /\ UNCHANGED <<main, start>>
     ELSE main' = "print" /\ start' = root /\ UNCHANGED joined
  /\ UNCHANGED <<threadVars, created, printed, stack, freed>>

Join ==
  /\ main = "join"
  /\ IF joined < N
     THEN at[joined] = "returned" /\ joined' = joined + 1 /\ UNCHANGED <<main, start>>
     ELSE main' = "print" /\ start' = root /\ UNCHANGED joined
  /\ UNCHANGED <<threadVars, created, printed, stack, freed>>

PrintValue ==
  /\ main = "print"
  /\ IF link[start] # Null
     THEN /\ printed' = Append(printed, Value(start))
          /\ start' = link[start]
          /\ UNCHANGED <<main, stack>>
     ELSE /\ main' = "enter" /\ stack' = <<root>>
          /\ UNCHANGED <<start, printed>>
  /\ UNCHANGED <<threadVars, created, joined, freed>>

Top == stack[Len(stack)]
Pop == SubSeq(stack, 1, Len(stack) - 1)

\* clear_list: if (head->next) clear_list (head->next) ...
EnterClear ==
  /\ main = "enter"
  /\ IF link[Top] # Null
     THEN stack' = Append(stack, link[Top]) /\ UNCHANGED main
     ELSE stack' = Pop /\ main' = "leave"
  /\ UNCHANGED <<threadVars, created, joined, start, printed, freed>>

\* ... free (head); the sentinel has no successor and is never freed.
LeaveClear ==
  /\ main = "leave"
  /\ IF stack # <<>>
     THEN freed' = freed \cup {Top} /\ stack' = Pop /\ UNCHANGED main
     ELSE main' = "returned" /\ UNCHANGED <<stack, freed>>
  /\ UNCHANGED <<threadVars, created, joined, start, printed>>

Main == Create \/ Join \/ PrintValue \/ EnterClear \/ LeaveClear

Return == main = "returned" /\ UNCHANGED vars

Next == Main \/ Return \/ \E t \in Threads : Thread(t)

\* A swap that could succeed again and again is not failed spuriously for ever.
Spec ==
  /\ Init /\ [][Next]_vars
  /\ WF_vars(Main)
  /\ \A t \in Threads : WF_vars(Thread(t)) /\ SF_vars(Swap(t))

-----------------------------------------------------------------------------
TypeOK ==
  /\ root \in Nodes
  /\ link \in [Nodes -> Nodes \cup {Null}]
  /\ at \in [Threads -> {"loop", "read", "swap", "returned"}]
  /\ i \in [Threads -> 0 .. K]
  /\ \A t \in Threads : at[t] \in {"read", "swap"} => i[t] < K
  /\ next \in [Threads -> Nodes]
  /\ pushed \in Seq(Items)
  /\ main \in {"create", "join", "print", "enter", "leave", "returned"}
  /\ created \in 0 .. N /\ joined \in 0 .. N
  /\ start \in Nodes
  /\ printed \in Seq(Int)
  /\ stack \in Seq(Nodes)
  /\ main = "enter" => stack # <<>>
  /\ freed \subseteq Nodes

\* The list in memory is the history of the pushes: from the head every item
\* links to the one pushed before it, the first one to the sentinel.  No push
\* is lost or overtaken, however the swaps of the threads interleave.
NodeAt(k) == IF k = 0 THEN Sentinel ELSE pushed[k]
ListIsHistory ==
  /\ root = NodeAt(Len(pushed))
  /\ \A k \in 1 .. Len(pushed) : link[pushed[k]] = NodeAt(k - 1)
  /\ link[Sentinel] = Null

\* A thread about to swap has linked its item behind the head it expects.
LinkIsExpected ==
  \A t \in Threads : at[t] = "swap" => link[Item(t)] = next[t]

\* clear_list never follows the link of a node it has freed, frees no node
\* twice, and at the end only the sentinel is left.
NoUseAfterFree ==
  /\ \A k \in 1 .. Len(stack) : stack[k] \notin freed
  /\ main = "returned" => freed = Items

\* The types, the list as the history, and that clear_list only touches memory
\* it has not freed.
Inv == TypeOK /\ ListIsHistory /\ NoUseAfterFree

\* The atomic pushes and the printing order of PushHistory.
History == INSTANCE PushHistory
PushesAreAtomic == History!Safety

\* main prints everything and returns, in spite of failing swaps.
Ends == <>(main = "returned" /\ Len(printed) = N * K)
=============================================================================
