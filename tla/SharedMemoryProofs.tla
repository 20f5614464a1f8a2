-------------------------- MODULE SharedMemoryProofs --------------------------
(***************************************************************************)
(* Proofs about shared memory: the lock-free list of inf19-2.c, which      *)
(* threads share, and the segment of inf21-1.c, which two processes share. *)
(***************************************************************************)
EXTENDS LockFreeList, SharedCall, TLAPS

(***************************************************************************)
(* The list in memory is the history of the pushes.  The strengthening:    *)
(* items on the list are behind their thread's counter, so that the item a *)
(* thread is still preparing is not on the list and may be relinked; and a *)
(* thread about to swap has linked its item behind the head it expects.    *)
(***************************************************************************)
Behind == \A k \in 1 .. Len(pushed) : pushed[k][2] < i[pushed[k][1]]

LInv ==
  /\ TypeOK
  /\ Behind
  /\ LinkIsExpected
  /\ ListIsHistory

LEMMA ItemFacts ==
  ASSUME TypeOK, NEW t \in Threads, i[t] < K
  PROVE  /\ Item(t) \in Items
         /\ Item(t) \in Nodes
         /\ Item(t) # Sentinel
         /\ Item(t)[1] = t /\ Item(t)[2] = i[t]
         /\ \A u \in Threads : u # t => Item(u) # Item(t)
         /\ Behind => \A k \in 1 .. Len(pushed) : pushed[k] # Item(t)
  <1> USE SizesAssumption
  <1>1. i[t] \in 0 .. K - 1
    BY DEF TypeOK
  <1>2. Item(t) \in Items /\ Item(t) \in Nodes
    BY <1>1 DEF Item, Items, Nodes
  <1>3. Item(t) # Sentinel /\ Item(t)[1] = t /\ Item(t)[2] = i[t]
    BY DEF Item, Sentinel, Threads
  <1>4. \A u \in Threads : u # t => Item(u) # Item(t)
    BY DEF Item
  <1>5. Behind => \A k \in 1 .. Len(pushed) : pushed[k] # Item(t)
    BY <1>1, <1>3 DEF Behind
  <1>6. QED BY <1>2, <1>3, <1>4, <1>5

LEMMA LInvInit == Init => LInv
  <1> SUFFICES ASSUME Init PROVE LInv
    OBVIOUS
  <1> USE SizesAssumption
  <1>1. TypeOK
    BY DEF Init, TypeOK, Nodes
  <1>2. Behind /\ LinkIsExpected
    BY DEF Init, Behind, LinkIsExpected
  <1>3. ListIsHistory
    BY DEF Init, ListIsHistory, NodeAt, Nodes
  <1>4. QED BY <1>1, <1>2, <1>3 DEF LInv

LEMMA ThreadTypes ==
  ASSUME TypeOK, NEW t \in Threads, Thread(t)
  PROVE  TypeOK'
  <1> USE SizesAssumption
  <1>1. CASE Loop(t)
    BY <1>1 DEF Loop, TypeOK, mainVars
  <1>2. CASE ReadRoot(t)
    <2>1. Item(t) \in Nodes
      BY <1>2, ItemFacts DEF ReadRoot, TypeOK
    <2>2. link' \in [Nodes -> Nodes \cup {Null}]
      BY <1>2, <2>1 DEF ReadRoot, TypeOK
    <2>3. QED BY <1>2, <2>2 DEF ReadRoot, TypeOK, mainVars
  <1>3. CASE Swap(t)
    <2>1. Item(t) \in Nodes /\ Item(t) \in Items /\ i[t] < K /\ i[t] \in Nat
      BY <1>3, ItemFacts DEF Swap, TypeOK
    <2>2. pushed' \in Seq(Items)
      BY <1>3, <2>1 DEF Swap, Insert, TypeOK
    <2>3. i' \in [Threads -> 0 .. K]
      BY <1>3, <2>1 DEF Swap, Insert, TypeOK
    <2>4. at' \in [Threads -> {"loop", "read", "swap", "returned"}]
      BY <1>3 DEF Swap, Insert, TypeOK
    <2>5. \A u \in Threads : at'[u] \in {"read", "swap"} => i'[u] < K
      BY <1>3 DEF Swap, Insert, TypeOK
    <2>6. UNCHANGED mainVars /\ UNCHANGED <<link, next>> /\ root' \in Nodes
      BY <1>3, <2>1 DEF Swap, Insert
    <2>7. QED
      BY <2>2, <2>3, <2>4, <2>5, <2>6 DEF TypeOK, mainVars
  <1>4. CASE SwapFails(t)
    BY <1>4 DEF SwapFails, TypeOK, mainVars
  <1>5. QED BY <1>1, <1>2, <1>3, <1>4 DEF Thread

LEMMA MainTypes ==
  ASSUME TypeOK, Main
  PROVE  TypeOK' /\ UNCHANGED threadVars
  <1> USE SizesAssumption DEF threadVars
  <1>1. CASE Create
    BY <1>1 DEF Create, TypeOK
  <1>2. CASE Join
    BY <1>2 DEF Join, TypeOK
  <1>3. CASE PrintValue
    <2>1. Value(start) \in Int
      BY DEF Value, TypeOK, Nodes, Items, Sentinel, Threads
    <2>2. CASE link[start] # Null
      <3>1. link[start] \in Nodes
        BY <2>2 DEF TypeOK
      <3>2. printed' \in Seq(Int)
        <4>1. printed \in Seq(Int) /\ printed' = Append(printed, Value(start))
          BY <1>3, <2>2 DEF PrintValue, TypeOK
        <4>2. QED BY <2>1, <4>1
      <3>3. start' \in Nodes /\ main' = "print"
            /\ UNCHANGED <<threadVars, created, joined, freed, stack>>
        BY <1>3, <2>2, <3>1 DEF PrintValue
      <3>4. QED BY <3>2, <3>3 DEF TypeOK
    <2>3. CASE link[start] = Null
      <3>1. stack' \in Seq(Nodes) /\ stack' # <<>>
        <4>1. stack' = <<root>> /\ root \in Nodes
          BY <1>3, <2>3 DEF PrintValue, TypeOK
        <4>2. QED BY <4>1
      <3>2. main' = "enter"
            /\ UNCHANGED <<threadVars, created, joined, freed, start, printed>>
        BY <1>3, <2>3 DEF PrintValue
      <3>3. QED BY <3>1, <3>2 DEF TypeOK
    <2>4. QED BY <2>2, <2>3
  <1>4. CASE EnterClear
    <2>1. /\ stack \in Seq(Nodes) /\ stack # <<>>
          /\ link \in [Nodes -> Nodes \cup {Null}]
      BY <1>4 DEF EnterClear, TypeOK
    <2>2. Len(stack) \in Nat /\ Len(stack) > 0 /\ Top \in Nodes
      BY <2>1 DEF Top
    <2>3. Pop \in Seq(Nodes)
      BY <2>1, <2>2 DEF Pop
    <2>4. ASSUME NEW n \in Nodes
          PROVE  Append(stack, n) \in Seq(Nodes) /\ Append(stack, n) # <<>>
      BY <2>1
    <2>5. CASE link[Top] # Null
      <3>1. link[Top] \in Nodes
        BY <2>1, <2>2, <2>5
      <3>2. QED BY <1>4, <2>4, <2>5, <3>1 DEF EnterClear, TypeOK
    <2>6. CASE link[Top] = Null
      BY <1>4, <2>3, <2>6 DEF EnterClear, TypeOK
    <2>7. QED BY <2>5, <2>6
  <1>5. CASE LeaveClear
    <2>1. CASE stack # <<>>
      <3>1. stack \in Seq(Nodes) /\ Len(stack) \in Nat /\ Len(stack) > 0
        BY <2>1 DEF TypeOK
      <3>2. Pop \in Seq(Nodes) /\ Top \in Nodes
        BY <3>1 DEF Pop, Top
      <3>3. QED BY <1>5, <2>1, <3>2 DEF LeaveClear, TypeOK
    <2>2. CASE stack = <<>>
      BY <1>5, <2>2 DEF LeaveClear, TypeOK
    <2>3. QED BY <2>1, <2>2
  <1>6. QED BY <1>1, <1>2, <1>3, <1>4, <1>5 DEF Main

\* Preparing an item touches no link of the list.
LEMMA ReadRootStep ==
  ASSUME LInv, NEW t \in Threads, ReadRoot(t)
  PROVE  Behind' /\ LinkIsExpected' /\ ListIsHistory'
  <1> USE SizesAssumption
  <1>1. TypeOK /\ Behind /\ LinkIsExpected /\ ListIsHistory
    BY DEF LInv
  <1>2. i[t] < K
    BY <1>1 DEF ReadRoot, TypeOK
  <1>3. /\ Item(t) \in Nodes /\ Item(t) # Sentinel
        /\ \A u \in Threads : u # t => Item(u) # Item(t)
        /\ \A k \in 1 .. Len(pushed) : pushed[k] # Item(t)
    BY <1>1, <1>2, ItemFacts
  <1>4. /\ link' = [link EXCEPT ![Item(t)] = root]
        /\ next' = [next EXCEPT ![t] = root]
        /\ at' = [at EXCEPT ![t] = "swap"]
        /\ root' = root /\ i' = i /\ pushed' = pushed
    BY DEF ReadRoot
  <1>5. \A n \in Nodes : n # Item(t) => link'[n] = link[n]
    BY <1>1, <1>4 DEF TypeOK
  <1>6. link'[Item(t)] = root
    BY <1>1, <1>3, <1>4 DEF TypeOK
  <1>7. Behind'
    BY <1>1, <1>4 DEF Behind
  <1>8. LinkIsExpected'
    <2> SUFFICES ASSUME NEW u \in Threads, at'[u] = "swap"
                 PROVE  link'[Item(u)'] = next'[u]
      BY DEF LinkIsExpected
    <2>1. Item(u)' = Item(u)
      BY <1>4 DEF Item
    <2>2. CASE u = t
      BY <1>1, <1>4, <1>6, <2>1, <2>2 DEF TypeOK
    <2>3. CASE u # t
      <3>1. at[u] = "swap" /\ next'[u] = next[u]
        BY <1>1, <1>4, <2>3 DEF TypeOK
      <3>2. i[u] < K
        BY <1>1, <3>1 DEF TypeOK
      <3>3. Item(u) \in Nodes /\ Item(u) # Item(t)
        BY <1>1, <1>3, <2>3, <3>2, ItemFacts
      <3>4. link[Item(u)] = next[u]
        BY <1>1, <3>1 DEF LinkIsExpected
      <3>5. QED BY <1>5, <2>1, <3>1, <3>3, <3>4
    <2>4. QED BY <2>2, <2>3
  <1>9. ListIsHistory'
    <2>1. \A k \in 1 .. Len(pushed) : pushed[k] \in Nodes
      BY <1>1 DEF TypeOK, Nodes
    <2>2. \A k \in 1 .. Len(pushed) : link'[pushed[k]] = link[pushed[k]]
      BY <1>3, <1>5, <2>1
    <2>3. link'[Sentinel] = link[Sentinel]
      BY <1>3, <1>5 DEF Nodes
    <2>4. QED BY <1>1, <1>4, <2>2, <2>3 DEF ListIsHistory, NodeAt
  <1>10. QED BY <1>7, <1>8, <1>9

\* A successful swap extends the list by the item linked behind its old head.
LEMMA SwapStep ==
  ASSUME LInv, NEW t \in Threads, Swap(t)
  PROVE  Behind' /\ LinkIsExpected' /\ ListIsHistory'
  <1> USE SizesAssumption
  <1>1. TypeOK /\ Behind /\ LinkIsExpected /\ ListIsHistory
    BY DEF LInv
  <1>2. at[t] = "swap" /\ root = next[t] /\ i[t] < K /\ i[t] \in Nat
    BY <1>1 DEF Swap, TypeOK
  <1>3. /\ Item(t) \in Items
        /\ Item(t)[1] = t /\ Item(t)[2] = i[t]
    BY <1>1, <1>2, ItemFacts
  <1>4. /\ root' = Item(t) /\ pushed' = Append(pushed, Item(t))
        /\ i' = [i EXCEPT ![t] = @ + 1]
        /\ at' = [at EXCEPT ![t] = "loop"]
        /\ link' = link /\ next' = next
    BY DEF Swap, Insert
  <1>5. pushed \in Seq(Items) /\ Len(pushed) \in Nat
    BY <1>1 DEF TypeOK
  <1>6. /\ Len(pushed') = Len(pushed) + 1
        /\ pushed'[Len(pushed) + 1] = Item(t)
        /\ \A k \in 1 .. Len(pushed) : pushed'[k] = pushed[k]
    BY <1>3, <1>4, <1>5
  <1>7. \A k \in 1 .. Len(pushed') : k \in 1 .. Len(pushed) \/ k = Len(pushed) + 1
    BY <1>5, <1>6
  <1>8. link[Item(t)] = root
    BY <1>1, <1>2 DEF LinkIsExpected
  <1>9. Behind'
    <2>1. ASSUME NEW k \in 1 .. Len(pushed)
          PROVE  pushed[k][2] < i'[pushed[k][1]]
      <3>1. pushed[k] \in Items
        BY <1>5
      <3>2. pushed[k][1] \in Threads /\ pushed[k][2] \in Int
        BY <3>1 DEF Items
      <3>3. pushed[k][2] < i[pushed[k][1]]
        BY <1>1 DEF Behind
      <3>4. QED BY <1>1, <1>4, <3>2, <3>3 DEF TypeOK
    <2>2. Item(t)[2] < i'[Item(t)[1]]
      BY <1>1, <1>2, <1>3, <1>4 DEF TypeOK
    <2>3. QED BY <1>6, <1>7, <2>1, <2>2 DEF Behind
  <1>10. LinkIsExpected'
    <2> SUFFICES ASSUME NEW u \in Threads, at'[u] = "swap"
                 PROVE  link'[Item(u)'] = next'[u]
      BY DEF LinkIsExpected
    <2>1. u # t /\ at[u] = "swap"
      BY <1>1, <1>4 DEF TypeOK
    <2>2. Item(u)' = Item(u)
      BY <1>1, <1>4, <2>1 DEF Item, TypeOK
    <2>3. QED BY <1>1, <1>4, <2>1, <2>2 DEF LinkIsExpected
  <1>11. ListIsHistory'
    <2>1. Len(pushed') \in Nat /\ Len(pushed') # 0
      BY <1>5, <1>6
    <2>2. root' = NodeAt(Len(pushed))'
      BY <1>4, <1>6, <2>1 DEF NodeAt
    <2>3. ASSUME NEW k \in 1 .. Len(pushed)
          PROVE  link'[pushed'[k]] = NodeAt(k - 1)'
      <3>1. link[pushed[k]] = NodeAt(k - 1)
        BY <1>1 DEF ListIsHistory
      <3>2. NodeAt(k - 1)' = NodeAt(k - 1)
        <4>1. CASE k = 1
          BY <4>1 DEF NodeAt
        <4>2. CASE k # 1
          <5>1. k - 1 \in 1 .. Len(pushed)
            BY <1>5, <4>2
          <5>2. QED BY <1>6, <5>1 DEF NodeAt
        <4>3. QED BY <4>1, <4>2
      <3>3. QED BY <1>4, <1>6, <3>1, <3>2
    <2>4. ASSUME NEW k \in 1 .. Len(pushed'), k = Len(pushed) + 1
          PROVE  link'[pushed'[k]] = NodeAt(k - 1)'
      <3>1. root = NodeAt(Len(pushed))
        BY <1>1 DEF ListIsHistory
      <3>2. NodeAt(k - 1)' = NodeAt(Len(pushed))
        <4>1. k - 1 = Len(pushed)
          BY <1>5, <2>4
        <4>2. CASE Len(pushed) = 0
          BY <4>1, <4>2 DEF NodeAt
        <4>3. CASE Len(pushed) # 0
          <5>1. pushed'[k - 1] = pushed[Len(pushed)]
            BY <1>5, <1>6, <4>1, <4>3
          <5>2. QED BY <4>1, <4>3, <5>1 DEF NodeAt
        <4>4. QED BY <4>2, <4>3
      <3>3. link'[pushed'[k]] = root
        BY <1>4, <1>6, <1>8, <2>4
      <3>4. QED BY <3>1, <3>2, <3>3
    <2>5. link'[Sentinel] = Null
      BY <1>1, <1>4 DEF ListIsHistory
    <2>6. QED BY <1>7, <2>2, <2>3, <2>4, <2>5 DEF ListIsHistory
  <1>12. QED BY <1>9, <1>10, <1>11

LEMMA LInvStep == LInv /\ [Next]_vars => LInv'
  <1> SUFFICES ASSUME LInv, [Next]_vars PROVE LInv'
    OBVIOUS
  <1>1. TypeOK
    BY DEF LInv
  <1>2. ASSUME NEW t \in Threads, Thread(t) PROVE LInv'
    <2>1. TypeOK'
      BY <1>1, <1>2, ThreadTypes
    <2>2. CASE Loop(t)
      BY <1>1, <2>1, <2>2
         DEF Loop, LInv, TypeOK, Behind, LinkIsExpected, ListIsHistory, NodeAt, Item
    <2>3. CASE ReadRoot(t)
      BY <2>1, <2>3, ReadRootStep DEF LInv
    <2>4. CASE Swap(t)
      BY <2>1, <2>4, SwapStep DEF LInv
    <2>5. CASE SwapFails(t)
      BY <1>1, <2>1, <2>5
         DEF SwapFails, LInv, TypeOK, Behind, LinkIsExpected, ListIsHistory, NodeAt, Item
    <2>6. QED BY <1>2, <2>2, <2>3, <2>4, <2>5 DEF Thread
  <1>3. CASE Main
    <2>1. TypeOK' /\ UNCHANGED threadVars
      BY <1>1, <1>3, MainTypes
    <2>2. QED
      BY <2>1
         DEF threadVars, LInv, Behind, LinkIsExpected, ListIsHistory, NodeAt, Item
  <1>4. CASE UNCHANGED vars
    BY <1>4 DEF vars, threadVars, mainVars, LInv, TypeOK, Behind, LinkIsExpected,
                ListIsHistory, NodeAt, Item
  <1>5. QED BY <1>2, <1>3, <1>4 DEF Next, Return

\* Every variable of the list, its threads and main keeps its type, whatever
\* the number of threads and items.
THEOREM ListTypes == Spec => []TypeOK
  <1>1. LInv => TypeOK
    BY DEF LInv
  <1>2. QED BY <1>1, LInvInit, LInvStep, PTL DEF Spec

\* For every number of threads and of items the list in memory is the history
\* of the pushes: no push of insert_nodes is lost, duplicated or cut off by
\* the swap of another thread.
THEOREM ListIntegrity == Spec => []ListIsHistory
  <1>1. LInv => ListIsHistory
    BY DEF LInv
  <1>2. QED BY <1>1, LInvInit, LInvStep, PTL DEF Spec

(***************************************************************************)
(* clear_list.  What main relies on when it has joined the threads: every  *)
(* item has been pushed once.  Its stack is then the list from the head    *)
(* down, and what it has freed is what was below its stack.                *)
(***************************************************************************)
AllPushed ==
  \A u \in Threads : \A j \in 0 .. K - 1 :
    j < i[u] => \E n \in 1 .. Len(pushed) : pushed[n] = <<u, j>>

PushedOnce ==
  \A j, n \in 1 .. Len(pushed) : pushed[j] = pushed[n] => j = n

Joined ==
  /\ \A t \in Threads : at[t] = "returned" => i[t] = K
  /\ \A t \in Threads : t < joined => at[t] = "returned"
  /\ main \notin {"create", "join"} => joined = N

StackIsList ==
  \A n \in 1 .. Len(stack) : stack[n] = NodeAt(Len(pushed) - n + 1)

Clearing ==
  /\ StackIsList
  /\ main \in {"create", "join", "print", "returned"} => stack = <<>>
  /\ main \in {"create", "join", "print", "enter"} => freed = {}
  /\ Len(stack) <= Len(pushed) + (IF main = "enter" THEN 1 ELSE 0)
  /\ main \in {"leave", "returned"} =>
       \A x : x \in freed <=> \E n \in 1 .. Len(pushed) - Len(stack) : pushed[n] = x

CInv == LInv /\ AllPushed /\ PushedOnce /\ Joined /\ Clearing

LEMMA CInvInit == Init => CInv
  <1> SUFFICES ASSUME Init PROVE CInv
    OBVIOUS
  <1>1. AllPushed /\ PushedOnce
    BY SizesAssumption DEF Init, AllPushed, PushedOnce
  <1>2. Joined
    BY SizesAssumption DEF Init, Joined, Threads
  <1>3. Clearing
    BY DEF Init, Clearing, StackIsList
  <1>4. QED BY <1>1, <1>2, <1>3, LInvInit DEF CInv

LEMMA ThreadsKeepCInv ==
  ASSUME CInv, NEW t \in Threads, Thread(t)
  PROVE  AllPushed' /\ PushedOnce' /\ Joined' /\ Clearing'
  <1> USE SizesAssumption DEF mainVars
  <1>1. TypeOK /\ Behind /\ AllPushed /\ PushedOnce /\ Joined /\ Clearing
    BY DEF CInv, LInv
  <1>2. at[t] # "returned" /\ UNCHANGED mainVars
    BY DEF Thread, Loop, ReadRoot, Swap, SwapFails, Insert
  <1>3. t \in Nat /\ t < N /\ joined \in Nat
    BY <1>1 DEF Threads, TypeOK
  <1>4. main \in {"create", "join"}
    BY <1>1, <1>2, <1>3 DEF Joined
  <1>5. stack = <<>> /\ freed = {}
    BY <1>1, <1>4 DEF Clearing
  <1>6. Len(pushed') \in Nat
    <2>1. TypeOK'
      BY <1>1, ThreadTypes
    <2>2. QED BY <2>1 DEF TypeOK
  <1>7. Clearing'
    BY <1>2, <1>4, <1>5, <1>6 DEF Clearing, StackIsList
  <1>8. Joined'
    <2>1. \A u \in Threads : at'[u] = "returned" => i'[u] = K
      <3>1. CASE Loop(t)
        BY <1>1, <3>1 DEF Loop, Joined, TypeOK
      <3>2. CASE ReadRoot(t)
        BY <1>1, <3>2 DEF ReadRoot, Joined, TypeOK
      <3>3. CASE Swap(t)
        BY <1>1, <3>3 DEF Swap, Insert, Joined, TypeOK
      <3>4. CASE SwapFails(t)
        BY <1>1, <3>4 DEF SwapFails, Joined, TypeOK
      <3>5. QED BY <3>1, <3>2, <3>3, <3>4 DEF Thread
    <2>2. \A u \in Threads : at[u] = "returned" => at'[u] = "returned"
      BY <1>1, <1>2 DEF Thread, Loop, ReadRoot, Swap, SwapFails, Insert, TypeOK
    <2>3. QED BY <1>1, <1>2, <1>4, <2>1, <2>2 DEF Joined
  <1>9. AllPushed' /\ PushedOnce'
    <2>1. CASE UNCHANGED <<i, pushed>>
      BY <1>1, <2>1 DEF AllPushed, PushedOnce
    <2>2. CASE Swap(t)
      <3>1. i[t] < K /\ i[t] \in Nat
        BY <1>1, <2>2 DEF Swap, TypeOK
      <3>2. /\ Item(t) \in Items /\ Item(t) = <<t, i[t]>>
            /\ \A n \in 1 .. Len(pushed) : pushed[n] # Item(t)
        BY <1>1, <3>1, ItemFacts DEF Item
      <3>3. pushed \in Seq(Items) /\ pushed' = Append(pushed, Item(t))
            /\ i' = [i EXCEPT ![t] = @ + 1]
        BY <1>1, <2>2 DEF Swap, Insert, TypeOK
      <3>4. /\ Len(pushed') = Len(pushed) + 1 /\ Len(pushed) \in Nat
            /\ pushed'[Len(pushed) + 1] = Item(t)
            /\ \A n \in 1 .. Len(pushed) : pushed'[n] = pushed[n]
        BY <3>2, <3>3
      <3>5. PushedOnce'
        BY <1>1, <3>2, <3>4 DEF PushedOnce
      <3>6. ASSUME NEW u \in Threads, NEW j \in 0 .. K - 1, j < i'[u]
            PROVE  \E n \in 1 .. Len(pushed') : pushed'[n] = <<u, j>>
        <4>1. CASE u = t /\ j = i[t]
          BY <3>2, <3>4, <4>1
        <4>2. CASE ~(u = t /\ j = i[t])
          <5>1. j < i[u]
            BY <1>1, <3>1, <3>3, <3>6, <4>2 DEF TypeOK
          <5>2. PICK n \in 1 .. Len(pushed) : pushed[n] = <<u, j>>
            BY <1>1, <5>1 DEF AllPushed
          <5>3. QED BY <3>4, <5>2
        <4>3. QED BY <4>1, <4>2
      <3>7. QED BY <3>5, <3>6 DEF AllPushed
    <2>3. QED
      BY <2>1, <2>2 DEF Thread, Loop, ReadRoot, SwapFails
  <1>10. QED BY <1>7, <1>8, <1>9

\* The stack of clear_list follows the links of the list.
LEMMA ListDown ==
  ASSUME LInv, StackIsList, stack # <<>>, Len(stack) <= Len(pushed) + 1
  PROVE  /\ Len(stack) \in Nat \ {0}
         /\ Top = NodeAt(Len(pushed) - Len(stack) + 1)
         /\ Len(stack) <= Len(pushed) =>
              /\ link[Top] = NodeAt(Len(pushed) - Len(stack))
              /\ link[Top] # Null
         /\ Len(stack) = Len(pushed) + 1 => link[Top] = Null
  <1>1. TypeOK /\ ListIsHistory /\ Len(pushed) \in Nat
    BY DEF LInv, TypeOK
  <1>2. Len(stack) \in Nat \ {0}
    BY <1>1 DEF TypeOK
  <1>3. Top = NodeAt(Len(pushed) - Len(stack) + 1)
    BY <1>2 DEF Top, StackIsList
  <1>4. ASSUME Len(stack) <= Len(pushed)
        PROVE  link[Top] = NodeAt(Len(pushed) - Len(stack)) /\ link[Top] # Null
    <2> DEFINE k == Len(pushed) - Len(stack) + 1
    <2>1. k \in 1 .. Len(pushed) /\ k - 1 = Len(pushed) - Len(stack)
      BY <1>1, <1>2, <1>4
    <2> HIDE DEF k
    <2>2. Top = pushed[k]
      BY <1>3, <2>1 DEF NodeAt, k
    <2>3. link[Top] = NodeAt(k - 1)
      BY <1>1, <2>1, <2>2 DEF ListIsHistory
    <2>4. NodeAt(k - 1) # Null
      <3>1. CASE k = 1
        BY <3>1 DEF NodeAt, Null, Sentinel
      <3>2. CASE k # 1
        <4>1. k - 1 \in 1 .. Len(pushed) /\ k - 1 # 0
          BY <2>1, <3>2
        <4>2. pushed[k - 1] \in Items
          BY <1>1, <4>1 DEF TypeOK
        <4>3. pushed[k - 1] # Null
          BY <4>2, SizesAssumption DEF Items, Threads, Null
        <4>4. QED BY <4>1, <4>3 DEF NodeAt
      <3>3. QED BY <3>1, <3>2
    <2>5. QED BY <2>1, <2>3, <2>4
  <1>5. ASSUME Len(stack) = Len(pushed) + 1 PROVE link[Top] = Null
    <2>1. Len(pushed) - Len(stack) + 1 = 0
      BY <1>1, <1>2, <1>5
    <2>2. QED BY <1>1, <1>3, <2>1 DEF NodeAt, ListIsHistory
  <1>6. QED BY <1>2, <1>3, <1>4, <1>5

LEMMA MainKeepsCInv ==
  ASSUME CInv, Main
  PROVE  AllPushed' /\ PushedOnce' /\ Joined' /\ Clearing'
  <1> USE SizesAssumption
  <1>1. TypeOK /\ LInv /\ AllPushed /\ PushedOnce /\ Joined /\ Clearing
    BY DEF CInv, LInv
  <1>2. UNCHANGED <<root, link, at, i, next, pushed>>
    BY <1>1, MainTypes DEF threadVars
  <1>3. AllPushed' /\ PushedOnce'
    BY <1>1, <1>2 DEF AllPushed, PushedOnce
  <1>4. \A n : NodeAt(n)' = NodeAt(n)
    BY <1>2 DEF NodeAt
  <1>5. Len(pushed) \in Nat /\ stack \in Seq(Nodes) /\ Len(stack) \in Nat
    BY <1>1 DEF TypeOK
  <1>6. Joined'
    BY <1>1, <1>2 DEF Main, Create, Join, PrintValue, EnterClear, LeaveClear, Joined,
       TypeOK, threadVars, Threads
  <1>7. CASE Create \/ Join
    <2>1. /\ UNCHANGED <<stack, freed>>
          /\ main \in {"create", "join"} /\ main' \in {"create", "join", "print"}
      BY <1>7 DEF Create, Join
    <2>2. QED BY <1>1, <1>2, <1>3, <1>4, <1>6, <2>1 DEF Clearing, StackIsList
  <1>8. CASE PrintValue
    <2>1. stack = <<>> /\ freed = {} /\ freed' = {} /\ main' \in {"print", "enter"}
      BY <1>1, <1>8 DEF PrintValue, Clearing
    <2>2. CASE stack' = stack /\ main' = "print"
      BY <1>1, <1>2, <1>3, <1>4, <1>6, <2>1, <2>2 DEF Clearing, StackIsList
    <2>3. CASE stack' = <<root>> /\ main' = "enter"
      <3>1. Len(stack') = 1 /\ stack'[1] = NodeAt(Len(pushed))
        BY <1>1, <2>3 DEF LInv, ListIsHistory
      <3>2. StackIsList'
        BY <1>2, <1>4, <1>5, <3>1 DEF StackIsList
      <3>3. QED BY <1>2, <1>3, <1>5, <1>6, <2>1, <2>3, <3>1, <3>2 DEF Clearing
    <2>4. QED BY <1>8, <2>2, <2>3 DEF PrintValue
  <1>9. CASE EnterClear
    <2>1. /\ main = "enter" /\ stack # <<>> /\ freed = {} /\ freed' = {}
          /\ StackIsList /\ Len(stack) <= Len(pushed) + 1
      BY <1>1, <1>9 DEF EnterClear, Clearing, TypeOK
    <2>2. /\ Len(stack) \in Nat \ {0}
          /\ Len(stack) <= Len(pushed) =>
               /\ link[Top] = NodeAt(Len(pushed) - Len(stack))
               /\ link[Top] # Null
          /\ Len(stack) = Len(pushed) + 1 => link[Top] = Null
      BY <1>1, <2>1, ListDown
    <2>3. CASE Len(stack) <= Len(pushed)
      <3>1. /\ main' = "enter" /\ stack' = Append(stack, link[Top])
            /\ link[Top] = NodeAt(Len(pushed) - Len(stack)) /\ link[Top] \in Nodes
        BY <1>1, <1>9, <2>2, <2>3 DEF EnterClear, TypeOK, Top
      <3>2. /\ Len(stack') = Len(stack) + 1
            /\ stack'[Len(stack) + 1] = link[Top]
            /\ \A n \in 1 .. Len(stack) : stack'[n] = stack[n]
        BY <1>5, <3>1
      <3>3. ASSUME NEW n \in 1 .. Len(stack')
            PROVE  stack'[n] = NodeAt(Len(pushed) - n + 1)
        <4>1. CASE n \in 1 .. Len(stack)
          BY <2>1, <3>2, <4>1 DEF StackIsList
        <4>2. CASE n = Len(stack) + 1
          <5>1. Len(pushed) - n + 1 = Len(pushed) - Len(stack)
            BY <1>5, <4>2
          <5>2. QED BY <3>1, <3>2, <4>2, <5>1
        <4>3. QED BY <1>5, <3>2, <4>1, <4>2
      <3>4. StackIsList'
        BY <1>2, <1>4, <3>3 DEF StackIsList
      <3>5. QED BY <1>2, <1>3, <1>5, <1>6, <2>1, <2>3, <3>1, <3>2, <3>4 DEF Clearing
    <2>4. CASE Len(stack) = Len(pushed) + 1
      <3>1. main' = "leave" /\ stack' = Pop
        BY <1>9, <2>2, <2>4 DEF EnterClear
      <3>2. /\ Len(stack') = Len(pushed)
            /\ \A n \in 1 .. Len(stack') : stack'[n] = stack[n] /\ n \in 1 .. Len(stack)
        BY <1>5, <2>4, <3>1 DEF Pop
      <3>3. StackIsList'
        BY <1>2, <1>4, <2>1, <3>2 DEF StackIsList
      <3>4. \A x : ~ \E n \in 1 .. Len(pushed) - Len(stack') : pushed[n] = x
        BY <1>5, <3>2
      <3>5. QED BY <1>2, <1>3, <1>5, <1>6, <2>1, <3>1, <3>2, <3>3, <3>4 DEF Clearing
    <2>5. QED BY <1>5, <2>1, <2>3, <2>4
  <1>10. CASE LeaveClear
    <2>1. /\ main = "leave" /\ StackIsList /\ Len(stack) <= Len(pushed)
          /\ \A x : x \in freed <=> \E n \in 1 .. Len(pushed) - Len(stack) : pushed[n] = x
      BY <1>1, <1>10 DEF LeaveClear, Clearing
    <2>2. CASE stack = <<>>
      BY <1>2, <1>3, <1>4, <1>6, <1>10, <2>1, <2>2 DEF LeaveClear, Clearing, StackIsList
    <2>3. CASE stack # <<>>
      <3>1. Len(stack) \in Nat \ {0} /\ Top = NodeAt(Len(pushed) - Len(stack) + 1)
        BY <1>1, <1>5, <2>1, <2>3, ListDown
      <3>2. main' = "leave" /\ stack' = Pop /\ freed' = freed \cup {Top}
        BY <1>10, <2>1, <2>3 DEF LeaveClear
      <3>3. /\ Len(stack') = Len(stack) - 1
            /\ \A n \in 1 .. Len(stack') : stack'[n] = stack[n] /\ n \in 1 .. Len(stack)
        <4> DEFINE l == Len(stack) - 1
        <4>1. l \in Nat /\ l <= Len(stack) /\ stack' = SubSeq(stack, 1, l)
          BY <1>5, <3>1, <3>2 DEF Pop
        <4> HIDE DEF l
        <4>2. Len(stack') = l
          BY <1>5, <4>1
        <4>3. \A n \in 1 .. l : stack'[n] = stack[n] /\ n \in 1 .. Len(stack)
          BY <1>5, <4>1
        <4>4. QED BY <4>2, <4>3 DEF l
      <3>4. StackIsList'
        BY <1>2, <1>4, <2>1, <3>3 DEF StackIsList
      <3> DEFINE k == Len(pushed) - Len(stack) + 1
      <3>5. k \in 1 .. Len(pushed) /\ Len(pushed) - Len(stack') = k
            /\ Len(pushed) - Len(stack) = k - 1
        BY <1>5, <2>1, <3>1, <3>3
      <3> HIDE DEF k
      <3>6. Top = pushed[k]
        BY <3>1, <3>5 DEF NodeAt, k
      <3>7. ASSUME NEW x
            PROVE  x \in freed' <=> \E n \in 1 .. k : pushed[n] = x
        <4>1. x \in freed' <=> (x \in freed \/ x = Top)
          BY <3>2
        <4>2. x \in freed <=> \E n \in 1 .. k - 1 : pushed[n] = x
          BY <2>1, <3>5
        <4>3. \A n : n \in 1 .. k <=> (n \in 1 .. k - 1 \/ n = k)
          BY <3>5
        <4>4. QED BY <3>6, <4>1, <4>2, <4>3
      <3>8. QED
        BY <1>2, <1>3, <1>5, <1>6, <2>1, <3>2, <3>3, <3>4, <3>5, <3>7 DEF Clearing
    <2>4. QED BY <2>2, <2>3
  <1>11. QED BY <1>3, <1>6, <1>7, <1>8, <1>9, <1>10 DEF Main

LEMMA CInvStep == CInv /\ [Next]_vars => CInv'
  <1> SUFFICES ASSUME CInv, [Next]_vars PROVE CInv'
    OBVIOUS
  <1>1. LInv'
    BY LInvStep DEF CInv
  <1>2. CASE \E t \in Threads : Thread(t)
    BY <1>1, <1>2, ThreadsKeepCInv DEF CInv
  <1>3. CASE Main
    BY <1>1, <1>3, MainKeepsCInv DEF CInv
  <1>4. CASE UNCHANGED vars
    BY <1>1, <1>4
       DEF vars, threadVars, mainVars, CInv, AllPushed, PushedOnce, Joined, Clearing,
           StackIsList, NodeAt
  <1>5. QED BY <1>2, <1>3, <1>4 DEF Next, Return

\* For every number of threads and of items clear_list frees every item of the
\* list once, touches none after it has freed it, and leaves the sentinel.
LEMMA ClearIsSafe == CInv => NoUseAfterFree
  <1> SUFFICES ASSUME CInv PROVE NoUseAfterFree
    OBVIOUS
  <1> USE SizesAssumption
  <1>1. TypeOK /\ AllPushed /\ PushedOnce /\ Joined /\ Clearing
    BY DEF CInv, LInv
  <1>2. Len(pushed) \in Nat /\ Len(stack) \in Nat /\ pushed \in Seq(Items)
    BY <1>1 DEF TypeOK
  <1>3. ASSUME NEW n \in 1 .. Len(stack) PROVE stack[n] \notin freed
    <2>1. CASE freed = {}
      BY <2>1
    <2>2. CASE main = "leave"
      <3>1. /\ stack[n] = NodeAt(Len(pushed) - n + 1) /\ Len(stack) <= Len(pushed)
            /\ \A x : x \in freed <=> \E k \in 1 .. Len(pushed) - Len(stack) : pushed[k] = x
        BY <1>1, <2>2 DEF Clearing, StackIsList
      <3> DEFINE m == Len(pushed) - n + 1
      <3>2. m \in 1 .. Len(pushed) /\ m > Len(pushed) - Len(stack)
        BY <1>2, <3>1
      <3> HIDE DEF m
      <3>3. stack[n] = pushed[m]
        BY <3>1, <3>2 DEF NodeAt, m
      <3>4. ASSUME NEW k \in 1 .. Len(pushed) - Len(stack), pushed[k] = stack[n]
            PROVE  FALSE
        <4>1. k \in 1 .. Len(pushed) /\ k # m
          BY <1>2, <3>2
        <4>2. QED BY <1>1, <3>2, <3>3, <3>4, <4>1 DEF PushedOnce
      <3>5. QED BY <3>1, <3>4
    <2>3. CASE stack = <<>>
      BY <2>3
    <2>4. QED BY <1>1, <2>1, <2>2, <2>3 DEF Clearing, TypeOK
  <1>4. ASSUME main = "returned" PROVE freed = Items
    <2>1. Len(stack) = 0 /\ joined = N
      BY <1>1, <1>4 DEF Clearing, Joined
    <2>2. \A x : x \in freed <=> \E n \in 1 .. Len(pushed) : pushed[n] = x
      BY <1>1, <1>2, <1>4, <2>1 DEF Clearing
    <2>3. ASSUME NEW u \in Threads, NEW j \in 0 .. K - 1
          PROVE  \E n \in 1 .. Len(pushed) : pushed[n] = <<u, j>>
      <3>1. at[u] = "returned"
        BY <1>1, <2>1 DEF Joined, Threads
      <3>2. i[u] = K /\ j < i[u]
        BY <1>1, <3>1 DEF Joined
      <3>3. QED BY <1>1, <3>2 DEF AllPushed
    <2>4. ASSUME NEW x \in Items PROVE x \in freed
      <3>1. PICK u \in Threads, j \in 0 .. K - 1 : x = <<u, j>>
        BY DEF Items
      <3>2. QED BY <2>2, <2>3, <3>1
    <2>5. \A x \in freed : x \in Items
      BY <1>2, <2>2
    <2>6. QED BY <2>4, <2>5
  <1>5. QED BY <1>3, <1>4 DEF NoUseAfterFree

\* The invariant of the list, for every number of threads and of items: types,
\* the history of the pushes, and no use after free.
THEOREM ListSafety == Spec => []Inv
  <1>1. CInv => Inv
    BY ClearIsSafe DEF CInv, LInv, Inv
  <1>2. QED BY <1>1, CInvInit, CInvStep, PTL DEF Spec

-----------------------------------------------------------------------------
(***************************************************************************)
(* The list implements PushHistory.  What has to be added is where the     *)
(* printing loop is: as far behind the head as values have been printed.   *)
(***************************************************************************)
Printing ==
  /\ main \in {"create", "join"} => printed = <<>>
  /\ main = "print" => /\ Len(printed) <= Len(pushed)
                       /\ start = NodeAt(Len(pushed) - Len(printed))

LEMMA PrintingInit == Init => Printing
  BY DEF Init, Printing

LEMMA PrintingStep == CInv /\ Printing /\ [Next]_vars => Printing'
  <1> SUFFICES ASSUME CInv, Printing, [Next]_vars PROVE Printing'
    OBVIOUS
  <1> USE SizesAssumption
  <1>1. TypeOK /\ ListIsHistory /\ Joined
    BY DEF CInv, LInv
  <1>2. Len(pushed) \in Nat /\ Len(printed) \in Nat
    BY <1>1 DEF TypeOK
  <1>3. ASSUME NEW t \in Threads, Thread(t) PROVE Printing'
    <2>1. at[t] # "returned" /\ UNCHANGED mainVars
      BY <1>3 DEF Thread, Loop, ReadRoot, Swap, SwapFails, Insert
    <2>2. main \in {"create", "join"}
      BY <1>1, <2>1 DEF Joined, Threads, TypeOK
    <2>3. QED BY <2>1, <2>2 DEF Printing, mainVars
  <1>4. CASE Main
    <2>1. UNCHANGED pushed /\ \A n : NodeAt(n)' = NodeAt(n)
      BY <1>1, <1>4, MainTypes DEF threadVars, NodeAt
    <2>2. CASE Create \/ EnterClear \/ LeaveClear
      BY <1>1, <2>2 DEF Create, EnterClear, LeaveClear, Printing, TypeOK
    <2>3. CASE Join
      <3>1. printed' = <<>> /\ Len(printed') = 0
        BY <2>3 DEF Join, Printing
      <3>2. main' = "print" => start' = NodeAt(Len(pushed))
        BY <1>1, <2>3 DEF Join, ListIsHistory
      <3>3. QED BY <1>2, <2>1, <3>1, <3>2 DEF Printing
    <2>4. CASE PrintValue
      <3>1. CASE link[start] = Null
        BY <2>4, <3>1 DEF PrintValue, Printing
      <3>2. CASE link[start] # Null
        <4> DEFINE n == Len(pushed) - Len(printed)
        <4>1. /\ main' = "print" /\ start = NodeAt(n) /\ n \in 0 .. Len(pushed)
              /\ start' = link[start] /\ Len(printed') = Len(printed) + 1
          BY <1>1, <1>2, <2>4, <3>2 DEF PrintValue, Printing, TypeOK
        <4>2. n # 0
          BY <1>1, <3>2, <4>1 DEF ListIsHistory, NodeAt
        <4>3. start' = NodeAt(n - 1)
          BY <1>1, <1>2, <4>1, <4>2 DEF ListIsHistory, NodeAt
        <4>4. n - 1 = Len(pushed') - Len(printed') /\ Len(printed') <= Len(pushed')
          BY <1>2, <2>1, <4>1, <4>2
        <4>5. QED BY <2>1, <4>1, <4>3, <4>4 DEF Printing
      <3>3. QED BY <3>1, <3>2
    <2>5. QED BY <1>4, <2>2, <2>3, <2>4 DEF Main
  <1>5. CASE UNCHANGED vars
    BY <1>5 DEF vars, threadVars, mainVars, Printing, NodeAt
  <1>6. QED BY <1>3, <1>4, <1>5 DEF Next, Return

LEMMA HistoryInvariant == Spec => [](CInv /\ Printing)
  BY CInvInit, CInvStep, PrintingInit, PrintingStep, PTL DEF Spec

\* What a thread has pushed are the items below its loop counter.
LEMMA DoneIsBelow ==
  ASSUME CInv, NEW t \in Threads
  PROVE  History!Done(t) = 0 .. i[t] - 1
  <1> USE SizesAssumption
  <1>1. /\ TypeOK /\ Behind /\ AllPushed
        /\ pushed \in Seq(Items) /\ i[t] \in 0 .. K
        /\ DOMAIN pushed = 1 .. Len(pushed)
    BY DEF CInv, LInv, TypeOK
  <1>2. ASSUME NEW k \in History!Done(t) PROVE k \in 0 .. i[t] - 1
    <2>1. k \in 0 .. K - 1 /\ \E n \in DOMAIN pushed : pushed[n] = <<t, k>>
      BY DEF History!Done
    <2>2. PICK n \in 1 .. Len(pushed) : pushed[n] = <<t, k>>
      BY <1>1, <2>1
    <2>3. k < i[t]
      BY <1>1, <2>2 DEF Behind
    <2>4. QED BY <1>1, <2>1, <2>3
  <1>3. ASSUME NEW k \in 0 .. i[t] - 1 PROVE k \in History!Done(t)
    <2>1. k \in 0 .. K - 1 /\ k < i[t]
      BY <1>1
    <2>2. PICK n \in 1 .. Len(pushed) : pushed[n] = <<t, k>>
      BY <1>1, <2>1 DEF AllPushed
    <2>3. \E m \in DOMAIN pushed : pushed[m] = <<t, k>>
      BY <1>1, <2>2
    <2>4. QED BY <2>1, <2>3 DEF History!Done
  <1>4. QED BY <1>2, <1>3

LEMMA SwapPushes ==
  ASSUME CInv, NEW t \in Threads, Swap(t)
  PROVE  History!Next
  <1> USE SizesAssumption
  <1>1. TypeOK
    BY DEF CInv, LInv
  <1>2. i[t] \in 0 .. K - 1
    BY <1>1 DEF Swap, TypeOK
  <1>3. History!Push(t, i[t])
    BY DoneIsBelow DEF Swap, Insert, Item, mainVars, History!Push
  <1>4. QED BY <1>2, <1>3 DEF History!Next, Threads

LEMMA PrintValuePrints ==
  ASSUME CInv, Printing, PrintValue
  PROVE  History!PrintValue \/ UNCHANGED <<pushed, printed>>
  <1> USE SizesAssumption
  <1>1. TypeOK /\ ListIsHistory /\ Joined
    BY DEF CInv, LInv
  <1>2. CASE link[start] = Null
    BY <1>2 DEF PrintValue, threadVars
  <1>3. CASE link[start] # Null
    <2>1. \A t \in 0 .. N - 1 : History!Done(t) = 0 .. K - 1
      <3> SUFFICES ASSUME NEW t \in Threads PROVE History!Done(t) = 0 .. K - 1
        BY DEF Threads
      <3>1. i[t] = K
        BY <1>1 DEF PrintValue, Joined, Threads
      <3>2. QED BY <3>1, DoneIsBelow
    <2> DEFINE n == Len(pushed) - Len(printed)
    <2>2. /\ Len(pushed) \in Nat /\ Len(printed) \in Nat
          /\ n \in 0 .. Len(pushed) /\ start = NodeAt(n)
      BY <1>1 DEF PrintValue, Printing, TypeOK
    <2>3. n # 0
      BY <1>1, <1>3, <2>2 DEF ListIsHistory, NodeAt
    <2>4. Len(printed) < Len(pushed) /\ start = pushed[n]
      BY <2>2, <2>3 DEF NodeAt
    <2>5. printed' = Append(printed, History!Value(pushed[n])) /\ UNCHANGED pushed
      BY <1>3, <2>4 DEF PrintValue, threadVars, Value, History!Value
    <2>6. QED BY <2>1, <2>4, <2>5 DEF History!PrintValue
  <1>4. QED BY <1>2, <1>3

LEMMA HistoryStep ==
  CInv /\ Printing /\ [Next]_vars => [History!Next]_<<pushed, printed>>
  <1> SUFFICES ASSUME CInv, Printing, [Next]_vars
               PROVE  History!Next \/ UNCHANGED <<pushed, printed>>
    OBVIOUS
  <1>1. ASSUME NEW t \in Threads, Thread(t)
        PROVE  History!Next \/ UNCHANGED <<pushed, printed>>
    <2>1. CASE Swap(t)
      BY <2>1, SwapPushes
    <2>2. CASE Loop(t) \/ ReadRoot(t) \/ SwapFails(t)
      BY <2>2 DEF Loop, ReadRoot, SwapFails, mainVars
    <2>3. QED BY <1>1, <2>1, <2>2 DEF Thread
  <1>2. CASE PrintValue
    BY <1>2, PrintValuePrints DEF History!Next
  <1>3. CASE Create \/ Join \/ EnterClear \/ LeaveClear
    BY <1>3 DEF Create, Join, EnterClear, LeaveClear, threadVars
  <1>4. CASE UNCHANGED vars
    BY <1>4 DEF vars, threadVars, mainVars
  <1>5. QED BY <1>1, <1>2, <1>3, <1>4 DEF Next, Main, Return

\* For every number of threads and items the list is PushHistory: every push of
\* insert_nodes is one atomic step that adds the next item of its thread, and main
\* prints what was pushed, last first, when all of it is there (inf19-2.c).
THEOREM PushesAreAtomicSteps == Spec => PushesAreAtomic
  <1>1. Init => History!Init
    BY DEF Init, History!Init
  <1>2. QED
    BY <1>1, HistoryInvariant, HistoryStep, PTL
       DEF Spec, PushesAreAtomic, History!Safety

-----------------------------------------------------------------------------
(***************************************************************************)
(* The function server.  The strengthening says where one program can be   *)
(* while the other is at its place, and what the segment holds then.       *)
(***************************************************************************)
\* The server has not begun to wait for requests.
ServerStarts == server \in {"open", "initRequest", "initResponse"}

Types ==
  /\ CallTypeOK
  /\ todo \in Seq(Request)

\* OneTurn, pair by pair.
ServerTurn == server \in {"call", "post"}
ClientTurn == client \in {"name", "value", "post", "print", "postStop"}
Exclusive ==
  /\ ServerTurn => ~ClientTurn /\ request_ready = 0 /\ response_ready = 0
  /\ ClientTurn => request_ready = 0 /\ response_ready = 0
  /\ request_ready = 0 \/ response_ready = 0

\* Where one program is says where the other can be.
Places ==
  /\ client = "open" \/ server = "ended" =>
       request_ready = 0 /\ response_ready = 0 /\ ~ServerTurn
  /\ server = "ended" => client = "ended"
  /\ request_ready > 0 => client \in {"await", "ended"}
  /\ ServerTurn \/ response_ready > 0 \/ server = "crashed" => client = "await"
  /\ ServerStarts \/ server = "crashed" => response_ready = 0
  /\ ServerStarts /\ client # "open" => early

\* What the segment holds when it is somebody's turn.
Contents ==
  /\ client \in {"value", "post", "await", "print"} =>
       todo # <<>> /\ func_name = Head(todo).name
  /\ client \in {"post", "await"} => value = Head(todo).value
  /\ client \in {"postStop", "ended"} => func_name = Empty
  /\ server = "post" \/ response_ready > 0 \/ client = "print" =>
       result = Apply(Head(todo))

\* Whose post a waiting client has to come, or what has become of it.
NotForgotten ==
  client \in {"await", "ended"} =>
    \/ request_ready > 0 \/ response_ready > 0
    \/ server \in {"call", "post", "crashed", "ended"}
    \/ erased /\ early

Coordinated == Types /\ Exclusive /\ Places /\ Contents /\ NotForgotten

LEMMA ExclusiveIsOneTurn == Exclusive /\ CallTypeOK => OneTurn
  <1> SUFFICES ASSUME Exclusive, CallTypeOK, NEW a \in DOMAIN Turns, NEW b \in DOMAIN Turns,
                      Turns[a], Turns[b]
               PROVE a = b
    BY DEF OneTurn
  <1>1. a \in {"server", "client", "request", "response"} /\ b \in {"server", "client", "request", "response"}
    BY DEF Turns
  <1>2. /\ Turns["server"] => ServerTurn
        /\ Turns["client"] => ClientTurn
        /\ Turns["request"] => request_ready > 0
        /\ Turns["response"] => response_ready > 0
    BY DEF Turns, ServerTurn, ClientTurn
  <1> QED BY <1>1, <1>2 DEF Exclusive, CallTypeOK

LEMMA CoordinatedGivesInv == Coordinated => CallInv
  <1> SUFFICES ASSUME Coordinated PROVE CallInv
    OBVIOUS
  <1>1. StuckHasCause
    BY DEF Coordinated, NotForgotten, Places, StuckHasCause, Stuck, Types, CallTypeOK
  <1> QED BY <1>1, ExclusiveIsOneTurn DEF Coordinated, CallInv, Types

LEMMA CoordinatedInit == CallInit => Coordinated
  <1> SUFFICES ASSUME CallInit PROVE Coordinated
    OBVIOUS
  <1> USE DEF CallInit
  <1>1. Types
    <2>1. session \in 1 .. Sessions
      BY SessionsAssumption
    <2>2. todo \in Seq(Request)
      BY WorkAssumption
    <2>3. exists \in BOOLEAN /\ early \in BOOLEAN /\ erased \in BOOLEAN
      BY Zenon
    <2> QED BY <2>1, <2>2, <2>3 DEF Types, CallTypeOK
  <1>2. Exclusive /\ Places
    BY DEF Exclusive, Places, ServerTurn, ClientTurn, ServerStarts
  <1>3. Contents /\ NotForgotten
    BY DEF Contents, NotForgotten
  <1> QED BY <1>1, <1>2, <1>3 DEF Coordinated

\* What the client's next call is, when it has one.
LEMMA HeadIsRequest ==
  ASSUME todo \in Seq(Request), todo # <<>>
  PROVE  /\ Head(todo).name \in STRING /\ Head(todo).name # Empty
         /\ Head(todo).value \in Nat /\ Tail(todo) \in Seq(Request)
  <1>1. Head(todo) \in Request /\ Tail(todo) \in Seq(Request)
    OBVIOUS
  <1> QED BY <1>1 DEF Request

LEMMA ServerKeepsCoordinated == Coordinated /\ Server => Coordinated'
  <1> SUFFICES ASSUME Coordinated, Server PROVE Coordinated'
    OBVIOUS
  <1> USE DEF Coordinated, ServerGoes
  <1>1. CASE OpenSegment
    <2>1. Types'
      BY <1>1 DEF OpenSegment, Types, CallTypeOK
    <2>2. Exclusive' /\ Places'
      BY <1>1 DEF OpenSegment, Exclusive, Places, ServerTurn, ClientTurn, ServerStarts
    <2>3. Contents' /\ NotForgotten'
      BY <1>1 DEF OpenSegment, Contents, NotForgotten
    <2> QED BY <2>1, <2>2, <2>3
  <1>2. CASE InitRequest
    <2>1. Types'
      BY <1>2 DEF InitRequest, Types, CallTypeOK
    <2>2. Exclusive' /\ Places'
      BY <1>2 DEF InitRequest, Exclusive, Places, ServerTurn, ClientTurn, ServerStarts
    <2>3. Contents'
      BY <1>2 DEF InitRequest, Contents
    <2>4. NotForgotten'
      BY <1>2 DEF InitRequest, NotForgotten, Places, ServerStarts
    <2> QED BY <2>1, <2>2, <2>3, <2>4
  <1>3. CASE InitResponse
    <2>1. Types'
      BY <1>3 DEF InitResponse, Types, CallTypeOK
    <2>2. Exclusive' /\ Places'
      BY <1>3 DEF InitResponse, Exclusive, Places, ServerTurn, ClientTurn, ServerStarts, Types, CallTypeOK
    <2>3. Contents'
      BY <1>3 DEF InitResponse, Contents
    <2>4. NotForgotten'
      BY <1>3 DEF InitResponse, NotForgotten, Places, ServerStarts
    <2> QED BY <2>1, <2>2, <2>3, <2>4
  <1>4. CASE ServerWait
    <2>0. request_ready = 1 /\ request_ready' = 0
      BY <1>4 DEF ServerWait, Types, CallTypeOK
    <2>1. Types'
      BY <1>4, <2>0 DEF ServerWait, Types, CallTypeOK
    <2>2. client \in {"await", "ended"} /\ response_ready = 0
      BY <2>0 DEF Places, Exclusive
    <2>3. IF func_name = Empty THEN client = "ended" ELSE client = "await"
      BY <2>2, HeadIsRequest DEF Contents, Types
    <2>4. Exclusive'
      BY <1>4, <2>0, <2>2 DEF ServerWait, Exclusive, ServerTurn, ClientTurn
    <2>5. Places'
      BY <1>4, <2>0, <2>2, <2>3 DEF ServerWait, Places, ServerTurn, ServerStarts
    <2>6. Contents' /\ NotForgotten'
      BY <1>4, <2>2 DEF ServerWait, Contents, NotForgotten
    <2> QED BY <2>1, <2>4, <2>5, <2>6
  <1>5. CASE Call
    <2>1. client = "await" /\ request_ready = 0 /\ response_ready = 0
      BY <1>5 DEF Call, Places, Exclusive, ServerTurn
    <2>2. Types'
      BY <1>5 DEF Call, Types, CallTypeOK, Apply
    <2>3. Exclusive' /\ Places'
      BY <1>5, <2>1 DEF Call, Exclusive, Places, ServerTurn, ClientTurn, ServerStarts
    <2>4. Contents'
      BY <1>5, <2>1 DEF Call, Contents, Apply
    <2>5. NotForgotten'
      BY <1>5 DEF Call, NotForgotten
    <2> QED BY <2>2, <2>3, <2>4, <2>5
  <1>6. CASE PostResponse
    <2>1. client = "await" /\ request_ready = 0 /\ response_ready = 0
      BY <1>6 DEF PostResponse, Places, Exclusive, ServerTurn
    <2>2. Types'
      BY <1>6, <2>1 DEF PostResponse, Types, CallTypeOK
    <2>3. Exclusive' /\ Places'
      BY <1>6, <2>1 DEF PostResponse, Exclusive, Places, ServerTurn, ClientTurn, ServerStarts
    <2>4. Contents' /\ NotForgotten'
      BY <1>6, <2>1 DEF PostResponse, Contents, NotForgotten
    <2> QED BY <2>2, <2>3, <2>4
  <1> QED BY <1>1, <1>2, <1>3, <1>4, <1>5, <1>6 DEF Server

LEMMA ClientKeepsCoordinated == Coordinated /\ Client => Coordinated'
  <1> SUFFICES ASSUME Coordinated, Client PROVE Coordinated'
    OBVIOUS
  <1> USE DEF Coordinated, ClientGoes, segment
  <1>1. CASE Connect
    <2>1. Types'
      BY <1>1 DEF Connect, Types, CallTypeOK
    <2>2. Exclusive' /\ Places'
      BY <1>1 DEF Connect, Exclusive, Places, ServerTurn, ClientTurn, ServerStarts, Types, CallTypeOK
    <2>3. Contents'
      BY <1>1 DEF Connect, Contents, Exclusive, Places, ServerTurn, ClientTurn, Types
    <2>4. NotForgotten'
      BY <1>1 DEF Connect, NotForgotten, Places, Exclusive, Types, CallTypeOK
    <2> QED BY <2>1, <2>2, <2>3, <2>4
  <1>2. CASE ReadName
    <2>1. Types'
      BY <1>2, HeadIsRequest DEF ReadName, Types, CallTypeOK
    <2>2. Exclusive' /\ Places'
      BY <1>2 DEF ReadName, Exclusive, Places, ServerTurn, ClientTurn, ServerStarts, Types, CallTypeOK
    <2>3. Contents'
      BY <1>2, HeadIsRequest DEF ReadName, Contents, Exclusive, Places, ServerTurn, ClientTurn, Types
    <2>4. NotForgotten'
      BY <1>2 DEF ReadName, NotForgotten, Places, Exclusive, Types, CallTypeOK
    <2> QED BY <2>1, <2>2, <2>3, <2>4
  <1>3. CASE ReadValue
    <2>1. Types'
      BY <1>3, HeadIsRequest DEF ReadValue, Types, CallTypeOK, Contents
    <2>2. Exclusive' /\ Places'
      BY <1>3 DEF ReadValue, Exclusive, Places, ServerTurn, ClientTurn, ServerStarts, Types, CallTypeOK
    <2>3. Contents'
      BY <1>3, HeadIsRequest DEF ReadValue, Contents, Exclusive, Places, ServerTurn, ClientTurn, Types
    <2>4. NotForgotten'
      BY <1>3 DEF ReadValue, NotForgotten, Places, Exclusive, Types, CallTypeOK
    <2> QED BY <2>1, <2>2, <2>3, <2>4
  <1>4. CASE PostRequest
    <2>1. Types'
      BY <1>4 DEF PostRequest, Types, CallTypeOK, Exclusive, ClientTurn
    <2>2. Exclusive' /\ Places'
      BY <1>4 DEF PostRequest, Exclusive, Places, ServerTurn, ClientTurn, ServerStarts, Types, CallTypeOK
    <2>3. Contents'
      BY <1>4 DEF PostRequest, Contents, Exclusive, Places, ServerTurn, ClientTurn, Types
    <2>4. NotForgotten'
      BY <1>4 DEF PostRequest, NotForgotten, Places, Exclusive, Types, CallTypeOK
    <2> QED BY <2>1, <2>2, <2>3, <2>4
  <1>5. CASE Await
    <2>1. Types'
      BY <1>5 DEF Await, Types, CallTypeOK
    <2>2. Exclusive' /\ Places'
      BY <1>5 DEF Await, Exclusive, Places, ServerTurn, ClientTurn, ServerStarts, Types, CallTypeOK
    <2>3. Contents'
      BY <1>5 DEF Await, Contents, Exclusive, Places, ServerTurn, ClientTurn, Types
    <2>4. NotForgotten'
      BY <1>5 DEF Await, NotForgotten, Places, Exclusive, Types, CallTypeOK
    <2> QED BY <2>1, <2>2, <2>3, <2>4
  <1>6. CASE PrintResult
    <2>1. Types'
      BY <1>6, HeadIsRequest DEF PrintResult, Types, CallTypeOK, Contents
    <2>2. Exclusive' /\ Places'
      BY <1>6 DEF PrintResult, Exclusive, Places, ServerTurn, ClientTurn, ServerStarts, Types, CallTypeOK
    <2>3. Contents'
      BY <1>6, HeadIsRequest DEF PrintResult, Contents, Exclusive, Places, ServerTurn, ClientTurn, Types
    <2>4. NotForgotten'
      BY <1>6 DEF PrintResult, NotForgotten, Places, Exclusive, Types, CallTypeOK
    <2> QED BY <2>1, <2>2, <2>3, <2>4
  <1>7. CASE ClearName
    <2>1. Types'
      BY <1>7 DEF ClearName, Types, CallTypeOK, Empty
    <2>2. Exclusive' /\ Places'
      BY <1>7 DEF ClearName, Exclusive, Places, ServerTurn, ClientTurn, ServerStarts, Types, CallTypeOK
    <2>3. Contents'
      BY <1>7 DEF ClearName, Contents, Exclusive, Places, ServerTurn, ClientTurn, Types
    <2>4. NotForgotten'
      BY <1>7 DEF ClearName, NotForgotten, Places, Exclusive, Types, CallTypeOK
    <2> QED BY <2>1, <2>2, <2>3, <2>4
  <1>8. CASE PostStop
    <2>1. Types'
      BY <1>8 DEF PostStop, Types, CallTypeOK, Exclusive, ClientTurn
    <2>2. Exclusive' /\ Places'
      BY <1>8 DEF PostStop, Exclusive, Places, ServerTurn, ClientTurn, ServerStarts, Types, CallTypeOK
    <2>3. Contents'
      BY <1>8 DEF PostStop, Contents, Exclusive, Places, ServerTurn, ClientTurn, Types
    <2>4. NotForgotten'
      BY <1>8 DEF PostStop, NotForgotten, Places, Exclusive, Types, CallTypeOK
    <2> QED BY <2>1, <2>2, <2>3, <2>4
  <1> QED BY <1>1, <1>2, <1>3, <1>4, <1>5, <1>6, <1>7, <1>8 DEF Client

LEMMA NewSessionKeepsCoordinated == Coordinated /\ NewSession => Coordinated'
  <1> SUFFICES ASSUME Coordinated, NewSession PROVE Coordinated'
    OBVIOUS
  <1> USE DEF Coordinated, NewSession, SessionOver
  <1>1. Types'
    <2>1. session' \in 1 .. Sessions
      BY SessionsAssumption DEF Types, CallTypeOK
    <2>2. todo' \in Seq(Request)
      BY WorkAssumption
    <2>3. early' \in BOOLEAN /\ erased' \in BOOLEAN
      BY Zenon
    <2> QED BY <2>1, <2>2, <2>3 DEF Types, CallTypeOK, segment
  <1>2. request_ready = 0 /\ response_ready = 0
    BY DEF Places
  <1>3. Exclusive' /\ Places'
    BY <1>2 DEF Exclusive, Places, ServerTurn, ClientTurn, ServerStarts, segment
  <1>4. Contents' /\ NotForgotten'
    BY <1>2 DEF Contents, NotForgotten, segment
  <1> QED BY <1>1, <1>3, <1>4

LEMMA StutterKeepsCoordinated == Coordinated /\ UNCHANGED callVars => Coordinated'
  <1> SUFFICES ASSUME Coordinated, UNCHANGED callVars PROVE Coordinated'
    OBVIOUS
  <1> USE DEF Coordinated, callVars, segment
  <1>1. Types'
    BY DEF Types, CallTypeOK
  <1>2. Exclusive' /\ Places'
    BY DEF Exclusive, Places, ServerTurn, ClientTurn, ServerStarts
  <1>3. Contents' /\ NotForgotten'
    BY DEF Contents, NotForgotten
  <1> QED BY <1>1, <1>2, <1>3

LEMMA NextKeepsCoordinated == Coordinated /\ [CallNext]_callVars => Coordinated'
  BY ServerKeepsCoordinated, ClientKeepsCoordinated, NewSessionKeepsCoordinated, StutterKeepsCoordinated
  DEF CallNext, Finished

\* The places of server and client, the semaphores and what the segment holds
\* fit together in every state.
THEOREM Coordination == CallSpec => []Coordinated
  BY CoordinatedInit, NextKeepsCoordinated, PTL DEF CallSpec

\* For every library, whatever the clients ask and over any number of
\* sessions: server and client (inf21-1.c, inf21-1-tester.c) never have the
\* segment at once, and only an unknown name, or a sem_init after the post of
\* a client that came too early, leaves one waiting for ever.
THEOREM OneTurnAndCauses == CallSpec => []CallInv
  BY Coordination, CoordinatedGivesInv, PTL

-----------------------------------------------------------------------------
\* A call is asked when its request is posted and answered when its result is
\* printed; every other step leaves the service as it is.
LEMMA PostRequestAsks == Coordinated /\ PostRequest => Service!Ask
  <1> SUFFICES ASSUME Coordinated, PostRequest PROVE Service!Ask
    OBVIOUS
  <1>1. Open = NoCall /\ Open' = Head(todo)
    BY DEF PostRequest, ClientGoes, Open
  <1>2. todo # <<>> /\ todo \in Seq(Request)
    BY DEF PostRequest, ClientGoes, Coordinated, Contents, Types
  <1>3. Head(todo).name # NoCall.name
    BY <1>2, HeadIsRequest DEF NoCall
  <1>4. UNCHANGED answers
    BY DEF PostRequest
  <1> QED BY <1>1, <1>3, <1>4 DEF Service!Ask

LEMMA PrintResultAnswers == Coordinated /\ PrintResult => Service!Answer
  <1> SUFFICES ASSUME Coordinated, PrintResult PROVE Service!Answer
    OBVIOUS
  <1>1. Open = Head(todo) /\ Open' = NoCall
    BY DEF PrintResult, ClientGoes, Open
  <1>2. todo # <<>> /\ todo \in Seq(Request) /\ result = Apply(Head(todo))
    BY DEF PrintResult, ClientGoes, Coordinated, Contents, Types
  <1>3. Head(todo).name # NoCall.name
    BY <1>2, HeadIsRequest DEF NoCall
  <1>4. answers' = Append(answers, Apply(Open))
    BY <1>1, <1>2 DEF PrintResult
  <1> QED BY <1>1, <1>3, <1>4 DEF Service!Answer

LEMMA OthersLeaveService ==
  ASSUME CallNext \/ UNCHANGED callVars, ~PostRequest, ~PrintResult
  PROVE  UNCHANGED <<Open, answers>>
  <1>1. CASE Server
    BY <1>1 DEF Server, OpenSegment, InitRequest, InitResponse, ServerWait, Call,
                PostResponse, Open
  <1>2. CASE Connect \/ ReadName \/ ReadValue \/ ClearName \/ PostStop
    BY <1>2 DEF Connect, ReadName, ReadValue, ClearName, PostStop, ClientGoes, Open
  <1>3. CASE Await
    BY <1>3 DEF Await, ClientGoes, Open
  <1>4. CASE NewSession
    BY <1>4 DEF NewSession, SessionOver, Open
  <1>5. CASE UNCHANGED callVars
    BY <1>5 DEF callVars, Open
  <1> QED BY <1>1, <1>2, <1>3, <1>4, <1>5 DEF CallNext, Client, Finished

LEMMA StepsServe ==
  Coordinated /\ [CallNext]_callVars => [Service!Ask \/ Service!Answer]_<<Open, answers>>
  BY PostRequestAsks, PrintResultAnswers, OthersLeaveService

LEMMA InitServes == CallInit => Service!Init
  BY DEF CallInit, Service!Init, Open

\* The server in shared memory keeps CallService's promise, for every library
\* and whatever the clients ask: each call that is posted is the only one open
\* until its own result is printed (inf21-1.c).
THEOREM CallsAreServed == CallSpec => Serves
  BY InitServes, StepsServe, Coordination, PTL DEF CallSpec, Serves, Service!Safety
==============================================================================
