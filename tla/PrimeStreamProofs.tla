-------------------------- MODULE PrimeStreamProofs --------------------------
EXTENDS PrimeStream, TLAPS, WellFoundedInduction, FiniteSetTheorems

(***************************************************************************)
(* The handshake invariant: the mutex is where the positions say, and      *)
(* every cell main may sleep on has its signal still to come.              *)
(***************************************************************************)
HInv ==
  /\ TypeOK
  /\ Positions
  /\ NoSignalBeforeSleep
  /\ WakeupIsComing

LEMMA HInvInit == Init => HInv
  <1> SUFFICES ASSUME Init PROVE HInv
    OBVIOUS
  <1>1. args.low \in Nat /\ args.size \in Nat
    BY ArgumentsAssumption DEF Init
  <1>2. TypeOK
    BY <1>1 DEF Init, TypeOK
  <1>3. Positions /\ NoSignalBeforeSleep /\ WakeupIsComing
    BY <1>1 DEF Init, Positions, NoSignalBeforeSleep, WakeupIsComing
  <1>4. QED BY <1>2, <1>3 DEF HInv

LEMMA ProducerKeepsHInv == HInv /\ Producer => HInv'
  <1> SUFFICES ASSUME HInv, Producer PROVE HInv'
    OBVIOUS
  <1> USE DEF HInv, ProducerGoes, ProducerOnly
  <1>1. args.size \in Nat
    BY ArgumentsAssumption DEF TypeOK
  <1>2. CASE Scan
    <2>1. TypeOK'
      BY <1>1, <1>2 DEF Scan, TypeOK
    <2>2. Positions'
      BY <1>1, <1>2 DEF Scan, Positions, TypeOK
    <2>3. NoSignalBeforeSleep' /\ WakeupIsComing'
      BY <1>2 DEF Scan, NoSignalBeforeSleep, WakeupIsComing
    <2>4. QED BY <2>1, <2>2, <2>3
  <1>3. CASE Lock
    <2>1. TypeOK' /\ Positions'
      BY <1>3 DEF Lock, TypeOK, Positions
    <2>2. NoSignalBeforeSleep' /\ WakeupIsComing'
      BY <1>3 DEF Lock, NoSignalBeforeSleep, WakeupIsComing
    <2>3. QED BY <2>1, <2>2
  <1>4. CASE Write
    <2>0. count < args.size /\ count \in Nat
      BY <1>1, <1>4 DEF Write, Positions, TypeOK
    <2>1. TypeOK'
      BY <1>1, <1>4, <2>0 DEF Write, TypeOK
    <2>2. Positions'
      BY <1>4 DEF Write, Positions
    <2>3. NoSignalBeforeSleep' /\ WakeupIsComing'
      BY <1>4 DEF Write, NoSignalBeforeSleep, WakeupIsComing, Positions
    <2>4. QED BY <2>1, <2>2, <2>3
  <1>5. CASE Unlock
    <2>1. TypeOK' /\ Positions'
      BY <1>5 DEF Unlock, TypeOK, Positions
    <2>2. NoSignalBeforeSleep' /\ WakeupIsComing'
      BY <1>5 DEF Unlock, NoSignalBeforeSleep, WakeupIsComing
    <2>3. QED BY <2>1, <2>2
  <1>6. CASE Signal
    <2>1. TypeOK' /\ Positions'
      BY <1>6 DEF Signal, TypeOK, Positions
    <2>2. NoSignalBeforeSleep' /\ WakeupIsComing'
      BY <1>6 DEF Signal, NoSignalBeforeSleep, WakeupIsComing
    <2>3. QED BY <2>1, <2>2
  <1>7. CASE MarkEnd
    <2>1. TypeOK' /\ Positions'
      BY <1>1, <1>7 DEF MarkEnd, TypeOK, Positions
    <2>2. NoSignalBeforeSleep' /\ WakeupIsComing'
      BY <1>7 DEF MarkEnd, NoSignalBeforeSleep, WakeupIsComing
    <2>3. QED BY <2>1, <2>2
  <1>8. QED BY <1>2, <1>3, <1>4, <1>5, <1>6, <1>7 DEF Producer

LEMMA MainKeepsHInv == HInv /\ (Main \/ SpuriousWakeup) => HInv'
  <1> SUFFICES ASSUME HInv, Main \/ SpuriousWakeup PROVE HInv'
    OBVIOUS
  <1> USE DEF HInv, MainGoes, MainOnly
  <1>1. args.size \in Nat /\ counter \in Nat /\ counter <= args.size
    BY ArgumentsAssumption DEF TypeOK
  <1>2. CASE MainLock
    BY <1>1, <1>2 DEF MainLock, TypeOK, Positions, NoSignalBeforeSleep, WakeupIsComing
  <1>3. CASE Test
    <2>1. mut = "main"
      BY <1>3 DEF Test, Positions
    <2>2. TypeOK' /\ Positions'
      BY <1>3, <2>1 DEF Test, TypeOK, Positions
    <2>3. NoSignalBeforeSleep' /\ WakeupIsComing'
      BY <1>3, <2>1 DEF Test, NoSignalBeforeSleep, WakeupIsComing, Positions
    <2>4. QED BY <2>2, <2>3
  <1>4. CASE Wait
    BY <1>4 DEF Wait, TypeOK, Positions, NoSignalBeforeSleep, WakeupIsComing
  <1>5. CASE SpuriousWakeup
    BY <1>5 DEF SpuriousWakeup, TypeOK, Positions, NoSignalBeforeSleep, WakeupIsComing
  <1>6. CASE Take
    <2>1. counter < args.size
      BY <1>6 DEF Take, Positions
    <2>2. TypeOK'
      BY <1>1, <1>6, <2>1 DEF Take, TypeOK
    <2>3. Positions'
      BY <1>1, <1>6 DEF Take, Positions
    <2>4. NoSignalBeforeSleep' /\ WakeupIsComing'
      BY <1>6 DEF Take, NoSignalBeforeSleep, WakeupIsComing
    <2>5. QED BY <2>2, <2>3, <2>4
  <1>7. CASE PrintPrime
    <2>1. counter > 0
      BY <1>7 DEF PrintPrime, Positions
    <2>2. buf[counter - 1] \in Int
      BY <1>1, <2>1 DEF TypeOK
    <2>3. TypeOK'
      BY <1>7, <2>2 DEF PrintPrime, TypeOK
    <2>4. Positions' /\ NoSignalBeforeSleep' /\ WakeupIsComing'
      BY <1>7 DEF PrintPrime, Positions, NoSignalBeforeSleep, WakeupIsComing
    <2>5. QED BY <2>3, <2>4
  <1>8. CASE LeaveLoop
    BY <1>8 DEF LeaveLoop, TypeOK, Positions, NoSignalBeforeSleep, WakeupIsComing
  <1>9. CASE Join
    BY <1>9 DEF Join, TypeOK, Positions, NoSignalBeforeSleep, WakeupIsComing
  <1>10. QED BY <1>2, <1>3, <1>4, <1>5, <1>6, <1>7, <1>8, <1>9 DEF Main

THEOREM HInvStep == HInv /\ [Next]_vars => HInv'
  <1>1. HInv /\ UNCHANGED vars => HInv'
    BY DEF vars, HInv, TypeOK, Positions, NoSignalBeforeSleep, WakeupIsComing
  <1>2. QED
    BY <1>1, ProducerKeepsHInv, MainKeepsHInv DEF Next, Finished

LEMMA HInvariant == Spec => []HInv
  BY HInvInit, HInvStep, PTL DEF Spec

(* The counters of inf19-1.c stay inside the buffer of size + 1 cells, for *)
(* every range and size.                                                   *)
THEOREM StreamTypes == Spec => []TypeOK
  BY HInvariant, PTL DEF HInv

(* No wakeup is lost: main never sleeps on a filled cell whose signal has  *)
(* already been sent.                                                      *)
THEOREM NoLostWakeup == Spec => [](WakeupIsComing /\ NoSignalBeforeSleep)
  BY HInvariant, PTL DEF HInv

(***************************************************************************)
(* The buffer: cells find_primes has not come to are 0, the one it has     *)
(* come to as well until it holds the terminator, main has not taken more  *)
(* cells than there are, and what it has printed stays where it was.       *)
(***************************************************************************)
Marked == producer \in {"lockLast", "unlockLast", "signalLast", "returned"}

Cells ==
  /\ \A j \in 0 .. args.size :
       j >= count => buf[j] = IF Marked /\ j = count THEN -1 ELSE 0
  /\ counter <= count
  /\ main = "take" => buf[counter] # 0
  /\ Len(printed) = (IF main = "print" THEN counter - 1 ELSE counter)

BInv == HInv /\ Cells /\ BufferInUse

LEMMA BInvInit == Init => BInv
  <1> SUFFICES ASSUME Init PROVE BInv
    OBVIOUS
  <1>1. args.size \in Nat
    BY ArgumentsAssumption DEF Init
  <1>2. Cells
    BY <1>1 DEF Init, Cells, Marked
  <1>3. BufferInUse
    BY DEF Init, BufferInUse
  <1>4. QED BY <1>2, <1>3, HInvInit DEF BInv

LEMMA ProducerKeepsCells == BInv /\ Producer => Cells' /\ BufferInUse'
  <1> SUFFICES ASSUME BInv, Producer PROVE Cells' /\ BufferInUse'
    OBVIOUS
  <1> USE DEF ProducerGoes, ProducerOnly
  <1>1. args.size \in Nat /\ TypeOK /\ Positions /\ Cells /\ BufferInUse
    BY ArgumentsAssumption DEF BInv, HInv, TypeOK
  <1>2. count \in Nat /\ counter \in Nat /\ count <= args.size /\ counter <= args.size
    BY <1>1 DEF TypeOK
  <1>3. CASE Scan \/ Lock \/ Unlock
    <2>1. Marked' = Marked /\ UNCHANGED <<args, buf, count, main, counter, printed>>
      BY <1>3 DEF Scan, Lock, Unlock, Marked
    <2>2. producer' = "returned" <=> producer = "returned"
      BY <1>3 DEF Scan, Lock, Unlock
    <2>3. QED BY <1>1, <2>1, <2>2 DEF Cells, BufferInUse
  <1>4. CASE Signal
    <2>1. Marked' = Marked /\ UNCHANGED <<args, buf, count, counter, printed>>
      BY <1>4 DEF Signal, Marked
    <2>2. /\ main' \in {main, "relock"}
          /\ main' = "relock" /\ main # "relock" => main = "asleep"
      BY <1>4 DEF Signal
    <2>3. Cells'
      BY <1>1, <2>1, <2>2 DEF Cells
    <2>4. BufferInUse'
      BY <1>1, <1>4, <2>1, <2>2 DEF Signal, BufferInUse
    <2>5. QED BY <2>3, <2>4
  <1>5. CASE Write
    <2>1. /\ ~Marked /\ ~Marked' /\ producer # "returned" /\ producer' # "returned"
          /\ buf' = [buf EXCEPT ![count] = i] /\ count' = count + 1
          /\ UNCHANGED <<args, main, counter, printed>>
      BY <1>5 DEF Write, Marked
    <2>2. DOMAIN buf = 0 .. args.size
      BY <1>1 DEF TypeOK
    <2>3. main = "take" => counter # count
      BY <1>1, <1>2, <2>1 DEF Cells
    <2>4. Cells'
      BY <1>1, <1>2, <2>1, <2>2, <2>3 DEF Cells
    <2>5. \A n \in 1 .. Len(printed) : n - 1 \in 0 .. args.size /\ n - 1 # count
      BY <1>1, <1>2 DEF Cells, TypeOK
    <2>6. BufferInUse'
      BY <1>1, <2>1, <2>2, <2>5 DEF BufferInUse
    <2>7. QED BY <2>4, <2>6
  <1>6. CASE MarkEnd
    <2>1. /\ ~Marked /\ Marked' /\ producer # "returned" /\ producer' # "returned"
          /\ buf' = [buf EXCEPT ![count] = -1]
          /\ UNCHANGED <<args, count, main, counter, printed>>
      BY <1>6 DEF MarkEnd, Marked
    <2>2. DOMAIN buf = 0 .. args.size
      BY <1>1 DEF TypeOK
    <2>3. main = "take" => counter # count
      BY <1>1, <1>2, <2>1 DEF Cells
    <2>4. Cells'
      BY <1>1, <1>2, <2>1, <2>2, <2>3 DEF Cells
    <2>5. \A n \in 1 .. Len(printed) : n - 1 \in 0 .. args.size /\ n - 1 # count
      BY <1>1, <1>2 DEF Cells, TypeOK
    <2>6. BufferInUse'
      BY <1>1, <2>1, <2>2, <2>5 DEF BufferInUse
    <2>7. QED BY <2>4, <2>6
  <1>7. QED BY <1>3, <1>4, <1>5, <1>6 DEF Producer

LEMMA MainKeepsCells ==
  BInv /\ (Main \/ SpuriousWakeup) => Cells' /\ BufferInUse'
  <1> SUFFICES ASSUME BInv, Main \/ SpuriousWakeup PROVE Cells' /\ BufferInUse'
    OBVIOUS
  <1> USE DEF MainGoes, MainOnly
  <1>1. args.size \in Nat /\ TypeOK /\ Positions /\ Cells /\ BufferInUse
    BY ArgumentsAssumption DEF BInv, HInv, TypeOK
  <1>2. count \in Nat /\ counter \in Nat /\ count <= args.size /\ counter <= args.size
    BY <1>1 DEF TypeOK
  <1>3. CASE MainLock \/ Test \/ Wait \/ SpuriousWakeup \/ LeaveLoop
    <2>1. /\ Marked' = Marked
          /\ UNCHANGED <<args, buf, count, counter, printed, producer>>
      BY <1>3 DEF MainLock, Test, Wait, SpuriousWakeup, LeaveLoop, Marked
    <2>2. /\ main # "print" /\ main' # "print" /\ main' # "returned"
          /\ main' = "take" => buf[counter] # 0
      BY <1>3 DEF MainLock, Test, Wait, SpuriousWakeup, LeaveLoop
    <2>3. QED BY <1>1, <2>1, <2>2 DEF Cells, BufferInUse
  <1>4. CASE Take
    <2>1. /\ Marked' = Marked /\ UNCHANGED <<args, buf, count, printed, producer>>
          /\ main = "take" /\ main' # "take" /\ main' # "returned"
      BY <1>4 DEF Take, Marked
    <2>2. CASE buf[counter] = -1
      BY <1>1, <1>4, <2>1, <2>2 DEF Take, Cells, BufferInUse
    <2>3. CASE buf[counter] # -1
      <3>1. counter' = counter + 1 /\ main' = "print"
        BY <1>4, <2>3 DEF Take
      <3>2. counter < count
        BY <1>1, <1>2, <2>1, <2>3 DEF Cells
      <3>3. QED BY <1>1, <1>2, <2>1, <3>1, <3>2 DEF Cells, BufferInUse
    <2>4. QED BY <2>2, <2>3
  <1>5. CASE PrintPrime
    <2>1. /\ Marked' = Marked /\ UNCHANGED <<args, buf, count, counter, producer>>
          /\ main = "print" /\ main' = "loop"
          /\ printed' = Append(printed, buf[counter - 1])
      BY <1>5 DEF PrintPrime, Marked
    <2>2. printed \in Seq(Int) /\ Len(printed) = counter - 1 /\ counter > 0
      BY <1>1, <1>2, <2>1 DEF TypeOK, Cells, Positions
    <2>3. Len(printed') = counter
      BY <1>2, <2>1, <2>2
    <2>4. Cells'
      BY <1>1, <2>1, <2>3 DEF Cells
    <2>5. ASSUME NEW n \in 1 .. Len(printed') PROVE buf[n - 1] = printed'[n]
      <3>1. CASE n = counter
        <4>1. printed'[counter] = buf[counter - 1]
          BY <1>2, <2>1, <2>2
        <4>2. QED BY <3>1, <4>1
      <3>2. CASE n # counter
        <4>1. n \in 1 .. Len(printed)
          BY <1>2, <2>2, <2>3, <3>2
        <4>2. printed'[n] = printed[n]
          BY <2>1, <2>2, <4>1
        <4>3. QED BY <1>1, <4>1, <4>2 DEF BufferInUse
      <3>3. QED BY <3>1, <3>2
    <2>6. BufferInUse'
      BY <2>1, <2>5 DEF BufferInUse
    <2>7. QED BY <2>4, <2>6
  <1>6. CASE Join
    <2>1. /\ Marked' = Marked
          /\ UNCHANGED <<args, buf, count, counter, printed, producer>>
          /\ main = "join" /\ main' = "returned" /\ producer = "returned"
      BY <1>6 DEF Join, Marked
    <2>2. QED BY <1>1, <2>1 DEF Cells, BufferInUse
  <1>7. QED BY <1>3, <1>4, <1>5, <1>6 DEF Main

LEMMA BInvStep == BInv /\ [Next]_vars => BInv'
  <1>1. BInv /\ UNCHANGED vars => Cells' /\ BufferInUse'
    BY DEF vars, BInv, Cells, BufferInUse, Marked
  <1>2. BInv /\ [Next]_vars => HInv'
    BY HInvStep DEF BInv
  <1>3. QED
    BY <1>1, <1>2, ProducerKeepsCells, MainKeepsCells DEF Next, Finished, BInv

(* For every range and size: the counters stay in the buffer, no wakeup    *)
(* is lost, what has been printed is what the buffer holds, and main does  *)
(* not return, and free the buffer, while find_primes uses it.             *)
THEOREM StreamInvariant == Spec => []Inv
  <1>1. BInv => Inv
    BY DEF BInv, HInv, Inv
  <1>2. QED BY <1>1, BInvInit, BInvStep, PTL DEF Spec

-----------------------------------------------------------------------------
(***************************************************************************)
(* is_prime of inf19-1.c:20-34 looks for divisors up to the root only.     *)
(***************************************************************************)
LEMMA LeastElement ==
  ASSUME NEW T \in SUBSET Nat, T # {}
  PROVE  \E x \in T : \A y \in T : x <= y
  <1> DEFINE U == {0 .. x : x \in T}
  <1>1. U \subseteq FiniteSubsetsOf(Nat) /\ U # {}
    <2>1. ASSUME NEW x \in Nat PROVE IsFiniteSet(0 .. x) /\ 0 .. x \subseteq Nat
      BY FS_Interval
    <2>2. QED BY <2>1 DEF FiniteSubsetsOf
  <1>2. PICK u \in U : \A v \in U : ~ (<<v, u>> \in StrictSubsetOrdering(Nat))
    BY <1>1, FS_StrictSubsetOrderingWellFounded, WFMin
  <1>3. PICK x \in T : u = 0 .. x
    OBVIOUS
  <1>4. ASSUME NEW y \in T, y < x PROVE FALSE
    <2>1. 0 .. y \in U /\ 0 .. y \subseteq 0 .. x /\ x \in 0 .. x /\ x \notin 0 .. y
      BY <1>4
    <2>2. 0 .. y \in SUBSET Nat /\ 0 .. x \in SUBSET Nat
      OBVIOUS
    <2>3. <<0 .. y, 0 .. x>> \in StrictSubsetOrdering(Nat)
      BY <2>1, <2>2 DEF StrictSubsetOrdering
    <2>4. QED BY <1>2, <1>3, <2>1, <2>3
  <1>5. QED BY <1>4

LEMMA RootIsThere ==
  ASSUME NEW n \in Nat
  PROVE  /\ Root(n) \in 0 .. n
         /\ Root(n) * Root(n) <= n
         /\ (Root(n) + 1) * (Root(n) + 1) > n
  <1> DEFINE T == {r \in Nat : (r + 1) * (r + 1) > n}
  <1>1. n \in T
    <2>1. (n + 1) * (n + 1) >= n + 1
      OBVIOUS
    <2>2. QED BY <2>1
  <1>2. PICK r \in T : \A y \in T : r <= y
    BY <1>1, LeastElement
  <1>3. r \in 0 .. n /\ (r + 1) * (r + 1) > n
    BY <1>1, <1>2
  <1>4. r * r <= n
    <2>1. CASE r = 0
      BY <2>1
    <2>2. CASE r # 0
      <3>1. r - 1 \in Nat /\ r - 1 \notin T
        BY <1>2, <1>3, <2>2
      <3>2. QED BY <3>1
    <2>3. QED BY <2>1, <2>2
  <1>5. \E q \in 0 .. n : q * q <= n /\ (q + 1) * (q + 1) > n
    BY <1>3, <1>4
  <1>6. QED BY <1>5, Zenon DEF Root

LEMMA DivisorOfDivisor ==
  ASSUME NEW n \in Nat, NEW d \in Nat, NEW r \in Nat,
         n > 0, d > r, d < n, n % d = 0, (r + 1) * (r + 1) > n
  PROVE  \E e \in 2 .. r : n % e = 0
  <1> DEFINE e == n \div d
  <1>1. n = d * e /\ e \in Nat
    OBVIOUS
  <1> HIDE DEF e
  <1>2. e # 0 /\ e # 1
    BY <1>1
  <1>3. e <= r
    <2> SUFFICES ASSUME e >= r + 1 PROVE FALSE
      BY <1>1
    <2>1. d * e >= (r + 1) * (r + 1)
      BY <1>1
    <2>2. QED BY <1>1, <2>1
  <1>4. n % e = 0
    BY <1>1, <1>2
  <1>5. e \in 2 .. r
    BY <1>1, <1>2, <1>3
  <1>6. QED BY <1>4, <1>5

\* From 1 on is_prime is right: what has no divisor up to its root has none.
LEMMA PrimeTest ==
  ASSUME NEW n \in Nat, n > 0
  PROVE  is_prime(n) <=> Stream!Prime(n)
  <1> DEFINE r == Root(n)
  <1>1. r \in 0 .. n /\ r * r <= n /\ (r + 1) * (r + 1) > n
    BY RootIsThere
  <1> HIDE DEF r
  <1>2. ASSUME Stream!Prime(n) PROVE is_prime(n)
    <2>1. ASSUME NEW d \in 2 .. r PROVE d \in 2 .. n - 1
      <3>1. r >= 2 /\ r * r > r
        BY <1>1
      <3>2. QED BY <1>1, <3>1
    <2>2. \A d \in 2 .. r : n % d # 0
      BY <1>2, <2>1 DEF Stream!Prime
    <2>3. QED BY <1>2, <2>2 DEF is_prime, Stream!Prime, r
  <1>3. ASSUME is_prime(n) PROVE Stream!Prime(n)
    <2>1. n # 1
      BY <1>3 DEF is_prime
    <2>2. CASE n = 2
      BY <2>2 DEF Stream!Prime
    <2>3. CASE n # 2
      <3>1. \A d \in 2 .. r : n % d # 0
        BY <1>3, <2>3 DEF is_prime, r
      <3>2. ASSUME NEW d \in 2 .. n - 1, n % d = 0 PROVE FALSE
        <4>1. d \in Nat /\ r \in Nat /\ d < n /\ d > r
          BY <1>1, <3>1, <3>2
        <4>2. \E e \in 2 .. r : n % e = 0
          BY <1>1, <3>2, <4>1, DivisorOfDivisor
        <4>3. QED BY <3>1, <4>2
      <3>3. n > 1
        BY <2>1
      <3>4. QED BY <3>2, <3>3 DEF Stream!Prime
    <2>4. QED BY <2>2, <2>3
  <1>4. QED BY <1>2, <1>3

(***************************************************************************)
(* What has been found: the cells below count hold exactly the primes of   *)
(* the range find_primes has looked at, in increasing order; and main only *)
(* leaves its loop at the limit or at the terminator, never having taken   *)
(* an empty cell.                                                          *)
(***************************************************************************)
LookedAt(n) == n < i \/ (n = i /\ producer \in {"unlock", "signal"})

Found ==
  /\ args.low <= i
  /\ \A n \in args.low .. args.high :
       is_prime(n) /\ LookedAt(n) => \E j \in 0 .. count - 1 : buf[j] = n
  /\ \A j \in 0 .. count - 1 :
       buf[j] \in args.low .. args.high /\ is_prime(buf[j]) /\ LookedAt(buf[j])
  /\ \A j, k \in 0 .. count - 1 : j < k => buf[j] < buf[k]

Stops ==
  /\ producer \in {"lock", "write"} => is_prime(i)
  /\ producer \in {"lock", "write", "unlock", "signal"} => i <= args.high
  /\ producer = "mark" \/ Marked => i > args.high \/ count = args.size

Taken ==
  /\ \A k \in 0 .. counter - 1 : buf[k] # 0
  /\ main \in {"join", "returned"} =>
       counter = args.size \/ (Marked /\ counter = count)

OutputInv == BInv /\ Found /\ Stops /\ Taken

LEMMA OutputInvInit == Init => OutputInv
  <1> SUFFICES ASSUME Init PROVE OutputInv
    OBVIOUS
  <1>1. args.low \in Nat /\ args.high \in Nat /\ args.size \in Nat
    BY ArgumentsAssumption DEF Init
  <1>2. Found /\ Stops /\ Taken
    BY <1>1 DEF Init, Found, Stops, Taken, LookedAt, Marked
  <1>3. QED BY <1>2, BInvInit DEF OutputInv

LEMMA ProducerKeepsFound == OutputInv /\ Producer => Found' /\ Stops'
  <1> SUFFICES ASSUME OutputInv, Producer PROVE Found' /\ Stops'
    OBVIOUS
  <1> USE DEF ProducerGoes, ProducerOnly
  <1>1. /\ args.low \in Nat /\ args.high \in Nat /\ args.size \in Nat
        /\ TypeOK /\ Positions /\ Found /\ Stops
    BY ArgumentsAssumption DEF OutputInv, BInv, HInv, TypeOK
  <1>2. i \in Nat /\ count \in Nat /\ count <= args.size /\ DOMAIN buf = 0 .. args.size
    BY <1>1 DEF TypeOK
  <1>3. CASE Scan
    <2>1. CASE i <= args.high /\ ~is_prime(i)
      <3>1. i' = i + 1 /\ producer = "scan" /\ UNCHANGED <<args, buf, count, producer>>
        BY <1>1, <1>2, <1>3, <2>1 DEF Scan
      <3>2. \A n \in Int : LookedAt(n)' <=> LookedAt(n) \/ n = i
        BY <1>2, <3>1 DEF LookedAt
      <3>3. Found'
        BY <1>1, <1>2, <2>1, <3>1, <3>2 DEF Found
      <3>4. Stops'
        BY <3>1 DEF Stops, Marked
      <3>5. QED BY <3>3, <3>4
    <2>2. CASE ~ (i <= args.high /\ ~is_prime(i))
      <3>1. /\ producer = "scan" /\ producer' \in {"lock", "mark"}
            /\ UNCHANGED <<args, buf, count, i>>
        BY <1>2, <1>1, <1>3, <2>2 DEF Scan
      <3>2. \A n \in Int : LookedAt(n)' <=> LookedAt(n)
        BY <3>1 DEF LookedAt
      <3>3. Found'
        BY <1>1, <3>1, <3>2 DEF Found
      <3>4. Stops'
        BY <1>1, <1>2, <1>3, <2>2, <3>1 DEF Stops, Scan, Marked
      <3>5. QED BY <3>3, <3>4
    <2>3. QED BY <2>1, <2>2
  <1>4. CASE Lock \/ Unlock \/ MarkEnd
    <2>1. /\ UNCHANGED <<args, count, i>>
          /\ \A j \in 0 .. count - 1 : buf'[j] = buf[j]
      BY <1>1, <1>2, <1>4 DEF Lock, Unlock, MarkEnd
    <2>2. \A n \in Int : LookedAt(n)' <=> LookedAt(n)
      BY <1>4 DEF Lock, Unlock, MarkEnd, LookedAt
    <2>3. \A j \in 0 .. count - 1 : buf[j] \in Int
      BY <1>1, <1>2 DEF Found
    <2>4. Found'
      BY <1>1, <2>1, <2>2, <2>3 DEF Found
    <2>5. Stops'
      BY <1>1, <1>4, <2>1 DEF Stops, Marked, Lock, Unlock, MarkEnd
    <2>6. QED BY <2>4, <2>5
  <1>5. CASE Write
    <2>1. /\ producer = "write" /\ producer' = "unlock" /\ count' = count + 1
          /\ buf' = [buf EXCEPT ![count] = i] /\ UNCHANGED <<args, i>>
      BY <1>5 DEF Write
    <2>2. /\ buf'[count] = i /\ is_prime(i) /\ i \in args.low .. args.high
          /\ \A j \in 0 .. count - 1 : buf'[j] = buf[j] /\ buf[j] \in Int /\ buf[j] < i
      BY <1>1, <1>2, <2>1 DEF Found, Stops, LookedAt
    <2>3. \A n \in Int : LookedAt(n)' <=> LookedAt(n) \/ n = i
      BY <1>2, <2>1 DEF LookedAt
    <2>4. ASSUME NEW n \in args.low .. args.high, is_prime(n), LookedAt(n)'
          PROVE  \E j \in 0 .. count : buf'[j] = n
      <3>1. CASE n = i
        BY <1>2, <2>2, <3>1
      <3>2. CASE n # i
        <4>1. PICK j \in 0 .. count - 1 : buf[j] = n
          BY <1>1, <2>3, <2>4, <3>2 DEF Found
        <4>2. QED BY <1>2, <2>2, <4>1
      <3>3. QED BY <3>1, <3>2
    <2>5. ASSUME NEW j \in 0 .. count
          PROVE  /\ buf'[j] \in args.low .. args.high /\ is_prime(buf'[j])
                 /\ LookedAt(buf[j])'
      <3>1. CASE j = count
        BY <1>2, <2>1, <2>2, <3>1 DEF LookedAt
      <3>2. CASE j # count
        <4>1. j \in 0 .. count - 1
          BY <1>2, <3>2
        <4>2. QED BY <1>1, <1>2, <2>1, <2>2, <4>1 DEF Found, LookedAt
      <3>3. QED BY <3>1, <3>2
    <2>6. ASSUME NEW j \in 0 .. count, NEW k \in 0 .. count, j < k
          PROVE  buf'[j] < buf'[k]
      BY <1>1, <1>2, <2>2, <2>6 DEF Found
    <2>7. count' - 1 = count
      BY <1>2, <2>1
    <2>8. Found'
      <3>1. args'.low <= i'
        BY <1>1, <2>1 DEF Found
      <3>2. QED BY <2>1, <2>4, <2>5, <2>6, <2>7, <3>1 DEF Found
    <2>9. Stops'
      BY <1>1, <2>1 DEF Stops, Marked
    <2>10. QED BY <2>8, <2>9
  <1>6. CASE Signal
    <2>1. CASE producer = "signal"
      <3>1. i' = i + 1 /\ producer' = "scan" /\ UNCHANGED <<args, buf, count>>
        BY <1>6, <2>1 DEF Signal
      <3>2. \A n \in Int : LookedAt(n)' <=> LookedAt(n)
        BY <1>2, <2>1, <3>1 DEF LookedAt
      <3>3. \A j \in 0 .. count - 1 : buf[j] \in Int
        BY <1>1 DEF Found
      <3>4. Found'
        BY <1>1, <1>2, <3>1, <3>2, <3>3 DEF Found
      <3>5. Stops'
        BY <3>1 DEF Stops, Marked
      <3>6. QED BY <3>4, <3>5
    <2>2. CASE producer = "signalLast"
      <3>1. producer' = "returned" /\ UNCHANGED <<args, buf, count, i>>
        BY <1>6, <2>2 DEF Signal
      <3>2. \A n \in Int : LookedAt(n)' <=> LookedAt(n)
        BY <2>2, <3>1 DEF LookedAt
      <3>3. \A j \in 0 .. count - 1 : buf[j] \in Int
        BY <1>1 DEF Found
      <3>4. Found'
        BY <1>1, <3>1, <3>2, <3>3 DEF Found
      <3>5. Stops'
        BY <1>1, <2>2, <3>1 DEF Stops, Marked
      <3>6. QED BY <3>4, <3>5
    <2>3. QED BY <1>6, <2>1, <2>2 DEF Signal
  <1>7. QED BY <1>3, <1>4, <1>5, <1>6 DEF Producer

LEMMA ProducerKeepsTaken == OutputInv /\ Producer => Taken'
  <1> SUFFICES ASSUME OutputInv, Producer PROVE Taken'
    OBVIOUS
  <1> USE DEF ProducerGoes, ProducerOnly
  <1>1. args.size \in Nat /\ TypeOK /\ Positions /\ Cells /\ Taken
    BY ArgumentsAssumption DEF OutputInv, BInv, HInv, TypeOK
  <1>2. /\ count \in Nat /\ counter \in Nat /\ counter <= count
        /\ DOMAIN buf = 0 .. args.size /\ count <= args.size
    BY <1>1 DEF TypeOK, Cells
  <1>3. UNCHANGED <<args, counter>> /\ main' \in {main, "relock"}
    BY DEF Producer, Scan, Lock, Write, Unlock, Signal, MarkEnd
  <1>4. \A k \in 0 .. counter - 1 : buf'[k] = buf[k]
    BY <1>1, <1>2 DEF Producer, Scan, Lock, Write, Unlock, Signal, MarkEnd
  <1>5. Marked => Marked' /\ UNCHANGED count
    BY DEF Producer, Scan, Lock, Write, Unlock, Signal, MarkEnd, Marked
  <1>6. QED BY <1>1, <1>3, <1>4, <1>5 DEF Taken

LEMMA MainKeepsFound ==
  OutputInv /\ (Main \/ SpuriousWakeup) => Found' /\ Stops' /\ Taken'
  <1> SUFFICES ASSUME OutputInv, Main \/ SpuriousWakeup
               PROVE  Found' /\ Stops' /\ Taken'
    OBVIOUS
  <1> USE DEF MainGoes, MainOnly
  <1>1. /\ args.size \in Nat /\ TypeOK /\ Cells /\ Found /\ Stops /\ Taken
        /\ counter \in Nat /\ count \in Nat /\ counter <= args.size
    BY ArgumentsAssumption DEF OutputInv, BInv, HInv, TypeOK
  <1>2. UNCHANGED <<args, buf, producer, i, count>>
    BY DEF Main, MainLock, Test, Wait, Take, PrintPrime, LeaveLoop, Join, SpuriousWakeup
  <1>3. Found' /\ Stops'
    BY <1>1, <1>2 DEF Found, Stops, LookedAt, Marked
  <1>4. CASE Take
    <2>1. CASE buf[counter] = -1
      <3>1. counter' = counter /\ main = "take"
        BY <1>4, <2>1 DEF Take
      <3>2. Marked /\ counter = count
        <4>1. counter >= count
          <5> SUFFICES ASSUME counter < count PROVE FALSE
            BY <1>1
          <5>1. counter \in 0 .. count - 1
            BY <1>1
          <5>2. buf[counter] \in args.low .. args.high /\ args.low \in Nat
            BY <1>1, <5>1, ArgumentsAssumption DEF Found, TypeOK
          <5>3. QED BY <2>1, <5>2
        <4>2. QED BY <1>1, <2>1, <4>1 DEF Cells
      <3>3. QED BY <1>1, <1>2, <1>3, <3>1, <3>2 DEF Taken, Marked
    <2>2. CASE buf[counter] # -1
      <3>1. counter' = counter + 1 /\ main = "take" /\ main' = "print"
        BY <1>4, <2>2 DEF Take
      <3>2. buf[counter] # 0
        BY <1>1, <3>1 DEF Cells
      <3>3. QED BY <1>1, <1>2, <1>3, <3>1, <3>2 DEF Taken
    <2>3. QED BY <2>1, <2>2
  <1>5. CASE ~Take
    <2>1. counter' = counter
      BY <1>5 DEF Main, MainLock, Test, Wait, PrintPrime, LeaveLoop, Join, SpuriousWakeup
    <2>2. main' \in {"join", "returned"} => main = "join" \/ counter = args.size
      BY <1>1, <1>5 DEF Main, MainLock, Test, Wait, PrintPrime, LeaveLoop, Join, SpuriousWakeup
    <2>3. QED BY <1>1, <1>2, <1>3, <2>1, <2>2 DEF Taken, Marked
  <1>6. QED BY <1>4, <1>5

LEMMA OutputInvStep == OutputInv /\ [Next]_vars => OutputInv'
  <1>1. OutputInv /\ UNCHANGED vars => Found' /\ Stops' /\ Taken'
    BY DEF vars, OutputInv, Found, Stops, Taken, LookedAt, Marked
  <1>2. OutputInv /\ [Next]_vars => BInv'
    BY BInvStep DEF OutputInv
  <1>3. QED
    BY <1>1, <1>2, ProducerKeepsFound, ProducerKeepsTaken, MainKeepsFound
    DEF Next, Finished, OutputInv

(***************************************************************************)
(* Each step prints the next prime, ends, or changes nothing PrimeOutput   *)
(* sees.                                                                   *)
(***************************************************************************)
StreamStep ==
  [Stream!PrintNext \/ Stream!End]_<<args, printed, main = "returned">>

LEMMA PrintsNext == OutputInv /\ PrintPrime => Stream!PrintNext
  <1> SUFFICES ASSUME OutputInv, PrintPrime PROVE Stream!PrintNext
    OBVIOUS
  <1>1. /\ args.low \in Nat /\ args.size \in Nat /\ args.high \in Nat
        /\ TypeOK /\ Positions /\ Cells /\ BufferInUse /\ Found /\ Taken
    BY ArgumentsAssumption DEF OutputInv, BInv, HInv, TypeOK
  <1>2. /\ main = "print" /\ main' = "loop" /\ args' = args
        /\ printed' = Append(printed, buf[counter - 1])
    BY DEF PrintPrime, MainGoes
  <1>3. /\ count \in Nat /\ counter \in Nat /\ counter <= count
        /\ counter <= args.size /\ counter > 0 /\ i \in Nat
        /\ Len(printed) = counter - 1 /\ printed \in Seq(Int)
    BY <1>1, <1>2 DEF TypeOK, Cells, Positions
  <1> DEFINE p == buf[counter - 1]
  <1>4. counter - 1 \in 0 .. count - 1 /\ counter - 1 \in 0 .. counter - 1
    BY <1>3
  <1>5. p \in args.low .. args.high /\ is_prime(p) /\ LookedAt(p) /\ p # 0
    BY <1>1, <1>4 DEF Found, Taken
  <1>6. \A k \in DOMAIN printed :
          k - 1 \in 0 .. counter - 2 /\ printed[k] = buf[k - 1]
    BY <1>1, <1>3 DEF BufferInUse
  <1>7. \A j \in 0 .. counter - 2 :
          /\ buf[j] < p
          /\ j + 1 \in DOMAIN printed /\ printed[j + 1] = buf[j]
    <2>1. ASSUME NEW j \in 0 .. counter - 2 PROVE buf[j] < p
      BY <1>1, <1>3, <1>4 DEF Found
    <2>2. ASSUME NEW j \in 0 .. counter - 2
          PROVE  j + 1 \in DOMAIN printed /\ printed[j + 1] = buf[j]
      <3>1. j + 1 \in 1 .. Len(printed) /\ (j + 1) - 1 = j
        BY <1>3
      <3>2. QED BY <1>1, <1>3, <3>1 DEF BufferInUse
    <2>3. QED BY <2>1, <2>2
  <1> HIDE DEF p
  <1>8. p \in Stream!Left
    <2>1. Stream!Prime(p)
      BY <1>1, <1>5, PrimeTest
    <2>2. \A k \in DOMAIN printed : printed[k] < p
      BY <1>6, <1>7
    <2>3. QED BY <1>5, <2>1, <2>2 DEF Stream!Left
  <1>9. ASSUME NEW m \in Stream!Left, m < p PROVE FALSE
    <2>1. /\ m \in args.low .. args.high /\ Stream!Prime(m)
          /\ \A k \in DOMAIN printed : printed[k] < m
      BY DEF Stream!Left
    <2>2. m \in Nat /\ m > 0 /\ LookedAt(m)
      BY <1>1, <1>3, <1>5, <1>9, <2>1 DEF LookedAt, Stream!Prime
    <2>3. is_prime(m)
      BY <2>1, <2>2, PrimeTest
    <2>4. PICK j \in 0 .. count - 1 : buf[j] = m
      BY <1>1, <2>1, <2>2, <2>3 DEF Found
    <2>5. j < counter - 1
      <3>1. CASE j = counter - 1
        BY <1>9, <2>2, <2>4, <3>1 DEF p
      <3>2. CASE j > counter - 1
        <4>1. buf[counter - 1] < buf[j]
          BY <1>1, <1>4, <2>4, <3>2 DEF Found
        <4>2. p < m /\ p \in Int /\ m \in Int
          BY <1>1, <1>5, <2>2, <2>4, <4>1 DEF p
        <4>3. QED BY <1>9, <4>2
      <3>3. j \in Int /\ counter - 1 \in Int
        BY <1>3, <2>4
      <3>4. QED BY <3>1, <3>2, <3>3
    <2>6. j \in 0 .. counter - 2
      BY <1>3, <2>4, <2>5
    <2>7. QED BY <1>7, <2>1, <2>4, <2>6
  <1>10. \A m \in Stream!Left : p <= m
    BY <1>1, <1>5, <1>9 DEF Stream!Left
  <1>11. ~ (main = "returned") /\ (main' = "returned") = (main = "returned")
    BY <1>2
  <1>12. Len(printed) < args.size
    BY <1>1, <1>3
  <1>13. printed' = Append(printed, p)
    BY <1>2 DEF p
  <1>14. QED
    BY <1>2, <1>8, <1>10, <1>11, <1>12, <1>13 DEF Stream!PrintNext

LEMMA JoinEnds == OutputInv /\ Join => Stream!End
  <1> SUFFICES ASSUME OutputInv, Join PROVE Stream!End
    OBVIOUS
  <1>1. /\ args.low \in Nat /\ args.size \in Nat /\ args.high \in Nat
        /\ TypeOK /\ Cells /\ BufferInUse /\ Found /\ Stops /\ Taken
    BY ArgumentsAssumption DEF OutputInv, BInv, HInv, TypeOK
  <1>2. /\ producer = "returned" /\ main = "join" /\ main' = "returned"
        /\ UNCHANGED <<args, printed>>
    BY DEF Join, MainGoes, MainOnly
  <1>3. /\ count \in Nat /\ counter \in Nat /\ Len(printed) = counter /\ i \in Nat
        /\ printed \in Seq(Int)
    BY <1>1, <1>2 DEF TypeOK, Cells
  <1>4. Len(printed) = args.size \/ Stream!Left = {}
    <2> SUFFICES ASSUME Len(printed) # args.size, NEW n \in Stream!Left PROVE FALSE
      OBVIOUS
    <2>1. counter = count /\ i > args.high
      BY <1>1, <1>2, <1>3 DEF Taken, Stops, Marked
    <2>2. /\ n \in args.low .. args.high /\ Stream!Prime(n)
          /\ \A k \in DOMAIN printed : printed[k] < n
      BY DEF Stream!Left
    <2>3. n \in Nat /\ n > 0 /\ LookedAt(n)
      BY <1>1, <1>3, <2>1, <2>2 DEF LookedAt, Stream!Prime
    <2>4. is_prime(n)
      BY <2>2, <2>3, PrimeTest
    <2>5. PICK j \in 0 .. count - 1 : buf[j] = n
      BY <1>1, <2>2, <2>3, <2>4 DEF Found
    <2>6. j + 1 \in DOMAIN printed /\ printed[j + 1] = buf[(j + 1) - 1]
      BY <1>1, <1>3, <2>1 DEF BufferInUse
    <2>7. QED BY <2>2, <2>5, <2>6
  <1>5. QED BY <1>2, <1>4 DEF Stream!End

LEMMA StreamStepHolds == OutputInv /\ [Next]_vars => StreamStep
  <1> SUFFICES ASSUME OutputInv, [Next]_vars PROVE StreamStep
    OBVIOUS
  <1>1. CASE PrintPrime
    BY <1>1, PrintsNext DEF StreamStep
  <1>2. CASE Join
    BY <1>2, JoinEnds DEF StreamStep
  <1>3. CASE Producer \/ SpuriousWakeup \/ MainLock \/ Test \/ Wait \/ Take \/ LeaveLoop
    <2>1. UNCHANGED <<args, printed>>
      BY <1>3 DEF Producer, Scan, Lock, Write, Unlock, Signal, MarkEnd, ProducerOnly,
         SpuriousWakeup, MainLock, Test, Wait, Take, LeaveLoop, MainOnly
    <2>2. (main' = "returned") = (main = "returned")
      BY <1>3 DEF Producer, Scan, Lock, Write, Unlock, Signal, MarkEnd, ProducerOnly,
         SpuriousWakeup, MainLock, Test, Wait, Take, LeaveLoop, MainGoes
    <2>3. QED BY <2>1, <2>2 DEF StreamStep
  <1>4. CASE UNCHANGED vars
    BY <1>4 DEF StreamStep, vars
  <1>5. QED BY <1>1, <1>2, <1>3, <1>4 DEF Next, Main, Finished

(* For every range and size: the numbers printed are the primes of the     *)
(* range, each once and in order, no more than size of them, and main      *)
(* returns only after size of them or the last of the range.  is_prime's   *)
(* search up to the root and the break at the limit are part of it.        *)
THEOREM PrimesInOrder == Spec => PrintsThePrimes
  <1>1. Init => Stream!Init
    BY DEF Init, Stream!Init
  <1>2. Spec => []OutputInv
    BY OutputInvInit, OutputInvStep, PTL DEF Spec
  <1>3. QED
    BY <1>1, <1>2, StreamStepHolds, PTL DEF Spec, StreamStep, PrintsThePrimes, Stream!Safety
=============================================================================
