----------------------------- MODULE PrimeStream -----------------------------
(***************************************************************************)
(* inf19-1.c: a thread writes the primes of a range into a buffer, main    *)
(* prints them as they come.  Both sides share one mutex and one condition *)
(* variable; 0 in a cell means "not there yet" and -1 "no more", and the   *)
(* -1 is written without the mutex.                                        *)
(***************************************************************************)
EXTENDS Integers, Sequences

CONSTANT Arguments   \* the command lines: records of low, high and size

ASSUME ArgumentsAssumption ==
  Arguments \subseteq [low : Nat, high : Nat, size : Nat]

VARIABLES
  args,      \* the arguments of this run
  buf,       \* the buffer of size + 1 cells
  mut,       \* who holds the mutex: "producer", "main" or "nobody"
  producer,  \* where find_primes is
  i,         \* the candidate find_primes looks at
  count,     \* its counter of primes found
  main,      \* where main is; "asleep" is inside pthread_cond_wait
  counter,   \* main's counter of primes printed
  printed    \* what main has printed

vars == <<args, buf, mut, producer, i, count, main, counter, printed>>

-----------------------------------------------------------------------------
\* (int64_t) sqrt (number)
Root(n) == CHOOSE r \in 0 .. n : r * r <= n /\ (r + 1) * (r + 1) > n

is_prime(n) == n # 1 /\ (n = 2 \/ \A d \in 2 .. Root(n) : n % d # 0)

Init ==
  /\ args \in Arguments
  /\ buf = [k \in 0 .. args.size |-> 0]
  /\ mut = "nobody"
  /\ producer = "scan" /\ i = args.low /\ count = 0
  /\ main = "loop" /\ counter = 0
  /\ printed = <<>>

ProducerGoes(from, to) == producer = from /\ producer' = to
MainGoes(from, to) == main = from /\ main' = to

ProducerOnly == UNCHANGED <<args, main, counter, printed>>
MainOnly == UNCHANGED <<args, producer, i, count, printed>>

\* Mutant: the limit is checked one prime too late.
ScanPastSize ==
  /\ producer = "scan"
  /\ \/ /\ i <= args.high /\ ~is_prime(i)
        /\ i' = i + 1
        /\ UNCHANGED producer
     \/ /\ i <= args.high /\ is_prime(i) /\ count <= args.size
        /\ producer' = "lock"
        /\ UNCHANGED i
     \/ /\ i > args.high \/ (is_prime(i) /\ count > args.size)
        /\ producer' = "mark"
        /\ UNCHANGED i
  /\ UNCHANGED <<buf, mut, count>> /\ ProducerOnly

\* The head of the for loop, up to the lock.
Scan ==
  /\ producer = "scan"
  /\ \/ /\ i <= args.high /\ ~is_prime(i)
        /\ i' = i + 1
        /\ UNCHANGED producer
     \/ /\ i <= args.high /\ is_prime(i) /\ count < args.size
        /\ producer' = "lock"
        /\ UNCHANGED i
     \/ /\ i > args.high \/ (is_prime(i) /\ count >= args.size)
        /\ producer' = "mark"
        /\ UNCHANGED i
  /\ UNCHANGED <<buf, mut, count>> /\ ProducerOnly

Lock ==
  /\ \/ ProducerGoes("lock", "write")
     \/ ProducerGoes("lockLast", "unlockLast")
  /\ mut = "nobody" /\ mut' = "producer"
  /\ UNCHANGED <<buf, i, count>> /\ ProducerOnly

Write ==
  /\ ProducerGoes("write", "unlock")
  /\ buf' = [buf EXCEPT ![count] = i]
  /\ count' = count + 1
  /\ UNCHANGED <<mut, i>> /\ ProducerOnly

Unlock ==
  /\ \/ ProducerGoes("unlock", "signal")
     \/ ProducerGoes("unlockLast", "signalLast")
  /\ mut' = "nobody"
  /\ UNCHANGED <<buf, i, count>> /\ ProducerOnly

\* pthread_cond_signal wakes main if it is asleep, and is forgotten otherwise.
Signal ==
  /\ \/ ProducerGoes("signal", "scan") /\ i' = i + 1
     \/ ProducerGoes("signalLast", "returned") /\ UNCHANGED i
  /\ main' = IF main = "asleep" THEN "relock" ELSE main
  /\ UNCHANGED <<args, buf, mut, count, counter, printed>>

\* Mutant: the terminator is followed by the signal at once.
MarkEndAndSignal ==
  /\ ProducerGoes("mark", "signalLast")
  /\ buf' = [buf EXCEPT ![count] = -1]
  /\ UNCHANGED <<mut, i, count>> /\ ProducerOnly

\* The terminator is written while main may hold the mutex.
MarkEnd ==
  /\ ProducerGoes("mark", "lockLast")
  /\ buf' = [buf EXCEPT ![count] = -1]
  /\ UNCHANGED <<mut, i, count>> /\ ProducerOnly

Producer == Scan \/ Lock \/ Write \/ Unlock \/ Signal \/ MarkEnd

-----------------------------------------------------------------------------
\* Mutant: the wait is guarded by an if instead of a while.
MainLockTestsOnce ==
  /\ \/ counter < args.size /\ MainGoes("loop", "test")
     \/ MainGoes("relock", "take")
  /\ mut = "nobody" /\ mut' = "main"
  /\ MainOnly /\ UNCHANGED <<buf, counter>>

MainLock ==
  /\ \/ counter < args.size /\ MainGoes("loop", "test")
     \/ MainGoes("relock", "test")
  /\ mut = "nobody" /\ mut' = "main"
  /\ MainOnly /\ UNCHANGED <<buf, counter>>

Test ==
  /\ main = "test"
  /\ main' = IF buf[counter] = 0 THEN "wait" ELSE "take"
  /\ MainOnly /\ UNCHANGED <<buf, mut, counter>>

Wait ==
  /\ MainGoes("wait", "asleep")
  /\ mut' = "nobody"
  /\ MainOnly /\ UNCHANGED <<buf, counter>>

\* pthread_cond_wait may also return without a signal.
SpuriousWakeup ==
  /\ MainGoes("asleep", "relock")
  /\ MainOnly /\ UNCHANGED <<buf, mut, counter>>

Take ==
  /\ main = "take"
  /\ mut' = "nobody"
  /\ IF buf[counter] = -1
     THEN main' = "join" /\ UNCHANGED counter
     ELSE main' = "print" /\ counter' = counter + 1
  /\ MainOnly /\ UNCHANGED buf

PrintPrime ==
  /\ MainGoes("print", "loop")
  /\ printed' = Append(printed, buf[counter - 1])
  /\ UNCHANGED <<args, buf, mut, producer, i, count, counter>>

LeaveLoop ==
  /\ counter >= args.size /\ MainGoes("loop", "join")
  /\ MainOnly /\ UNCHANGED <<buf, mut, counter>>

\* pthread_join; then main frees the buffer.
Join ==
  /\ producer = "returned" /\ MainGoes("join", "returned")
  /\ MainOnly /\ UNCHANGED <<buf, mut, counter>>

Main == MainLock \/ Test \/ Wait \/ Take \/ PrintPrime \/ LeaveLoop \/ Join

Finished == main = "returned" /\ UNCHANGED vars

Next == Producer \/ Main \/ SpuriousWakeup \/ Finished

\* Both threads are scheduled, and find_primes gets a mutex that is free again
\* and again (main may wake up spuriously for ever); nothing is assumed about
\* spurious wakeups.
Spec ==
  Init /\ [][Next]_vars /\ WF_vars(Producer) /\ SF_vars(Lock) /\ WF_vars(Main)

-----------------------------------------------------------------------------
TypeOK ==
  /\ args \in Arguments
  /\ buf \in [0 .. args.size -> Int]
  /\ mut \in {"nobody", "producer", "main"}
  /\ producer \in {"scan", "lock", "write", "unlock", "signal", "mark",
                   "lockLast", "unlockLast", "signalLast", "returned"}
  /\ i \in Nat
  /\ count \in 0 .. args.size
  /\ main \in {"loop", "test", "wait", "asleep", "relock", "take", "print",
               "join", "returned"}
  /\ counter \in 0 .. args.size
  /\ printed \in Seq(Int)

\* No lost wakeup: when main is about to sleep or asleep although its cell is
\* filled, find_primes has not sent the signal for that cell yet.  For the
\* terminator, written without the mutex (inf19-1.c:62), this is what the
\* empty critical section after it is for.
WakeupIsComing ==
  main = "asleep" /\ buf[counter] # 0
    => producer \in {"unlock", "signal", "lockLast", "unlockLast", "signalLast"}

\* Who holds the mutex, and where the two counters cannot be at their limit.
Positions ==
  /\ mut = "producer" <=> producer \in {"write", "unlock", "unlockLast"}
  /\ mut = "main" <=> main \in {"test", "wait", "take"}
  /\ producer \in {"lock", "write"} => count < args.size
  /\ main \in {"test", "wait", "asleep", "relock", "take"} => counter < args.size
  /\ main = "print" => counter > 0

\* While main is between its test and its sleep it holds the mutex, so
\* find_primes is not in a position from which its next step is the signal for
\* the cell main found empty.
NoSignalBeforeSleep ==
  main = "wait" => /\ mut = "main"
                   /\ producer \notin {"unlock", "unlockLast"}
                   /\ buf[counter] # 0 => producer = "lockLast"

\* The buffer is only freed, and main only returns, after find_primes stopped
\* using it; and every cell below main's counter keeps the value printed for it.
BufferInUse ==
  /\ main = "returned" => producer = "returned"
  /\ \A k \in 1 .. Len(printed) : buf[k - 1] = printed[k]

\* The types, no lost wakeup, and the buffer in use as long as it is read.
Inv == TypeOK /\ WakeupIsComing /\ BufferInUse

Stream == INSTANCE PrimeOutput WITH ended <- main = "returned"

\* The program prints the first size primes of its range, in order, and
\* nothing else, and ends only after the last of them.
PrintsThePrimes == Stream!Safety

\* is_prime takes 0 for a prime, and in the buffer 0 means "not there yet": over
\* a range from 0 main waits for it for ever (inf19-1.c:32).
WaitsForZero ==
  /\ args.low = 0 /\ args.size > 0
  /\ main = "asleep" /\ producer = "returned" /\ counter = 0

\* Over every other range it does end.
Ends == <>(main = "returned" \/ WaitsForZero)
=============================================================================
