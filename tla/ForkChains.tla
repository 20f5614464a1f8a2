------------------------------ MODULE ForkChains ------------------------------
(***************************************************************************)
(* inf11-1.c and inf11-0.c: every process of a chain forks the next one    *)
(* and waits for it.  The first program writes the numbers from 1 to N,    *)
(* each process one; the second goes on until fork fails, and its last     *)
(* process writes how many there are.  A child starts with a copy of what  *)
(* its parent has not flushed.                                             *)
(***************************************************************************)
EXTENDS Naturals, Sequences

CONSTANTS
  Lengths,     \* bound: N of inf11-1.c
  MaxForks     \* how many processes the system can take at most

VARIABLES
  program,
  N,
  chain,      \* what each process has in its buffer, from the first to the last
  ended,      \* how many of them have ended, from the last
  out,
  failed      \* a fork has failed

vars == <<program, N, chain, ended, out, failed>>

Newline == 0

Init ==
  /\ program \in {"inf11_0", "inf11_1"} /\ N \in Lengths
  /\ chain = <<IF program = "inf11_1" THEN <<1>> ELSE <<>>>>
  /\ ended = 0 /\ out = <<>> /\ failed = FALSE

Deepest == Len(chain)
Forking == ended = 0

\* The next number, fflush, and fork.  When it fails the process ends, without a
\* newline; the others wait for it.
Step ==
  /\ program = "inf11_1" /\ Forking /\ ~failed /\ Deepest < N
  /\ out' = out \o Append(chain[Deepest], Deepest + 1)
  /\ \/ /\ chain' = Append([chain EXCEPT ![Deepest] = <<>>], <<>>)
        /\ UNCHANGED <<ended, failed>>
     \/ /\ chain' = [chain EXCEPT ![Deepest] = <<>>]
        /\ failed' = TRUE /\ ended' = 1
  /\ UNCHANGED <<program, N>>

\* The last process: the newline, and the end.
Finish ==
  /\ program = "inf11_1" /\ Forking /\ Deepest >= N
  /\ out' = out \o Append(chain[Deepest], Newline)
  /\ chain' = [chain EXCEPT ![Deepest] = <<>>]
  /\ ended' = 1
  /\ UNCHANGED <<program, N, failed>>

\* inf11-0.c: fork, and at last the number of processes.
Fork ==
  /\ program = "inf11_0" /\ Forking /\ Deepest < MaxForks
  /\ chain' = Append(chain, <<>>)
  /\ UNCHANGED <<program, N, ended, out, failed>>

ForkFails ==
  /\ program = "inf11_0" /\ Forking
  /\ failed' = TRUE /\ ended' = 1 /\ out' = Append(out, Deepest)
  /\ UNCHANGED <<program, N, chain>>

\* waitpid, and the end: exit flushes the buffer.
WaitAndReturn ==
  /\ ended > 0 /\ ended < Deepest
  /\ out' = out \o chain[Deepest - ended]
  /\ ended' = ended + 1
  /\ UNCHANGED <<program, N, chain, failed>>

Next == Step \/ Finish \/ Fork \/ ForkFails \/ WaitAndReturn

Fairness == WF_vars(Next)

Spec == Init /\ [][Next]_vars /\ Fairness

-----------------------------------------------------------------------------
TypeOK ==
  /\ ended \in 0 .. Deepest /\ failed \in BOOLEAN
  /\ chain \in Seq(Seq(Nat)) /\ out \in Seq(Nat)

Line == IF N < 1 THEN <<1, Newline>> ELSE Append([k \in 1 .. N |-> k], Newline)

\* No number is written twice or out of order, although every process has a copy
\* of its parent's buffer; without a failing fork the line is complete.
Inv ==
  /\ TypeOK
  /\ program = "inf11_1" =>
       /\ Len(out) <= Len(Line) /\ out = SubSeq(Line, 1, Len(out))
       /\ ended = Deepest /\ ~failed => out = Line
  /\ program = "inf11_0" /\ ended = Deepest => out = <<Deepest>>

Ends == <>(ended = Deepest)
=============================================================================
