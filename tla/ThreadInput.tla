----------------------------- MODULE ThreadInput -----------------------------
(***************************************************************************)
(* inf18-1.c and inf18-0.c: threads that read their numbers from the same  *)
(* input.  Those of the first add up what each of them gets, and main adds *)
(* their sums; in the second every thread starts the next one, and prints  *)
(* its number when that has ended.                                         *)
(***************************************************************************)
EXTENDS Integers, Sequences, SequencesExt, FiniteSetsExt

CONSTANTS
  threads_count,   \* of inf18-1.c
  Inputs,          \* bound: sequences of numbers, and of Word
  Most             \* bound: threads of inf18-0.c, more than there is input

VARIABLES
  program,
  given,      \* the input, and what is left of it
  input,
  created,    \* threads created, and threads joined by main
  joined,
  current,    \* each thread: the number it has read
  sum,        \* each thread: its sum (inf18-1.c)
  state,      \* each thread: "add", "scan", "ended" or "endless"; in inf18-0.c
              \* "wait" stands for "add"
  full_sum,
  output

vars == <<program, given, input, created, joined, current, sum, state, full_sum, output>>

Word == -1          \* something that is not a number
Ids == 1 .. Most

Init ==
  /\ program \in {"inf18_0", "inf18_1"}
  /\ given \in Inputs /\ input = given
  /\ created = IF program = "inf18_0" THEN 1 ELSE 0
  /\ joined = 0 /\ full_sum = 0 /\ output = <<>>
  /\ current = [t \in Ids |-> 0] /\ sum = [t \in Ids |-> 0]
  /\ state = [t \in Ids |-> IF program = "inf18_0" THEN "scan" ELSE "add"]

Becomes(t, s) == state' = [state EXCEPT ![t] = s]

\* main of inf18-1.c.
Create ==
  /\ program = "inf18_1" /\ created < threads_count /\ created' = created + 1
  /\ UNCHANGED <<program, given, input, joined, current, sum, state, full_sum, output>>

Add(t) ==
  /\ program = "inf18_1" /\ t <= created /\ state[t] = "add"
  /\ sum' = [sum EXCEPT ![t] = @ + current[t]]
  /\ Becomes(t, "scan")
  /\ UNCHANGED <<program, given, input, created, joined, current, full_sum, output>>

\* scanf: a number, the end, or a word, which stays where it is: partional_sum
\* adds its last number again and again, and the chain of inf18-0.c grows until
\* no thread can be created.
Scan(t) ==
  /\ t <= created /\ state[t] = "scan"
  /\ \/ input = <<>> /\ Becomes(t, "ended") /\ UNCHANGED <<input, current, created>>
     \/ /\ input # <<>> /\ Head(input) = Word
        /\ Becomes(t, "endless") /\ UNCHANGED <<input, current, created>>
     \/ /\ input # <<>> /\ Head(input) # Word
        /\ current' = [current EXCEPT ![t] = Head(input)] /\ input' = Tail(input)
        /\ IF program = "inf18_0"
           THEN created' = created + 1 /\ Becomes(t, "wait")
           ELSE UNCHANGED created /\ Becomes(t, "add")
  /\ UNCHANGED <<program, given, joined, sum, full_sum, output>>

\* inf18-0.c: pthread_join of the next thread.
PrintCurrent(t) ==
  /\ program = "inf18_0" /\ state[t] = "wait" /\ state[t + 1] = "ended"
  /\ output' = Append(output, current[t])
  /\ Becomes(t, "ended")
  /\ UNCHANGED <<program, given, input, created, joined, current, sum, full_sum>>

Threads == IF program = "inf18_0" THEN 1 ELSE threads_count

\* main joins its threads in their order.
Join ==
  /\ program = "inf18_1" => created = threads_count
  /\ joined < Threads /\ state[joined + 1] = "ended"
  /\ joined' = joined + 1
  /\ full_sum' = full_sum + sum[joined + 1]
  /\ output' = IF program = "inf18_1" /\ joined + 1 = Threads THEN <<full_sum'>> ELSE output
  /\ UNCHANGED <<program, given, input, created, current, sum, state>>

Next == Create \/ Join \/ \E t \in Ids : Add(t) \/ Scan(t) \/ PrintCurrent(t)

Fairness ==
  /\ WF_vars(Create) /\ WF_vars(Join)
  /\ \A t \in Ids : WF_vars(Add(t) \/ Scan(t) \/ PrintCurrent(t))

Spec == Init /\ [][Next]_vars /\ Fairness

-----------------------------------------------------------------------------
TypeOK ==
  /\ created \in 0 .. Most /\ joined \in 0 .. Threads
  /\ state \in [Ids -> {"add", "scan", "wait", "ended", "endless"}]
  /\ output \in Seq(Int)

\* Each number is taken by one thread and counted once, however the reads of the
\* threads fall; a chain of threads prints them in reverse.
Inv ==
  /\ TypeOK
  /\ program = "inf18_1" /\ output # <<>> => output = <<FoldSeq(+, 0, given)>>
  /\ program = "inf18_0" =>
       /\ IsPrefix(output, Reverse(given))
       /\ joined = 1 => output = Reverse(given)

\* The program ends unless the input holds a word.
Ends == <>(joined = Threads \/ Word \in ToSet(given))
=============================================================================
