---------------------------- MODULE SignalCounters ----------------------------
(***************************************************************************)
(* inf13-0.c and inf13-1.c: a process that sleeps in sigsuspend and does   *)
(* all its work in one signal handler.  A handler blocks its own signal    *)
(* only, so handlers of different signals nest: at any point of the code,  *)
(* and also before the first instruction, when a wakeup finds several      *)
(* signals pending.                                                        *)
(***************************************************************************)
EXTENDS Integers, Sequences, FiniteSets, SequencesExt

CONSTANTS StartNumbers,   \* what can be typed in for start_num
          MaxSends        \* bound: signals sent while the program runs

VARIABLES
  program,
  main,       \* where main is
  counter, chk_exit,
  buffer,     \* the static buffer: the number printed into it
  pending,    \* signals waiting to be delivered
  stack,      \* the handlers that have been entered and not left, top first
  output,     \* what was written: a number, cut or padded to a length
  sends,
  expected,   \* history: the counter, had no handler been interrupted
  torn        \* history: a handler was halfway through an update or an output
              \* when another one that updates and writes began

vars == <<program, main, counter, chk_exit, buffer, pending, stack, output,
          sends, expected, torn>>

\* In the order of their numbers, in which Linux delivers them.
Signals ==
  IF program = "inf13_0" THEN <<"INT", "TERM">> ELSE <<"INT", "USR1", "USR2", "TERM">>

\* What the handler does for a signal; "++counter" and "counter *= -1" load and
\* store a volatile variable.
Body(s) ==
  IF program = "inf13_0"
  THEN IF s = "INT" THEN <<"load", "store">> ELSE <<"flag", "format", "write">>
  ELSE IF s \in {"INT", "TERM"} THEN <<"flag">>
       ELSE <<"load", "store", "format", "write">>

Updated(s, n) == IF s = "USR2" THEN -n ELSE n + 1

\* strlen of "%d\n", for numbers of at most two digits.
TextLength(n) == (IF n < 0 THEN 2 ELSE 1) + (IF n \in -9 .. 9 THEN 1 ELSE 2)

Init ==
  /\ program \in {"inf13_0", "inf13_1"}
  /\ main = IF program = "inf13_0" THEN "test" ELSE "read"
  /\ counter = 0 /\ chk_exit = FALSE /\ buffer = 0 /\ pending = {} /\ stack = <<>>
  /\ output = <<>> /\ sends = 0 /\ expected = 0 /\ torn = FALSE

-----------------------------------------------------------------------------
\* main; all signals are blocked outside sigsuspend.
ReadNumber ==
  /\ main = "read" /\ main' = "test"
  /\ \E n \in StartNumbers : counter' = n /\ expected' = n
  /\ UNCHANGED <<program, chk_exit, buffer, pending, stack, output, sends, torn>>

Test ==
  /\ main = "test" /\ stack = <<>>
  /\ main' = IF chk_exit THEN "exited" ELSE "sleep"
  /\ UNCHANGED <<program, counter, chk_exit, buffer, pending, stack, output,
                 sends, expected, torn>>

Suspend ==
  /\ main = "sleep" /\ stack = <<>>
  /\ main' = "suspended"
  /\ UNCHANGED <<program, counter, chk_exit, buffer, pending, stack, output,
                 sends, expected, torn>>

\* Mutant: the signals are not blocked before the loop.
ReceptiveAlways == main \in {"test", "sleep", "suspended"}

Receptive == main = "suspended"

\* Mutant: a handler does not block its own signal (SA_NODEFER).
DeliverableAgain == IF Receptive THEN pending ELSE {}

Deliverable ==
  IF Receptive THEN pending \ {stack[i].sig : i \in DOMAIN stack} ELSE {}

\* Between the load and the store, or the formatting and the writing.
Halfway(frame) ==
  frame.rest # <<>> /\ Head(frame.rest) \in {"store", "write"}

\* A frame for the handler is put on the stack.
Deliver ==
  \E i \in DOMAIN Signals :
    LET s == Signals[i] IN
       /\ s \in Deliverable
       /\ \A j \in 1 .. i - 1 : Signals[j] \notin Deliverable
       /\ pending' = pending \ {s}
       /\ stack' = <<[sig |-> s, rest |-> Body(s), reg |-> 0, size |-> 0,
                      due |-> 0]>> \o stack
       /\ torn' = (torn \/ \E k \in DOMAIN stack :
                              {s, stack[k].sig} = {"USR1", "USR2"} /\ Halfway(stack[k]))
       /\ UNCHANGED <<program, main, counter, chk_exit, buffer, output, sends, expected>>

\* The handler on top of the stack goes on when no signal can be delivered.
Runs(step) ==
  /\ Deliverable = {}
  /\ stack # <<>> /\ stack[1].rest # <<>> /\ Head(stack[1].rest) = step
  /\ UNCHANGED <<program, main, pending, sends, torn>>

Top == [stack[1] EXCEPT !.rest = Tail(@)]
Becomes(frame) == stack' = <<frame>> \o Tail(stack)

Load ==
  /\ Runs("load") /\ Becomes([Top EXCEPT !.reg = counter])
  /\ UNCHANGED <<counter, chk_exit, buffer, output, expected>>

Store ==
  /\ Runs("store") /\ Becomes(Top)
  /\ counter' = Updated(Top.sig, Top.reg)
  /\ expected' = Updated(Top.sig, expected)
  /\ UNCHANGED <<chk_exit, buffer, output>>

RaiseFlag ==
  /\ Runs("flag") /\ Becomes(Top)
  /\ chk_exit' = TRUE
  /\ UNCHANGED <<counter, buffer, output, expected>>

Format ==
  /\ Runs("format")
  /\ Becomes([Top EXCEPT !.size = TextLength(counter), !.due = expected])
  /\ buffer' = counter
  /\ UNCHANGED <<counter, chk_exit, output, expected>>

Write ==
  /\ Runs("write") /\ Becomes(Top)
  /\ output' = Append(output, [text |-> buffer, size |-> Top.size, due |-> Top.due])
  /\ UNCHANGED <<counter, chk_exit, buffer, expected>>

\* sigreturn; sigsuspend returns when the handler it was left for has returned.
Return ==
  /\ Deliverable = {} /\ stack # <<>> /\ stack[1].rest = <<>>
  /\ stack' = Tail(stack)
  /\ main' = IF Len(stack) = 1 /\ main = "suspended" THEN "test" ELSE main
  /\ UNCHANGED <<program, counter, chk_exit, buffer, pending, output, sends,
                 expected, torn>>

Process ==
  \/ Test \/ Suspend
  \/ Deliver \/ Load \/ Store \/ RaiseFlag \/ Format \/ Write \/ Return

\* A signal that is pending already is not counted twice.
Send ==
  /\ main # "exited" /\ sends < MaxSends
  /\ sends' = sends + 1
  /\ \E i \in DOMAIN Signals : pending' = pending \cup {Signals[i]}
  /\ UNCHANGED <<program, main, counter, chk_exit, buffer, stack, output, expected, torn>>

\* The process has ended, or sleeps and nobody will wake it.
Rest ==
  /\ main = "exited" \/ (main = "suspended" /\ stack = <<>> /\ pending = {})
  /\ UNCHANGED vars

Next == ReadNumber \/ Process \/ Send \/ Rest

\* The process is scheduled; nobody has to type a number or to send a signal.
Fairness == WF_vars(Process)

Spec == Init /\ [][Next]_vars /\ Fairness

-----------------------------------------------------------------------------
Numbers == -(9 + MaxSends) .. 9 + MaxSends

TypeOK ==
  /\ main \in {"read", "test", "sleep", "suspended", "exited"}
  /\ {counter, buffer, expected} \subseteq Numbers
  /\ chk_exit \in BOOLEAN /\ torn \in BOOLEAN
  /\ pending \subseteq ToSet(Signals)
  /\ \A i \in DOMAIN stack : stack[i].sig \in ToSet(Signals)

\* The counter is that of the signals handled, and what is written is the
\* counter as it was formatted, in full: handlers may nest as they like, only
\* SIGUSR1 and SIGUSR2 in the midst of each other's work can lose an update or
\* write the other one's text (inf13-1.c:21).
CountIsExact ==
  ~torn =>
    /\ counter = expected
    /\ \A i \in DOMAIN output :
         /\ output[i].text = output[i].due
         /\ output[i].size = TextLength(output[i].due)

\* The types, and the exact count.
Inv == TypeOK /\ CountIsExact

Stops == IF program = "inf13_0" THEN {"TERM"} ELSE {"INT", "TERM"}

\* A signal to stop is never slept through: it is blocked while main looks at
\* the flag, and wakes sigsuspend later.
StopIsHeard ==
  (main # "read" /\ pending \cap Stops # {}) ~> main = "exited"
=============================================================================
