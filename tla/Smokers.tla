------------------------------- MODULE Smokers -------------------------------
(***************************************************************************)
(* inf20-2.c: a barman process hands every letter of its input to one of   *)
(* three smoker processes over shared memory and two semaphores, and at    *)
(* the end of the input sends each of them SIGTERM, then a last post and   *)
(* another SIGTERM, and waits for them.                                    *)
(***************************************************************************)
EXTENDS Integers, Sequences

CONSTANT Inputs    \* the inputs: sequences of character codes

ASSUME InputsAssumption == Inputs \subseteq Seq(0 .. 255)

VARIABLES
  input,     \* what is left of the standard input
  read,      \* history: the letters handed over so far, in upper case
  item,      \* info->item
  take,      \* the semaphore info->take
  give,      \* the semaphore info->give
  barman,    \* where the parent is
  n,         \* its loop counter
  smoker,    \* where each child is
  checker,   \* the flag of each child
  pending,   \* a SIGTERM sent to the child and not delivered yet
  output     \* what the children have printed, and which of them

shared == <<item, take, give>>
children == <<smoker, checker, pending, output>>
vars == <<input, read, shared, barman, n, children>>

Smokers == 0 .. 2
Ended == {"returned", "killed"}

isalpha(c) == c \in 65 .. 90 \cup 97 .. 122
toupper(c) == IF c \in 97 .. 122 THEN c - 32 ELSE c

Init ==
  /\ input \in Inputs
  /\ read = <<>>
  /\ item = 0 /\ take = 0 /\ give = 0
  /\ barman = "fork" /\ n = 0
  /\ smoker = [s \in Smokers |-> "unborn"]
  /\ checker = [s \in Smokers |-> TRUE]
  /\ pending = [s \in Smokers |-> FALSE]
  /\ output = <<>>

-----------------------------------------------------------------------------
Fork ==
  /\ barman = "fork"
  /\ IF n < 3
     THEN /\ smoker' = [smoker EXCEPT ![n] = "born"]
          /\ n' = n + 1
          /\ UNCHANGED barman
     ELSE barman' = "read" /\ n' = 0 /\ UNCHANGED smoker
  /\ UNCHANGED <<input, read, shared, checker, pending, output>>

\* c is a signed char: a byte above 127 looks like the end of the input.
AtEnd == input # <<>> => Head(input) > 127

\* getc, up to the post: characters other than letters are skipped.
Offer ==
  /\ barman = "read" /\ ~AtEnd
  /\ input' = Tail(input)
  /\ IF isalpha(Head(input))
     THEN /\ item' = toupper(Head(input))
          /\ read' = Append(read, item')
          /\ take' = take + 1
          /\ barman' = "wait"
     ELSE UNCHANGED <<item, read, take, barman>>
  /\ UNCHANGED <<give, n, children>>

\* Mutant: the barman does not wait until the letter has been taken.
AwaitNothing ==
  /\ barman = "wait"
  /\ barman' = "read"
  /\ UNCHANGED <<input, read, shared, n, children>>

Await ==
  /\ barman = "wait" /\ give > 0
  /\ give' = give - 1
  /\ barman' = "read"
  /\ UNCHANGED <<input, read, item, take, n, children>>

\* Mutant: c is an unsigned char, and never negative.
EndOfInputUnseen == barman = "read" /\ AtEnd /\ UNCHANGED vars

EndOfInput ==
  /\ barman = "read" /\ AtEnd
  /\ barman' = "kill"
  /\ UNCHANGED <<input, read, shared, n, children>>

\* kill (pid, SIGTERM): a signal already pending is merged, one to a child
\* that has ended is lost.
Signalled(s) == [pending EXCEPT ![s] = smoker[s] \notin Ended]

Kill ==
  /\ barman = "kill"
  /\ IF n < 3
     THEN /\ pending' = Signalled(n)
          /\ n' = n + 1
          /\ UNCHANGED barman
     ELSE barman' = "post" /\ n' = 0 /\ UNCHANGED pending
  /\ UNCHANGED <<input, read, shared, smoker, checker, output>>

LastPost ==
  /\ barman = "post"
  /\ IF n < 3
     THEN take' = take + 1 /\ barman' = "killAgain" /\ UNCHANGED n
     ELSE barman' = "reap" /\ n' = 0 /\ UNCHANGED take
  /\ UNCHANGED <<input, read, item, give, children>>

KillAgain ==
  /\ barman = "killAgain"
  /\ pending' = Signalled(n)
  /\ n' = n + 1
  /\ barman' = "post"
  /\ UNCHANGED <<input, read, shared, smoker, checker, output>>

\* waitpid for each child in turn.
Reap ==
  /\ barman = "reap"
  /\ IF n < 3 THEN smoker[n] \in Ended /\ n' = n + 1 /\ UNCHANGED barman
              ELSE barman' = "returned" /\ UNCHANGED n
  /\ UNCHANGED <<input, read, shared, children>>

Barman == Fork \/ Offer \/ Await \/ EndOfInput \/ Kill \/ LastPost \/ KillAgain \/ Reap

-----------------------------------------------------------------------------
Goes(s, from, to) == smoker[s] = from /\ smoker' = [smoker EXCEPT ![s] = to]

\* A pending signal is delivered on the way out of a system call at the latest.
LeaveKernel(s) ==
  /\ checker' = [checker EXCEPT ![s] = @ /\ ~pending[s]]
  /\ pending' = [pending EXCEPT ![s] = FALSE]

Sigaction(s) ==
  /\ Goes(s, "born", "test") /\ LeaveKernel(s)
  /\ UNCHANGED <<input, read, shared, barman, n, output>>

\* while (checker)
Test(s) ==
  /\ Goes(s, "test", IF checker[s] THEN "wait" ELSE "returned")
  /\ UNCHANGED <<input, read, shared, barman, n, checker, pending, output>>

\* sem_wait (&info->take), restarted after the handler.
Take(s) ==
  /\ Goes(s, "wait", "check")
  /\ take > 0
  /\ take' = take - 1
  /\ UNCHANGED <<input, read, item, give, barman, n, checker, pending, output>>

\* if (checker == 0) break
Check(s) ==
  /\ Goes(s, "check", IF checker[s] THEN "print" ELSE "returned")
  /\ UNCHANGED <<input, read, shared, barman, n, checker, pending, output>>

\* Mutant: the output is not flushed, so that no system call delivers a signal.
PrintUnflushed(s) ==
  /\ Goes(s, "print", "give")
  /\ output' = Append(output, [by |-> s, item |-> item])
  /\ UNCHANGED <<input, read, shared, barman, n, checker, pending>>

\* printf and fflush, a system call.
PrintItem(s) ==
  /\ Goes(s, "print", "give") /\ LeaveKernel(s)
  /\ output' = Append(output, [by |-> s, item |-> item])
  /\ UNCHANGED <<input, read, shared, barman, n>>

Give(s) ==
  /\ Goes(s, "give", "test")
  /\ give' = give + 1
  /\ UNCHANGED <<input, read, item, take, barman, n, checker, pending, output>>

\* A child that has not installed its handler yet dies.
Deliver(s) ==
  /\ pending[s] /\ smoker[s] \notin Ended
  /\ pending' = [pending EXCEPT ![s] = FALSE]
  /\ IF smoker[s] = "born"
     THEN smoker' = [smoker EXCEPT ![s] = "killed"] /\ UNCHANGED checker
     ELSE checker' = [checker EXCEPT ![s] = FALSE] /\ UNCHANGED smoker
  /\ UNCHANGED <<input, read, shared, barman, n, output>>

Smoker(s) ==
  Sigaction(s) \/ Test(s) \/ Take(s) \/ Check(s) \/ PrintItem(s) \/ Give(s)

Finished == barman = "returned" /\ UNCHANGED vars

Next == Barman \/ Finished \/ \E s \in Smokers : Smoker(s) \/ Deliver(s)

\* Every process is scheduled and every signal arrives.
Spec ==
  /\ Init /\ [][Next]_vars
  /\ WF_vars(Barman)
  /\ \A s \in Smokers : WF_vars(Smoker(s)) /\ WF_vars(Deliver(s))

-----------------------------------------------------------------------------
TypeOK ==
  /\ input \in Seq(0 .. 255) /\ read \in Seq(65 .. 90) /\ item \in 0 .. 255
  /\ take \in 0 .. 3 /\ give \in 0 .. 3
  /\ barman \in {"fork", "read", "wait", "kill", "post", "killAgain", "reap", "returned"}
  /\ n \in 0 .. 3
  /\ smoker \in [Smokers -> {"unborn", "born", "test", "wait", "check", "print",
                             "give"} \cup Ended]
  /\ checker \in [Smokers -> BOOLEAN] /\ pending \in [Smokers -> BOOLEAN]
  /\ output \in Seq([by : Smokers, item : 0 .. 255])

Serves(s) == smoker[s] \in {"check", "print", "give"}
NobodyServes == \A s \in Smokers : ~Serves(s)
OneServes == \E s \in Smokers : \A r \in Smokers : Serves(r) <=> r = s

\* While there is input, one letter is on its way at a time: it is posted and
\* not taken, or one child is serving it, or it has been given back.  No
\* second child reads the item, and the barman never overwrites it unread.
OneLetterAtATime ==
  /\ barman = "read" => take = 0 /\ give = 0 /\ NobodyServes
  /\ barman = "wait" => \/ take = 1 /\ give = 0 /\ NobodyServes
                        \/ take = 0 /\ give = 0 /\ OneServes
                        \/ take = 0 /\ give = 1 /\ NobodyServes
  /\ barman = "fork" => take = 0 /\ give = 0 /\ NobodyServes

\* What the children print between them is what has been read, in order; while
\* there is input only the letter on its way may be missing.
OutputFollowsInput ==
  /\ barman = "read" => Len(output) = Len(read)
  /\ barman = "wait" => Len(output) \in {Len(read) - 1, Len(read)}
  /\ barman \notin {"fork", "read", "wait"} => Len(output) >= Len(read)
  /\ \A k \in 1 .. Len(read) : k <= Len(output) => output[k].item = read[k]

\* The types, one letter on its way at a time, and the output in order.
Inv == TypeOK /\ OneLetterAtATime /\ OutputFollowsInput

\* A late SIGTERM can make a child take one of the last posts for another
\* letter and print the old one again; nothing else follows the input, and no
\* child does it twice.
OnlyTheLastItemRepeats ==
  \A j, k \in Len(read) + 1 .. Len(output) :
    /\ output[k].item = item
    /\ output[j].by = output[k].by => j = k

\* All three children end, main reaps them and returns: neither a signal that
\* comes before a child has its handler nor one between the test of the flag
\* and sem_wait leaves anybody waiting.
Ends == <>(barman = "returned" /\ \A s \in Smokers : smoker[s] \in Ended)
=============================================================================
