---------------------------- MODULE RealtimeSignals ----------------------------
(***************************************************************************)
(* Programs that take their work out of sigwaitinfo, with every signal     *)
(* blocked.  inf14-0.c: SIGRTMIN + k asks for the first line of the k-th   *)
(* file, SIGRTMIN ends it.  inf14-1.c and inf-14-1-tester.c: the tester    *)
(* sends numbers with sigqueue, the other answers with the number less one *)
(* and ends at a number that is not positive.                              *)
(***************************************************************************)
EXTENDS Integers, Sequences, FiniteSets, SequencesExt

CONSTANTS FileCount,     \* files given to inf14-0.c
          Numbers,       \* what is typed into the tester
          MaxAsked,      \* bound: requests, or numbers typed
          MaxStrays      \* bound: signals nobody meant as a request

VARIABLES
  service,
  file,     \* what the k-th file holds
  server,   \* where inf14-0.c or inf14-1.c is
  tester,   \* where the tester is
  inbox,    \* the signals pending for each of them, as sent
  current,  \* the signal the server works on
  asked,    \* the requests sent, or the numbers the tester has sent
  told,     \* what the server wrote, or the tester printed
  strays

vars == <<service, file, server, tester, inbox, current, asked, told, strays>>

Processes == {"server", "tester"}
Files == 1 .. FileCount

\* SIGRTMIN + k is written as k; standard signals have lower numbers.
Signal(n, v) == [number |-> n, value |-> v]
Standard == -1
Nothing == Signal(Standard, 0)

Init ==
  /\ service \in {"inf14_0", "inf14_1"}
  /\ IF service = "inf14_0"
     THEN file \in [Files -> {"line", "unended", "missing"}] /\ server = "waiting"
          /\ tester = "absent"
     ELSE file = [k \in Files |-> "line"] /\ server = "starting" /\ tester = "asking"
  /\ inbox = [p \in Processes |-> <<>>] /\ current = Nothing
  /\ asked = <<>> /\ told = <<>> /\ strays = 0

-----------------------------------------------------------------------------
\* Of the pending signals sigwaitinfo takes the one with the lowest number, and
\* of those with the same number the one that was sent first.
Chosen(q) ==
  CHOOSE i \in DOMAIN q :
    \A j \in DOMAIN q :
      \/ q[i].number < q[j].number
      \/ q[i].number = q[j].number /\ i <= j

\* Mutant: a signal that is already pending is not queued again.
SendOnce(p, s) ==
  inbox' = IF s \in ToSet(inbox[p]) THEN inbox ELSE [inbox EXCEPT ![p] = Append(@, s)]

\* sigqueue and kill queue real-time signals, and a standard one at most once.
Post(p, s) ==
  inbox' = IF s = Nothing /\ s \in ToSet(inbox[p]) THEN inbox
           ELSE [inbox EXCEPT ![p] = Append(@, s)]

Drop(p) == inbox' = [inbox EXCEPT ![p] = RemoveAt(@, Chosen(@))]
Taken(p) == inbox[p][Chosen(inbox[p])]

SetMask ==
  /\ server = "starting" /\ server' = "waiting"
  /\ UNCHANGED <<service, file, tester, inbox, current, asked, told, strays>>

Take ==
  /\ server = "waiting" /\ inbox["server"] # <<>>
  /\ current' = Taken("server") /\ Drop("server")
  /\ server' = "working"
  /\ UNCHANGED <<service, file, tester, asked, told, strays>>

\* inf14-0.c: a standard signal is ignored, SIGRTMIN ends the program.
Skip ==
  /\ service = "inf14_0" /\ server = "working" /\ current.number <= 0
  /\ server' = IF current.number = 0 THEN "ended" ELSE "waiting"
  /\ UNCHANGED <<service, file, tester, inbox, current, asked, told, strays>>

\* It writes the first line of the file; if that does not end with a newline,
\* the search for one runs into what the buffer, and the stack above it, held
\* before; without a file it reads from a null pointer.
WriteLine ==
  /\ service = "inf14_0" /\ server = "working" /\ current.number > 0
  /\ LET k == current.number
         kind == IF k \in Files THEN file[k] ELSE "missing"
     IN \/ /\ kind # "missing"
           /\ told' = Append(told, [number |-> k, clean |-> kind = "line"])
           /\ server' = "waiting"
        \/ kind # "line" /\ server' = "crashed" /\ UNCHANGED told
  /\ UNCHANGED <<service, file, tester, inbox, current, asked, strays>>

\* Mutant: no answer is sent when there is nothing left to count down.
ReplyUnlessZero ==
  /\ service = "inf14_1" /\ server = "working"
  /\ IF current.number = 0 /\ tester # "killed" /\ current.value # 1
     THEN Post("tester", Signal(0, current.value - 1)) ELSE UNCHANGED inbox
  /\ server' = IF current.value > 0 THEN "waiting" ELSE "ended"
  /\ UNCHANGED <<service, file, tester, current, asked, told, strays>>

\* inf14-1.c: the answer goes to the sender, whatever the signal was.
Reply ==
  /\ service = "inf14_1" /\ server = "working"
  /\ IF current.number = 0 /\ tester # "killed"
     THEN Post("tester", Signal(0, current.value - 1)) ELSE UNCHANGED inbox
  /\ server' = IF current.value > 0 THEN "waiting" ELSE "ended"
  /\ UNCHANGED <<service, file, tester, current, asked, told, strays>>

Server == SetMask \/ Take \/ Skip \/ WriteLine \/ Reply

-----------------------------------------------------------------------------
\* The tester sends a number; one that comes before the server has blocked
\* the signal kills it, and if it is gone sigqueue fails unnoticed.
Ask ==
  /\ tester = "asking" /\ tester' = "listening"
  /\ Len(asked) < MaxAsked
  /\ \E v \in Numbers :
       /\ asked' = Append(asked, v)
       /\ IF server \in {"waiting", "working"} THEN Post("server", Signal(0, v))
          ELSE UNCHANGED inbox
       /\ server' = IF server = "starting" THEN "crashed" ELSE server
  /\ UNCHANGED <<service, file, current, told, strays>>

\* It prints the value of any signal; received_value of the loop is another
\* variable, and stays 1.
Hear ==
  /\ tester = "listening" /\ inbox["tester"] # <<>>
  /\ told' = Append(told, Taken("tester")) /\ Drop("tester")
  /\ tester' = "asking"
  /\ UNCHANGED <<service, file, server, current, asked, strays>>

\* SIGINT is not blocked: it kills the tester, which never gets to look for it.
Interrupt ==
  /\ tester \in {"asking", "listening"} /\ tester' = "killed"
  /\ inbox' = [inbox EXCEPT !["tester"] = <<>>]
  /\ UNCHANGED <<service, file, server, current, asked, told, strays>>

\* Somebody asks inf14-0.c for a line, or to end.
Request ==
  /\ service = "inf14_0" /\ server \in {"waiting", "working"}
  /\ Len(asked) < MaxAsked
  /\ \E k \in 0 .. FileCount + 1 :
       asked' = Append(asked, k) /\ Post("server", Signal(k, 0))
  /\ UNCHANGED <<service, file, server, tester, current, told, strays>>

\* A standard signal with value 0, as of a window that changes its size.
Stray ==
  /\ strays < MaxStrays /\ strays' = strays + 1
  /\ \/ server \in {"waiting", "working"} /\ Post("server", Nothing)
     \/ tester \in {"asking", "listening"} /\ Post("tester", Nothing)
  /\ UNCHANGED <<service, file, server, tester, current, asked, told>>

\* Nothing is left to do, or to ask.
Rest ==
  /\ server # "starting" /\ server # "working"
  /\ server = "waiting" => inbox["server"] = <<>>
  /\ UNCHANGED vars

Next == Server \/ Ask \/ Hear \/ Interrupt \/ Request \/ Stray \/ Rest

\* Both processes are scheduled; nobody has to ask.
Fairness == WF_vars(Server) /\ WF_vars(Hear)

Spec == Init /\ [][Next]_vars /\ Fairness

-----------------------------------------------------------------------------
Signals == [number : -1 .. FileCount + 1, value : Int]

TypeOK ==
  /\ server \in {"starting", "waiting", "working", "ended", "crashed"}
  /\ tester \in {"absent", "asking", "listening", "killed"}
  /\ inbox \in [Processes -> Seq(Signals)] /\ current \in Signals
  /\ strays \in 0 .. MaxStrays

\* How many of the first i signals of q have number k.
Rank(q, i, k) == Cardinality({j \in 1 .. i : q[j].number = k})
CountOf(q, k) == Rank(q, Len(q), k)

\* The tester gets the answers in the order of its questions, none twice; what
\* a stray signal makes it print in between is not one of them, and shifts
\* the answers to later questions (inf-14-1-tester.c:34).
AnswersInOrder ==
  service = "inf14_1" => \A i \in DOMAIN told : told[i].number = 0 =>
    LET question == Rank(told, i, 0)
    IN question <= Len(asked) /\ told[i].value = asked[question] - 1

\* A request for a line is neither lost nor answered twice, however many of the
\* same kind are pending (inf14-0.c:26).
EachRequestOnce ==
  service = "inf14_0" /\ server # "crashed" =>
    \A k \in Files :
      Cardinality({i \in DOMAIN asked : asked[i] = k})
        = CountOf(told, k) + CountOf(inbox["server"], k)
          + (IF server = "working" /\ current.number = k THEN 1 ELSE 0)

\* The server only ends as told, or for a cause outside its code: inf14-0.c at
\* SIGRTMIN or a bad file; inf14-1.c at a number that is not positive, a stray
\* signal, or a question that came before its mask.
EndsForCause ==
  /\ server = "ended" =>
       IF service = "inf14_0" THEN 0 \in ToSet(asked)
       ELSE strays > 0 \/ \E i \in DOMAIN asked : asked[i] <= 0
  /\ server = "crashed" =>
       IF service = "inf14_0" THEN \E i \in DOMAIN asked :
                                     asked[i] \notin Files \/ file[asked[i]] # "line"
       ELSE asked # <<>>

\* The types, and the three above.
Inv == TypeOK /\ AnswersInOrder /\ EachRequestOnce /\ EndsForCause

\* Requests that wait are all answered unless the program ends first, and the
\* tester only waits for ever when inf14-1.c has ended.
EveryoneIsAnswered ==
  /\ inbox["server"] # <<>> ~> inbox["server"] = <<>> \/ server \in {"ended", "crashed"}
  /\ tester = "listening" ~> tester # "listening" \/ server \in {"ended", "crashed"}
=============================================================================
