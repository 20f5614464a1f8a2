--------------------------------- MODULE Ping ---------------------------------
(***************************************************************************)
(* inf22-1.c, and its variants inf22-1-1.c and inf22-1-ver1.c: until       *)
(* timeout has passed, sleep, send an echo request over an ICMP socket and *)
(* wait up to RecvTimeout for a packet, and count.  The network may lose,  *)
(* delay and reorder replies, and other ICMP packets arrive at a raw       *)
(* socket.  Time passes in ticks while a program sleeps or waits; its own  *)
(* steps take none.                                                        *)
(***************************************************************************)
EXTENDS Integers, Sequences, FiniteSets

CONSTANTS Interval, Timeout,   \* argv[3] and argv[2], in ticks
          RecvTimeout,         \* SO_RCVTIMEO, in ticks
          MaxForeign           \* bound: ICMP packets that answer no request

ASSUME TimesAssumption ==
  /\ Interval \in Nat /\ Timeout \in Nat
  /\ RecvTimeout \in Nat \ {0} /\ MaxForeign \in Nat

VARIABLES
  program,      \* which of the three runs
  pc,           \* "loop", "sleep", "receive" or "printed"
  clock,        \* time since the start, total_sec after an iteration
  wake,         \* when the sleep or the wait ends
  msg_count,
  msg_received_count,
  travelling,   \* requests whose reply may still arrive
  inbox,        \* packets queued at the socket: a request's number or Foreign
  foreign,      \* number of other packets so far
  got,          \* history: the packets recvfrom has returned
  missed        \* history: the requests after which recvfrom timed out

network == <<travelling, inbox, foreign>>
vars == <<program, pc, clock, wake, msg_count, msg_received_count, network, got, missed>>

Foreign == -1

Raw == {"inf22_1", "inf22_1_1"}
Programs == Raw \cup {"inf22_1_ver1"}

Init ==
  /\ program \in Programs
  /\ pc = "loop" /\ clock = 0 /\ wake = 0
  /\ msg_count = 0 /\ msg_received_count = 0
  /\ travelling = {} /\ inbox = <<>> /\ foreign = 0
  /\ got = <<>> /\ missed = {}

-----------------------------------------------------------------------------
\* The head of the loop, the packet and its number, and usleep.
Prepare ==
  /\ pc = "loop" /\ clock < Timeout
  /\ msg_count' = msg_count + 1
  /\ pc' = "sleep" /\ wake' = clock + Interval
  /\ UNCHANGED <<program, clock, msg_received_count, network, got, missed>>

Send ==
  /\ pc = "sleep" /\ clock >= wake
  /\ travelling' = travelling \cup {msg_count - 1}
  /\ pc' = "receive" /\ wake' = clock + RecvTimeout
  /\ UNCHANGED <<program, clock, msg_count, msg_received_count, inbox, foreign, got, missed>>

\* recvfrom returns the oldest packet in the queue, whatever it answers.
Receive ==
  /\ pc = "receive" /\ inbox # <<>>
  /\ inbox' = Tail(inbox)
  /\ got' = Append(got, Head(inbox))
  /\ msg_received_count' = msg_received_count + 1
  /\ pc' = "loop"
  /\ UNCHANGED <<program, clock, wake, msg_count, travelling, foreign, missed>>

\* Mutant: the result of recvfrom is not looked at.
TimedOutIsCounted ==
  /\ pc = "receive" /\ inbox = <<>> /\ clock >= wake
  /\ missed' = missed \cup {msg_count - 1}
  /\ msg_received_count' = msg_received_count + 1
  /\ pc' = "loop"
  /\ UNCHANGED <<program, clock, wake, msg_count, network, got>>

\* Mutant: without SO_RCVTIMEO recvfrom waits for a packet.
WaitsForPacket == FALSE

\* "recvfrom (...) <= 0 && msg_count > 1" in inf22-1.c: after the first request
\* the test of msg_count fails and the request is counted as answered.  The
\* variants look at the result alone.
CountedAnyway == program = "inf22_1" /\ msg_count <= 1

TimedOut ==
  /\ pc = "receive" /\ inbox = <<>> /\ clock >= wake
  /\ missed' = missed \cup {msg_count - 1}
  /\ msg_received_count' = msg_received_count + (IF CountedAnyway THEN 1 ELSE 0)
  /\ pc' = "loop"
  /\ UNCHANGED <<program, clock, wake, msg_count, network, got>>

PrintTotal ==
  /\ pc = "loop" /\ clock >= Timeout
  /\ pc' = "printed"
  /\ UNCHANGED <<program, clock, wake, msg_count, msg_received_count, network, got, missed>>

Program == Prepare \/ Send \/ Receive \/ TimedOut \/ PrintTotal

-----------------------------------------------------------------------------
\* A reply arrives, once at most; it may be late, overtaken or never come.
Arrive ==
  /\ \E r \in travelling :
       /\ travelling' = travelling \ {r}
       /\ inbox' = Append(inbox, r)
  /\ UNCHANGED <<program, pc, clock, wake, msg_count, msg_received_count, foreign, got, missed>>

\* inf22-1-ver1.c has a datagram socket, to which the kernel only passes the
\* replies to its own requests.
ArriveForeign ==
  /\ program \in Raw
  /\ foreign < MaxForeign
  /\ foreign' = foreign + 1
  /\ inbox' = Append(inbox, Foreign)
  /\ UNCHANGED <<program, pc, clock, wake, msg_count, msg_received_count, travelling, got, missed>>

Tick ==
  /\ pc \in {"sleep", "receive"} /\ clock < wake
  /\ clock' = clock + 1
  /\ UNCHANGED <<program, pc, wake, msg_count, msg_received_count, network, got, missed>>

Finished == pc = "printed" /\ UNCHANGED vars

Next == Program \/ Arrive \/ ArriveForeign \/ Tick \/ Finished

\* Nothing is assumed of the network.
Spec == Init /\ [][Next]_vars /\ WF_vars(Program) /\ WF_vars(Tick)

-----------------------------------------------------------------------------
TypeOK ==
  /\ program \in Programs
  /\ pc \in {"loop", "sleep", "receive", "printed"}
  /\ clock \in Nat /\ wake \in Nat
  /\ msg_count \in Nat /\ msg_received_count \in 0 .. msg_count
  /\ travelling \subseteq 0 .. msg_count - 1
  /\ inbox \in Seq(0 .. msg_count - 1 \cup {Foreign})
  /\ foreign \in 0 .. MaxForeign
  /\ got \in Seq(0 .. msg_count - 1 \cup {Foreign})
  /\ missed \subseteq 0 .. msg_count - 1

Completed == IF pc \in {"sleep", "receive"} THEN msg_count - 1 ELSE msg_count

\* The packets taken that answer a request.
Replies == Cardinality({k \in 1 .. Len(got) : got[k] # Foreign})

\* Every finished iteration took one packet off the socket or timed out.  What
\* inf22-1-ver1.c counts is the replies.  The programs with a raw socket miss
\* none, and count too many only for the other packets that came and, in
\* inf22-1.c alone, for a first request that timed out.
CountIsRight ==
  /\ Completed = Len(got) + Cardinality(missed)
  /\ program = "inf22_1_ver1" => msg_received_count = Replies
  /\ msg_received_count >= Replies
  /\ msg_received_count <=
       Replies + foreign + (IF program = "inf22_1" /\ 0 \in missed THEN 1 ELSE 0)

\* The task of inf22-1.c (lines 16 to 18): print the number of ICMP replies that
\* answer the requests.  The programs with a raw socket do not do it: they never
\* look at what came, and inf22-1.c counts a first request that timed out.
CountMatchesReplies == pc = "printed" => msg_received_count = Replies

\* No reply is counted twice, and none that was never asked for: a packet that
\* is not foreign is travelling, queued or taken, and only one of them.
EachReplyOnce ==
  /\ \A j, k \in 1 .. Len(got) : got[j] = got[k] /\ got[j] # Foreign => j = k
  /\ \A j \in 1 .. Len(got) :
       got[j] \notin travelling /\ \A k \in 1 .. Len(inbox) :
         inbox[k] = got[j] => got[j] = Foreign

\* The program is late by one sleep and one wait at most, and every
\* request costs it a sleep and, if it timed out, a whole RecvTimeout.
OnTime ==
  /\ clock < Timeout + Interval + RecvTimeout
  /\ clock >= Completed * Interval + Cardinality(missed) * RecvTimeout

\* The types, the count of the replies, each once, and the time it takes.
TotalIsRight == TypeOK /\ CountIsRight /\ EachReplyOnce /\ OnTime

\* It prints its total, whatever the network does.
TotalIsPrinted == <>(pc = "printed")
=============================================================================
