---------------------------- MODULE NumberClients ----------------------------
(***************************************************************************)
(* inf16-0.c and inf22-0.c: clients that send the numbers typed in, one at *)
(* a time, and print what comes back for each.  The first has a stream, of *)
(* which a read takes what is there; the second has datagrams, which can   *)
(* be lost, doubled, late, or from somebody else.  What a datagram's       *)
(* sender is gets written over the address of the server.                  *)
(***************************************************************************)
EXTENDS Integers, Sequences

CONSTANTS
  Size,         \* parts of a number that a stream can deliver by themselves
  MaxNumbers,   \* bound: numbers typed in
  MaxSent,      \* bound: numbers sent, when a word makes it send for ever
  MaxCopies,    \* bound: answers to one datagram
  MaxForeign    \* bound: datagrams nobody asked for

VARIABLES
  program,
  numbers, word,   \* numbers that are still to be typed, and whether a word follows
  pc,              \* "scan", "write", "read", "ended" or "killed"
  sent,            \* how many numbers have been sent
  arrived, taken,  \* the stream: parts that have come, and that have been read
  closed,          \* the server has closed it
  to,              \* datagrams: whom each was sent to
  peer,            \* the address they are sent to
  copies,          \* answers to each that have come
  foreign, inbox,
  printed          \* which answer each printed number was, or another value

input == <<numbers, word>>
stream == <<arrived, taken, closed>>
datagrams == <<to, peer, copies, foreign, inbox>>
vars == <<program, input, pc, sent, stream, datagrams, printed>>

Foreign == 0
Mixed == -1

Init ==
  /\ program \in {"inf16_0", "inf22_0"}
  /\ numbers \in 0 .. MaxNumbers /\ word \in BOOLEAN
  /\ pc = "scan" /\ sent = 0
  /\ arrived = 0 /\ taken = 0 /\ closed = FALSE
  /\ to = <<>> /\ peer = "server" /\ copies = <<>> /\ foreign = 0 /\ inbox = <<>>
  /\ printed = <<>>

-----------------------------------------------------------------------------
(***************************************************************************)
(* The client.  A word stays in the input, and scanf leaves the variable   *)
(* as it is.                                                               *)
(***************************************************************************)
Scan ==
  /\ pc = "scan"
  /\ IF numbers = 0 /\ ~word
     THEN pc' = "ended" /\ UNCHANGED numbers
     ELSE /\ sent < MaxSent
          /\ pc' = "write"
          /\ numbers' = IF numbers = 0 THEN 0 ELSE numbers - 1
  /\ UNCHANGED <<program, word, sent, stream, datagrams, printed>>

\* A write after the server's end can still work, or fail, or raise SIGPIPE.
Write ==
  /\ pc = "write" /\ program = "inf16_0"
  /\ \/ pc' = "read" /\ sent' = sent + 1
     \/ closed /\ pc' \in {"ended", "killed"} /\ UNCHANGED sent
  /\ UNCHANGED <<program, input, stream, datagrams, printed>>

sendto ==
  /\ pc = "write" /\ program = "inf22_0"
  /\ pc' = "read" /\ sent' = sent + 1
  /\ to' = Append(to, peer) /\ copies' = Append(copies, 0)
  /\ UNCHANGED <<program, input, stream, peer, foreign, inbox, printed>>

\* The number that n parts behind the first k make: an answer if they are one.
Value(k, n) == IF n = Size /\ k % Size = 0 THEN k \div Size + 1 ELSE Mixed

Read ==
  /\ pc = "read" /\ program = "inf16_0" /\ arrived > taken
  /\ LET n == IF arrived - taken < Size THEN arrived - taken ELSE Size IN
       /\ taken' = taken + n
       /\ printed' = Append(printed, Value(taken, n))
  /\ pc' = "scan"
  /\ UNCHANGED <<program, input, sent, arrived, closed, datagrams>>

ReadEnd ==
  /\ pc = "read" /\ program = "inf16_0" /\ arrived = taken /\ closed
  /\ pc' = "ended"
  /\ UNCHANGED <<program, input, sent, stream, datagrams, printed>>

\* The size of the address has no initial value: the sender's address is stored or
\* not.
recvfrom ==
  /\ pc = "read" /\ program = "inf22_0" /\ inbox # <<>>
  /\ printed' = Append(printed, Head(inbox)) /\ inbox' = Tail(inbox)
  /\ \/ peer' = IF Head(inbox) = Foreign THEN "foreigner" ELSE "server"
     \/ UNCHANGED peer
  /\ pc' = "scan"
  /\ UNCHANGED <<program, input, sent, stream, to, copies, foreign>>

Client == Scan \/ Write \/ sendto \/ Read \/ ReadEnd \/ recvfrom

-----------------------------------------------------------------------------
(***************************************************************************)
(* The server and the network.                                             *)
(***************************************************************************)
ArrivePart ==
  /\ program = "inf16_0" /\ ~closed /\ arrived < sent * Size
  /\ arrived' = arrived + 1
  /\ UNCHANGED <<program, input, pc, sent, taken, closed, datagrams, printed>>

Close ==
  /\ program = "inf16_0" /\ ~closed /\ closed' = TRUE
  /\ UNCHANGED <<program, input, pc, sent, arrived, taken, datagrams, printed>>

\* An answer that never arrives was lost.
Arrive(k) ==
  /\ program = "inf22_0" /\ to[k] = "server" /\ copies[k] < MaxCopies
  /\ copies' = [copies EXCEPT ![k] = @ + 1]
  /\ inbox' = Append(inbox, k)
  /\ UNCHANGED <<program, input, pc, sent, stream, to, peer, foreign, printed>>

ArriveForeign ==
  /\ program = "inf22_0" /\ sent > 0 /\ foreign < MaxForeign
  /\ foreign' = foreign + 1
  /\ inbox' = Append(inbox, Foreign)
  /\ UNCHANGED <<program, input, pc, sent, stream, to, peer, copies, printed>>

Next == Client \/ ArrivePart \/ Close \/ (\E k \in DOMAIN to : Arrive(k)) \/ ArriveForeign

\* The client runs; of the server and the network nothing is known.
Fairness == WF_vars(Client)

Spec == Init /\ [][Next]_vars /\ Fairness

-----------------------------------------------------------------------------
TypeOK ==
  /\ numbers \in 0 .. MaxNumbers /\ sent \in 0 .. MaxSent
  /\ pc \in {"scan", "write", "read", "ended", "killed"}
  /\ taken \in 0 .. arrived /\ arrived \in 0 .. sent * Size
  /\ peer \in {"server", "foreigner"} /\ Len(to) = Len(copies)
  /\ printed \in Seq({Mixed} \cup 0 .. sent)

\* A number printed is the answer to the number sent before it, unless a read of
\* the stream was too short, an earlier datagram was answered twice, or one came from
\* somebody else: nothing in an answer tells what it answers, so every later
\* number can be wrong too (inf16-0.c:47, inf22-0.c:36).
AnswersMatch ==
  \A k \in DOMAIN printed : printed[k] # k =>
    /\ printed[k] < k
    /\ \E j \in 1 .. k : \/ printed[j] \in {Mixed, Foreign}
                         \/ j < k /\ program = "inf22_0" /\ copies[j] > 1

\* Only somebody else's datagram can turn the client away from its server
\* (inf22-0.c:37).
StaysWithServer ==
  peer # "server" => \E k \in DOMAIN printed : printed[k] = Foreign

\* With a word in the input the client does not come to an end by itself; without
\* one it sends no number twice (inf16-0.c:42, inf22-0.c:31).
WordsAreNoEnd ==
  /\ word /\ pc = "ended" => closed
  /\ pc = "ended" /\ ~closed => numbers = 0 /\ Len(printed) = sent

Inv == TypeOK /\ AnswersMatch /\ StaysWithServer /\ WordsAreNoEnd

\* The client ends, or is sent a word, or waits for an answer that does not
\* come: it has no limit for that.
Ends ==
  \/ []<>(word \/ pc \in {"ended", "killed"})
  \/ <>[](pc = "read" /\ arrived = taken /\ inbox = <<>>)
=============================================================================
