------------------------------- MODULE PingPong -------------------------------
(***************************************************************************)
(* inf18-2.c: two threads send a number to and fro over a pair of sockets; *)
(* the first takes 3 from it, the second adds 5.                           *)
(***************************************************************************)
EXTENDS Integers, Sequences, SequencesExt

CONSTANT Starts   \* bound: the numbers it is started with

VARIABLES
  start_num,
  created,   \* main: threads created, and threads joined
  joined,
  pc,        \* each thread: "first", "read" or "done"
  sent,      \* what waits to be read by each thread
  printed

vars == <<start_num, created, joined, pc, sent, printed>>

Positions == {1, 2}
DECREASE == -3
INCREASE == 5
mode == <<DECREASE, INCREASE>>
Stop == 101

Other(t) == 3 - t
Over(n) == n > 100 \/ n = 0

Init ==
  /\ start_num \in Starts /\ created = 0 /\ joined = 0
  /\ pc = <<"first", "read">> /\ sent = <<<<>>, <<>>>> /\ printed = <<>>

Runs(t, at) == t <= created /\ pc[t] = at /\ UNCHANGED <<start_num, created, joined>>

\* The thread at position 1 begins, and does not look at what it has sent.
First ==
  /\ Runs(1, "first")
  /\ printed' = <<start_num + mode[1]>>
  /\ sent' = [sent EXCEPT ![2] = <<start_num + mode[1]>>]
  /\ pc' = [pc EXCEPT ![1] = "read"]

Read(t) ==
  /\ Runs(t, "read") /\ sent[t] # <<>>
  /\ LET n == Head(sent[t]) + mode[t] IN
       IF Over(Head(sent[t]))
       THEN /\ sent' = [sent EXCEPT ![t] = Tail(@), ![Other(t)] = Append(@, Stop)]
            /\ pc' = [pc EXCEPT ![t] = "done"] /\ UNCHANGED printed
       ELSE /\ sent' = [sent EXCEPT ![t] = Tail(@), ![Other(t)] = Append(@, n)]
            /\ printed' = Append(printed, n)
            /\ pc' = [pc EXCEPT ![t] = IF Over(n) THEN "done" ELSE "read"]

Create ==
  /\ created < 2 /\ created' = created + 1
  /\ UNCHANGED <<start_num, joined, pc, sent, printed>>

Join ==
  /\ created = 2 /\ joined < 2 /\ pc[joined + 1] = "done" /\ joined' = joined + 1
  /\ UNCHANGED <<start_num, created, pc, sent, printed>>

Next == Create \/ Join \/ First \/ \E t \in Positions : Read(t)

Fairness == WF_vars(Next)

Spec == Init /\ [][Next]_vars /\ Fairness

-----------------------------------------------------------------------------
TypeOK ==
  /\ created \in 0 .. 2 /\ joined \in 0 .. created
  /\ pc \in Seq({"first", "read", "done"}) /\ printed \in Seq(Int)

\* The numbers alternate from the start to the first one that ends the game,
\* which is 0, passed on the way up from below, or above 100.
Inv ==
  /\ TypeOK
  /\ \A j \in DOMAIN printed :
       /\ printed[j] = (IF j = 1 THEN start_num ELSE printed[j - 1]) + mode[2 - (j % 2)]
       /\ j < Len(printed) => ~Over(printed[j])

\* Both threads end, whoever sees the last number first, and main joins them.
Ends == <>(joined = 2 /\ Over(Last(printed)))
=============================================================================
