------------------------------- MODULE MCServers -------------------------------
(***************************************************************************)
(* The programs with sockets and epoll, for TLC: a behaviour is one of     *)
(* StopPipeServers, ChatServer, ByteCounter or NumberClients, while the    *)
(* variables of the others stand still where nothing is left to do.        *)
(***************************************************************************)
EXTENDS Naturals, Sequences, FiniteSets

CONSTANTS
  Callers, SlowCallers, Files, MaxSignals,   \* of StopPipeServers
  PlainCallers,                 \* those that ask for a plain file
  MaxSaid,                      \* of ChatServer
  Size, MaxNumbers, MaxSent, MaxCopies, MaxStrangers   \* of NumberClients

ASSUME ServersAssumption ==
  /\ IsFiniteSet(Callers) /\ PlainCallers \subseteq Callers /\ SlowCallers \subseteq Callers
  /\ Callers \cap {"stop", "listener"} = {}
  /\ MaxSignals \in Nat
  /\ Size \in Nat \ {0} /\ MaxNumbers \in Nat /\ MaxSent \in Nat
  /\ MaxCopies \in Nat /\ MaxStrangers \in Nat

VARIABLES
  chosen,
  pipeServer, wants, doing, events, errno, signals, stopped, backlog, conn, arrived, client,
  sent, due, replies, paused,
  alive, reported, edges, calls, clients_list, message, todo, peer, unread, idle, delivered,
  said, since, count, crowded, flooded,
  phase, regular, registered, news, current, still_opened, all_readen_bytes, written,
  left, writer,
  numberClient, numbers, word, state, asked, parts, taken, closed, to, address, copies,
  strangers, packets, printed

pipeVars == <<pipeServer, wants, doing, events, errno, signals, stopped, backlog, conn,
              arrived, client, sent, due, replies, paused>>
chatVars == <<alive, reported, edges, calls, clients_list, message, todo, peer, unread,
              idle, delivered, said, since, count, crowded, flooded>>
countVars == <<phase, regular, registered, news, current, still_opened,
               all_readen_bytes, written, left, writer>>
numberVars == <<numberClient, numbers, word, state, asked, parts, taken, closed, to,
                address, copies, strangers, packets, printed>>
allVars == <<chosen, pipeVars, chatVars, countVars, numberVars>>

S == INSTANCE StopPipeServers WITH
       Clients <- Callers, Slow <- SlowCallers, program <- pipeServer, pc <- doing

C == INSTANCE ChatServer WITH
       Clients <- {1, 2, 3}, BufSize <- 2, Room <- 2, Idlers <- {2}, Leavers <- {1},
       MaxSaid <- MaxSaid, events <- reported, backlog <- calls, got <- delivered

B == INSTANCE ByteCounter WITH
       Pipes <- {"a", "b"}, BufSize <- 2, MaxWritten <- 3,
       pc <- phase, edges <- news, unread <- left

N == INSTANCE NumberClients WITH
       MaxForeign <- MaxStrangers,
       program <- numberClient, pc <- state, sent <- asked, arrived <- parts,
       peer <- address, foreign <- strangers, inbox <- packets

PipesAtRest == S!Init /\ pipeServer = "inf16_1" /\ \A c \in Callers : wants[c] = "plain"

ChatAtRest == C!Init /\ idle = {}

CountingOver ==
  /\ phase = "returned" /\ regular = {} /\ registered = {"a", "b"} /\ news = {}
  /\ current = B!Nobody /\ still_opened = 0 /\ all_readen_bytes = 0
  /\ written = [p \in {"a", "b"} |-> 0] /\ left = written
  /\ writer = [p \in {"a", "b"} |-> "closed"]

NumbersOver ==
  /\ numberClient = "inf22_0" /\ numbers = 0 /\ word = FALSE /\ state = "ended" /\ asked = 0
  /\ parts = 0 /\ taken = 0 /\ closed = FALSE
  /\ to = <<>> /\ address = "server" /\ copies = <<>> /\ strangers = 0
  /\ packets = <<>>
  /\ printed = <<>>

\* The other clients ask for any file.
Asking == \A c \in PlainCallers : wants[c] = "plain"

AllInit ==
  \/ /\ chosen = "StopPipeServers"
     /\ S!Init /\ Asking /\ ChatAtRest /\ CountingOver /\ NumbersOver
  \/ chosen = "ChatServer" /\ PipesAtRest /\ C!Init /\ CountingOver /\ NumbersOver
  \/ chosen = "ByteCounter" /\ PipesAtRest /\ ChatAtRest /\ B!Init /\ NumbersOver
  \/ chosen = "NumberClients" /\ PipesAtRest /\ ChatAtRest /\ CountingOver /\ N!Init

AllNext ==
  /\ UNCHANGED chosen
  /\ \/ /\ chosen = "StopPipeServers" /\ S!Next
        /\ UNCHANGED <<chatVars, countVars, numberVars>>
     \/ chosen = "ChatServer" /\ C!Next /\ UNCHANGED <<pipeVars, countVars, numberVars>>
     \/ chosen = "ByteCounter" /\ B!Next /\ UNCHANGED <<pipeVars, chatVars, numberVars>>
     \/ chosen = "NumberClients" /\ N!Next /\ UNCHANGED <<pipeVars, chatVars, countVars>>

AllSpec ==
  AllInit /\ [][AllNext]_allVars /\ S!Fairness /\ C!Fairness /\ B!Fairness /\ N!Fairness

\* inf16-1.c, inf16-2.c, inf17-1.c: no stale event, and every answer as due;
\* inf16-0.c, inf22-0.c: a printed number is the answer to the one sent before it.
AnswersAreRight == S!Inv /\ N!Inv

\* inf16-1.c, inf16-2.c, inf17-1.c: a signal stops the server, and whoever sends
\* something to inf17-1.c is served.
EveryoneIsServed == S!StopIsHeard /\ S!EveryoneIsServed

\* serv_base.c: who is in the room hears everything, in order and once, and no
\* connection, message or end is left waiting; inf16-0.c, inf22-0.c: the client comes
\* to its end, unless a word is typed or an answer stays away.
NobodyIsForgotten == []C!Inv /\ C!NobodyIsForgotten /\ N!Ends

\* inf17-0.c: every byte is counted once, and the result comes.
EveryByteCounts == B!EveryByteCounts /\ []B!Inv
=============================================================================
