------------------------------ MODULE ChatServer ------------------------------
(***************************************************************************)
(* serv_base.c: a chat server over edge-triggered epoll.  A descriptor is  *)
(* reported once for whatever has arrived since it was last reported, and  *)
(* the server makes one accept or one recv for it.  CHK and CHK2, macros   *)
(* of a header that is not in the repository, end the program when a call  *)
(* fails.                                                                  *)
(***************************************************************************)
EXTENDS Naturals, Sequences, SequencesExt

CONSTANTS
  Clients,    \* positive numbers: they connect in this order
  BufSize,    \* what one recv takes of what a client says, in messages
  Idlers,     \* the clients that may never read
  Leavers,    \* the clients that may leave
  Room,       \* messages that fit into the socket of a client that does not read
  MaxSaid     \* bound: messages sent by all clients

VARIABLES
  alive,         \* the server is
  events,        \* the rest of what epoll_wait has returned
  edges,         \* descriptors something has happened to since
  backlog,       \* connections not accepted yet
  clients_list,
  message, todo, \* what is being sent around, and to whom it still has to be
  peer,          \* each client: "away", "here" or "left"
  unread,        \* how many messages of each client have not been received
  idle,          \* the clients that never read
  got,           \* what was sent to each client
  said,          \* history: what was sent around
  since,         \* history: how much had been when each client was accepted
  count,         \* number of messages sent by clients
  crowded, flooded   \* history: see Connect, Say and Leave

server == <<alive, events, clients_list, message, todo, said, since>>
clients == <<peer, idle, count, crowded, flooded>>
vars == <<server, clients, edges, backlog, unread, got>>

Listener == 0

\* What the server says itself: the welcome, or that nobody else is there.
Notice(n) == [by |-> Listener, parts |-> n, whole |-> TRUE]

Init ==
  /\ alive = TRUE /\ events = <<>> /\ edges = {} /\ backlog = <<>>
  /\ clients_list = <<>> /\ message = Notice(0) /\ todo = <<>>
  /\ peer = [c \in Clients |-> "away"] /\ unread = [c \in Clients |-> 0]
  /\ got = [c \in Clients |-> <<>>] /\ idle \in SUBSET Idlers
  /\ said = <<>> /\ since = [c \in Clients |-> 0] /\ count = 0
  /\ crowded = FALSE /\ flooded = FALSE

Member(c) == c \in ToSet(clients_list)

Readable(e) ==
  IF e = Listener THEN backlog # <<>> ELSE unread[e] > 0 \/ peer[e] = "left"

-----------------------------------------------------------------------------
Ready == alive /\ todo = <<>>
NextIs(e) == Ready /\ events # <<>> /\ Head(events) = e

\* epoll_wait: what is no longer readable is not reported.
Poll ==
  /\ Ready /\ events = <<>>
  /\ LET ready == {e \in edges : Readable(e)} IN
       ready # {} /\ events' \in SetToSeqs(ready)
  /\ edges' = {}
  /\ UNCHANGED <<alive, clients_list, message, todo, said, since, clients, backlog,
                 unread, got>>

Full(c) == c \in idle /\ Len(got[c]) >= Room

\* send on a nonblocking socket: it fails when the socket is full, and it may,
\* by an error or SIGPIPE, when the peer has left.  When only a part fits, it
\* sends the part, which is no failure.
Send(c, m) ==
  \/ /\ peer[c] = "left" \/ Full(c)
     /\ alive' = FALSE /\ UNCHANGED got
  \/ /\ peer[c] = "left"
     /\ UNCHANGED <<alive, got>>
  \/ /\ peer[c] # "left" /\ ~Full(c)
     /\ UNCHANGED alive /\ got' = [got EXCEPT ![c] = Append(@, m)]
  \/ /\ peer[c] # "left" /\ Full(c) /\ Len(got[c]) = Room
     /\ UNCHANGED alive
     /\ got' = [got EXCEPT ![c] = Append(@, [m EXCEPT !.whole = FALSE])]

\* Mutant: the loop goes back to epoll_wait after an accept.
AcceptDropsRest ==
  /\ NextIs(Listener) /\ events' = <<>>
  /\ LET c == Head(backlog) IN
       /\ backlog' = Tail(backlog)
       /\ clients_list' = Append(clients_list, c)
       /\ since' = [since EXCEPT ![c] = Len(said)]
       /\ edges' = IF Readable(c) THEN edges \cup {c} ELSE edges
       /\ Send(c, Notice(0))
  /\ UNCHANGED <<message, todo, said, clients, unread>>

\* accept, EPOLL_CTL_ADD (which notices what has already come), the welcome.
Accept ==
  /\ NextIs(Listener) /\ events' = Tail(events)
  /\ LET c == Head(backlog) IN
       /\ backlog' = Tail(backlog)
       /\ clients_list' = Append(clients_list, c)
       /\ since' = [since EXCEPT ![c] = Len(said)]
       /\ edges' = IF Readable(c) THEN edges \cup {c} ELSE edges
       /\ Send(c, Notice(0))
  /\ UNCHANGED <<message, todo, said, clients, unread>>

\* recv: data first, then the end; after an answer to a peer that had left it
\* fails.
ReceiveEnd(c) ==
  /\ NextIs(c) /\ events' = Tail(events) /\ peer[c] = "left"
  /\ \/ unread[c] = 0 /\ clients_list' = SelectSeq(clients_list, LAMBDA d : d # c)
        /\ UNCHANGED alive
     \/ alive' = FALSE /\ UNCHANGED clients_list
  /\ UNCHANGED <<message, todo, said, since, clients, edges, backlog, unread, got>>

Received(c) == IF unread[c] < BufSize THEN unread[c] ELSE BufSize

ReceiveAlone(c) ==
  /\ NextIs(c) /\ events' = Tail(events) /\ unread[c] > 0
  /\ Len(clients_list) = 1
  /\ unread' = [unread EXCEPT ![c] = @ - Received(c)]
  /\ Send(c, Notice(Received(c)))
  /\ UNCHANGED <<clients_list, message, todo, said, since, clients, edges, backlog>>

Receive(c) ==
  /\ NextIs(c) /\ events' = Tail(events) /\ unread[c] > 0
  /\ Len(clients_list) > 1
  /\ unread' = [unread EXCEPT ![c] = @ - Received(c)]
  /\ message' = [by |-> c, parts |-> Received(c), whole |-> TRUE]
  /\ said' = Append(said, message')
  /\ todo' = SelectSeq(clients_list, LAMBDA d : d # c)
  /\ UNCHANGED <<alive, clients_list, since, clients, edges, backlog, got>>

\* Behind a prefix, what fills buf does not fit into message, and has no end:
\* sprintf writes past it, and the server may die of that or go on.
Overruns(m) == m.by \in Clients /\ m.parts = BufSize

\* One turn of the loop over clients_list.
SendNext ==
  /\ alive /\ todo # <<>>
  /\ todo' = Tail(todo)
  /\ \/ Send(Head(todo), message)
     \/ Overruns(message) /\ alive' = FALSE /\ UNCHANGED got
  /\ UNCHANGED <<events, clients_list, message, said, since, clients, edges, backlog,
                 unread>>

Server ==
  \/ Poll \/ Accept \/ SendNext
  \/ \E c \in Clients : ReceiveEnd(c) \/ ReceiveAlone(c) \/ Receive(c)

-----------------------------------------------------------------------------
\* listen (listener, 1) lets two connections wait; crowded: two have.
Connect(c) ==
  /\ peer[c] = "away" /\ peer' = [peer EXCEPT ![c] = "here"]
  /\ \A d \in Clients : d < c => peer[d] # "away"
  /\ Len(backlog) < 2 /\ backlog' = Append(backlog, c)
  /\ edges' = edges \cup {Listener}
  /\ crowded' = (crowded \/ backlog # <<>>)
  /\ UNCHANGED <<server, idle, count, flooded, unread, got>>

Noticed(c) == edges' = IF Member(c) THEN edges \cup {c} ELSE edges

\* flooded: more than one recv takes was waiting.
Say(c) ==
  /\ peer[c] = "here" /\ count < MaxSaid /\ count' = count + 1
  /\ unread' = [unread EXCEPT ![c] = @ + 1]
  /\ flooded' = (flooded \/ unread[c] = BufSize)
  /\ Noticed(c)
  /\ UNCHANGED <<server, idle, peer, crowded, backlog, got>>

\* flooded as well: a client left before all it had said was received.
Leave(c) ==
  /\ c \in Leavers /\ peer[c] = "here" /\ peer' = [peer EXCEPT ![c] = "left"]
  /\ flooded' = (flooded \/ unread[c] > 0)
  /\ Noticed(c)
  /\ UNCHANGED <<server, idle, count, crowded, backlog, unread, got>>

Next == Server \/ (alive /\ \E c \in Clients : Connect(c) \/ Say(c) \/ Leave(c))

\* The server is scheduled; a client does what it likes.
Fairness == WF_vars(Server)

Spec == Init /\ [][Next]_vars /\ Fairness

-----------------------------------------------------------------------------
TypeOK ==
  /\ alive \in BOOLEAN
  /\ edges \subseteq Clients \cup {Listener}
  /\ \A c \in Clients : peer[c] \in {"away", "here", "left"}
  /\ \A q \in {backlog, clients_list, todo} : ToSet(q) \subseteq Clients

\* Whoever has been accepted gets everything that was said since by others, in
\* order and once, and nothing of its own.  Only the last of it can be cut short,
\* for a client that does not read: nothing comes behind a part.
RoomHears ==
  alive => \A c \in Clients :
    Member(c) /\ peer[c] = "here" =>
      LET others == SelectSeq(SubSeq(said, since[c] + 1, Len(said)), LAMBDA m : m.by # c)
          heard == SelectSeq(got[c], LAMBDA m : m.by \in Clients)
          whole == [k \in DOMAIN heard |-> [heard[k] EXCEPT !.whole = TRUE]]
      IN /\ whole \o (IF c \in ToSet(todo) THEN <<message>> ELSE <<>>) = others
         /\ \A k \in DOMAIN got[c] : ~got[c][k].whole => k = Len(got[c]) /\ c \in idle

\* One client that leaves, or does not read, can end the server for all of
\* them, and so can one that fills the buffer; nothing else does
\* (serv_base.c:220, 228).
DiesForCause ==
  ~alive => \/ \E c \in Clients : peer[c] = "left" \/ Full(c)
            \/ \E k \in DOMAIN said : Overruns(said[k])

\* The types, and what every client gets.
Inv == TypeOK /\ RoomHears /\ DiesForCause

\* A client that waits to be accepted, has said something that has not been
\* received, or has left and is still in the list; but not if more came together
\* than the server takes for one event: a second connection, more data than the
\* buffer holds, or the end of a client right behind its data
\* (serv_base.c:136, 197).
Forgotten(c) ==
  alive /\ \/ c \in ToSet(backlog) /\ ~crowded
           \/ Member(c) /\ (unread[c] > 0 \/ peer[c] = "left") /\ ~flooded

\* Nobody stays forgotten for ever.
NobodyIsForgotten == \A c \in Clients : []<>~Forgotten(c)
=============================================================================
