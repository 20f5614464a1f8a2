---------------------------- MODULE StopPipeServers ----------------------------
(***************************************************************************)
(* inf16-1.c (and its copy inf16-1-1.c), inf16-2.c and inf17-1.c: servers  *)
(* around epoll_wait that are told to stop by SIGTERM, whose handler       *)
(* writes to a pipe the loop also waits for.  The first two serve one HTTP *)
(* request and return; the third echoes whatever its clients send, in      *)
(* upper case, until it is stopped.                                        *)
(***************************************************************************)
EXTENDS Naturals, Sequences, SequencesExt

CONSTANTS
  Clients,
  Slow,         \* those of them that may not read what they are sent
  Files,        \* what a request may name: "missing", "forbidden", "directory",
                \* "plain", "program" and "endless", or some of them
  MaxSignals    \* bound: number of SIGTERMs

VARIABLES
  program,   \* which server runs
  wants,     \* the file each client asks for
  pc,        \* where the server is
  events,    \* the rest of what epoll_wait has returned
  errno,
  signals,   \* number of SIGTERMs sent
  stopped,   \* the stop pipe is readable
  backlog,   \* the connections not accepted yet
  conn,      \* each connection as the server sees it
  arrived,   \* what each client has sent and the server has not read
  client,    \* "sending", "finished" (shut its side down) or "gone"
  sent,      \* how much each client has sent
  due,       \* what an HTTP server still has to write
  replies,   \* what the server has written to each client
  paused     \* history: the server found nothing to read from the client

server == <<pc, events, errno, stopped, backlog, conn, arrived, due, replies, paused>>
vars == <<program, wants, server, signals, client, sent>>

Http == {"inf16_1", "inf16_2"}
Echo == {"inf17_1"}

\* The parts of an HTTP request: its first line, and the rest.  Echoed data comes
\* in as many parts.
Parts == 2

Stop == "stop"            \* stop_fd
Listener == "listener"    \* socket_fd

-----------------------------------------------------------------------------
(***************************************************************************)
(* What may be written for a file, or happen instead of the next write.    *)
(* inf16-2.c runs an executable file, whose output takes the place of      *)
(* length and content, and waits for its end; a directory passes for       *)
(* executable, but cannot be run.  inf16-1.c reads a directory, and its    *)
(* size may be negative, which is undefined as the length of an array.     *)
(***************************************************************************)
Whole == <<"200", "length", "content">>

MayAnswer(file) ==
  LET runs == program = "inf16_2" IN
  CASE file = "missing"   -> {<<"404">>}
    [] file = "forbidden" -> {<<"403">>}
    [] file = "directory" ->
         IF runs THEN {<<"200">>}
         ELSE {<<"200", "length">>, Whole, <<"crash">>, <<"200", "crash">>}
    [] file = "plain"     -> {Whole}
    [] file = "program"   -> {IF runs THEN <<"200", "output">> ELSE Whole}
    [] OTHER              -> {IF runs THEN <<"200", "endless">> ELSE Whole}

\* Words that may find the client's buffers full.
Long == {"content", "output"}

Words == {"403", "404", "200", "length", "content", "output", "endless", "crash", "part",
          "piece"}

Init ==
  /\ program \in Http \cup Echo
  /\ wants \in [Clients -> Files]
  /\ program \in Echo => \A c, d \in Clients : wants[c] = wants[d]
  /\ pc = "wait" /\ events = <<>> /\ errno = "none"
  /\ signals = 0 /\ stopped = FALSE
  /\ backlog = <<>>
  /\ conn = [c \in Clients |-> "none"]
  /\ arrived = [c \in Clients |-> 0]
  /\ client = [c \in Clients |-> "sending"]
  /\ sent = [c \in Clients |-> 0]
  /\ due = <<>> /\ replies = [c \in Clients |-> <<>>]
  /\ paused = [c \in Clients |-> FALSE]

Running == pc \notin {"returned", "killed"}
Environment == UNCHANGED <<program, wants, signals, client, sent>>

\* Only the echo server registers its connections.
Readable(c) ==
  program \in Echo /\ conn[c] = "open" /\ (arrived[c] > 0 \/ client[c] # "sending")

Ready ==
  (IF stopped THEN {Stop} ELSE {})
  \cup (IF backlog # <<>> THEN {Listener} ELSE {})
  \cup {c \in Clients : Readable(c)}

\* epoll_wait, in any order; at most one event in the HTTP servers.  Its timeout
\* and its failure only lead back to it.
Poll ==
  /\ pc = "wait" /\ Ready # {}
  /\ IF program \in Http THEN \E e \in Ready : events' = <<e>>
                         ELSE events' \in SetToSeqs(Ready)
  /\ pc' = "event"
  /\ UNCHANGED <<errno, stopped, backlog, conn, arrived, due, replies, paused>>
  /\ Environment

EndOfEvents ==
  /\ pc = "event" /\ events = <<>>
  /\ pc' = "wait"
  /\ UNCHANGED <<events, errno, stopped, backlog, conn, arrived, due, replies, paused>>
  /\ Environment

NextIs(e) == pc = "event" /\ events # <<>> /\ Head(events) = e

Return ==
  /\ pc' = "returned" /\ events' = <<>>
  /\ conn' = [c \in Clients |-> IF conn[c] = "open" THEN "closed" ELSE conn[c]]

HandleStopHttp ==
  /\ program \in Http /\ NextIs(Stop)
  /\ Return
  /\ UNCHANGED <<errno, stopped, backlog, arrived, due, replies, paused>> /\ Environment

\* Mutant: deaf to the event after any failed call.
HandleStopAnyErrno ==
  /\ program \in Echo /\ NextIs(Stop)
  /\ IF errno # "none"
     THEN events' = Tail(events) /\ UNCHANGED <<pc, conn>>
     ELSE Return
  /\ UNCHANGED <<errno, stopped, backlog, arrived, due, replies, paused>> /\ Environment

\* inf17-1.c ignores the event as long as errno is EAGAIN.
HandleStopEcho ==
  /\ program \in Echo /\ NextIs(Stop)
  /\ IF errno = "EAGAIN"
     THEN events' = Tail(events) /\ UNCHANGED <<pc, conn>>
     ELSE Return
  /\ UNCHANGED <<errno, stopped, backlog, arrived, due, replies, paused>> /\ Environment

Accept ==
  /\ NextIs(Listener)
  /\ backlog' = Tail(backlog)
  /\ conn' = [conn EXCEPT ![Head(backlog)] = "open"]
  /\ IF program \in Http
     THEN pc' = "request" /\ events' = <<Head(backlog)>>
     ELSE events' = Tail(events) /\ UNCHANGED pc
  /\ UNCHANGED <<errno, stopped, arrived, due, replies, paused>> /\ Environment

\* The client that is served writes or reads no more: a write of the server itself
\* may end it with SIGPIPE.
BrokenPipe ==
  /\ events # <<>> /\ Head(events) \in Clients /\ client[Head(events)] = "gone"
  /\ \/ pc \in {"answer", "blocked"} /\ due # <<>> /\ Head(due) \notin {"output", "endless"}
     \/ pc = "echo" /\ arrived[Head(events)] > 0
  /\ pc' = "killed" /\ events' = <<>>
  /\ UNCHANGED <<errno, stopped, backlog, conn, arrived, due, replies, paused>>
  /\ Environment

-----------------------------------------------------------------------------
(***************************************************************************)
(* read_and_write of inf17-1.c: read and write until a read returns        *)
(* nothing, then close the connection.                                     *)
(***************************************************************************)
HandleClient(c) ==
  /\ NextIs(c)
  /\ pc' = "echo"
  /\ UNCHANGED <<events, errno, stopped, backlog, conn, arrived, due, replies, paused>>
  /\ Environment

\* The socket does not block, and nobody looks at what write returns: of what a
\* slow client is sent a piece may be missing, or all.
EchoPart(c) ==
  /\ pc = "echo" /\ Head(events) = c
  /\ arrived[c] > 0
  /\ arrived' = [arrived EXCEPT ![c] = @ - 1]
  /\ \/ /\ client[c] # "gone"
        /\ \E w \in IF c \in Slow THEN {"part", "piece"} ELSE {"part"} :
             replies' = [replies EXCEPT ![c] = Append(@, w)]
        /\ UNCHANGED errno
     \/ client[c] # "gone" /\ c \in Slow /\ errno' = "EAGAIN" /\ UNCHANGED replies
     \/ client[c] = "gone" /\ errno' \in {errno, "other"} /\ UNCHANGED replies
  /\ UNCHANGED <<pc, events, stopped, backlog, conn, due, paused>> /\ Environment

\* Mutant: goes on reading from the connection it has closed.
EchoEndGoesOn(c) ==
  /\ pc = "echo" /\ Head(events) = c
  /\ arrived[c] = 0
  /\ errno' = IF client[c] = "sending" THEN "EAGAIN" ELSE errno
  /\ paused' = [paused EXCEPT ![c] = client[c] = "sending"]
  /\ conn' = [conn EXCEPT ![c] = "closed"]
  /\ UNCHANGED <<pc, events, stopped, backlog, arrived, due, replies>> /\ Environment

\* read returns 0, or -1: for a client that is gone with another error, and for
\* one that pauses with EAGAIN.
EchoEnd(c) ==
  /\ pc = "echo" /\ Head(events) = c
  /\ arrived[c] = 0
  /\ CASE client[c] = "sending"  -> errno' = "EAGAIN"
       [] client[c] = "finished" -> errno' = errno
       [] client[c] = "gone"     -> errno' \in {errno, "other"}
  /\ paused' = [paused EXCEPT ![c] = client[c] = "sending"]
  /\ conn' = [conn EXCEPT ![c] = "closed"]
  /\ pc' = "event" /\ events' = Tail(events)
  /\ UNCHANGED <<stopped, backlog, arrived, due, replies>> /\ Environment

-----------------------------------------------------------------------------
(***************************************************************************)
(* read_and_write of the HTTP servers, with blocking calls.  fscanf leaves *)
(* the end of the first line for fgets, which takes it for the empty line  *)
(* at the end of the request.                                              *)
(***************************************************************************)
Taken(c) == sent[c] - arrived[c]

\* Without a first line the name is uninitialised memory, and any file may be
\* meant.
ReadRequest(c) ==
  /\ pc = "request" /\ Head(events) = c
  /\ arrived[c] > 0 \/ client[c] # "sending"
  /\ arrived' = [arrived EXCEPT ![c] = 0]
  /\ \E file \in IF arrived[c] = 0 THEN Files ELSE {wants[c]} : due' \in MayAnswer(file)
  /\ pc' = "answer"
  /\ UNCHANGED <<events, errno, stopped, backlog, conn, replies, paused>>
  /\ Environment

Written(c, word) ==
  replies' = IF client[c] = "gone" THEN replies ELSE [replies EXCEPT ![c] = Append(@, word)]

\* A program writes its output itself, and the server waits for it, for an
\* endless one for ever.
WriteAnswer(c) ==
  /\ pc = "answer" \/ (pc = "blocked" /\ client[c] = "gone")
  /\ Head(events) = c
  /\ due # <<>> /\ Head(due) \notin {"endless", "crash"}
  /\ Written(c, Head(due)) /\ due' = Tail(due)
  /\ pc' = "answer"
  /\ UNCHANGED <<events, errno, stopped, backlog, conn, arrived, paused>> /\ Environment

WriteBlocks(c) ==
  /\ pc = "answer" /\ Head(events) = c /\ c \in Slow /\ client[c] # "gone"
  /\ due # <<>> /\ Head(due) \in Long
  /\ pc' = "blocked"
  /\ UNCHANGED <<events, errno, stopped, backlog, conn, arrived, due, replies, paused>>
  /\ Environment

Crash ==
  /\ pc = "answer" /\ due # <<>> /\ Head(due) = "crash"
  /\ pc' = "killed" /\ events' = <<>>
  /\ UNCHANGED <<errno, stopped, backlog, conn, arrived, due, replies, paused>>
  /\ Environment

Answered ==
  /\ pc = "answer" /\ due = <<>>
  /\ Return
  /\ UNCHANGED <<errno, stopped, backlog, arrived, due, replies, paused>> /\ Environment

Server ==
  \/ Poll \/ EndOfEvents \/ HandleStopHttp \/ HandleStopEcho \/ Accept \/ BrokenPipe
  \/ Crash \/ Answered
  \/ \E c \in Clients : \/ HandleClient(c) \/ EchoPart(c) \/ EchoEnd(c)
                        \/ ReadRequest(c) \/ WriteAnswer(c) \/ WriteBlocks(c)

-----------------------------------------------------------------------------
(***************************************************************************)
(* The clients, and the signal.                                            *)
(***************************************************************************)
Elsewhere == UNCHANGED <<pc, due, replies>>
Outside == UNCHANGED <<program, wants, events, paused>>

Connect(c) ==
  /\ Running /\ conn[c] = "none"
  /\ conn' = [conn EXCEPT ![c] = "queued"]
  /\ backlog' = Append(backlog, c)
  /\ UNCHANGED <<errno, signals, stopped, arrived, client, sent>> /\ Elsewhere /\ Outside

Send(c) ==
  /\ conn[c] \in {"queued", "open"} /\ client[c] = "sending" /\ sent[c] < Parts
  /\ sent' = [sent EXCEPT ![c] = @ + 1]
  /\ arrived' = [arrived EXCEPT ![c] = @ + 1]
  /\ UNCHANGED <<errno, signals, stopped, backlog, conn, client>> /\ Elsewhere /\ Outside

Leave(c) ==
  /\ conn[c] \in {"queued", "open"} /\ client[c] = "sending"
  /\ \E how \in {"finished", "gone"} : client' = [client EXCEPT ![c] = how]
  /\ UNCHANGED <<errno, signals, stopped, backlog, conn, arrived, sent>> /\ Elsewhere /\ Outside

\* A slow client reads, and the write it has kept waiting is done.
ReadOn(c) ==
  /\ pc = "blocked" /\ Head(events) = c /\ client[c] # "gone"
  /\ Written(c, Head(due)) /\ due' = Tail(due)
  /\ pc' = "answer"
  /\ UNCHANGED <<errno, signals, stopped, backlog, conn, arrived, client, sent>> /\ Outside

\* A write that waits may end with a piece when the signal comes.
CutShort ==
  /\ pc = "blocked" /\ Head(due) = "content"
  /\ Written(Head(events), "piece") /\ due' = Tail(due)
  /\ pc' = "answer"

\* stop_signal_handler.  A signal that finds the server inside epoll_wait, with
\* nothing ready, makes it fail with EINTR.
Signal ==
  /\ Running /\ signals < MaxSignals
  /\ signals' = signals + 1
  /\ stopped' = TRUE
  /\ \/ UNCHANGED errno /\ Elsewhere
     \/ pc = "wait" /\ Ready = {} /\ errno' = "EINTR" /\ Elsewhere
     \/ CutShort /\ UNCHANGED errno
  /\ UNCHANGED <<backlog, conn, arrived, client, sent>> /\ Outside

Finished == ~Running /\ UNCHANGED vars

Next ==
  \/ Server \/ Signal \/ Finished
  \/ \E c \in Clients : Connect(c) \/ Send(c) \/ Leave(c) \/ ReadOn(c)

\* The server is scheduled; nothing is assumed of its clients or of the signal.
Fairness == WF_vars(Server)

Spec == Init /\ [][Next]_vars /\ Fairness

-----------------------------------------------------------------------------
TypeOK ==
  /\ program \in Http \cup Echo /\ wants \in [Clients -> Files]
  /\ pc \in {"wait", "event", "echo", "request", "answer", "blocked", "returned", "killed"}
  /\ events \in Seq({Stop, Listener} \cup Clients)
  /\ errno \in {"none", "EAGAIN", "EINTR", "other"}
  /\ signals \in 0 .. MaxSignals /\ stopped \in BOOLEAN
  /\ backlog \in Seq(Clients)
  /\ conn \in [Clients -> {"none", "queued", "open", "closed"}]
  /\ arrived \in [Clients -> 0 .. Parts] /\ sent \in [Clients -> 0 .. Parts]
  /\ client \in [Clients -> {"sending", "finished", "gone"}]
  /\ due \in Seq(Words) /\ replies \in [Clients -> Seq(Words)]
  /\ paused \in [Clients -> BOOLEAN]

\* Events collected before others were handled are still true when their turn
\* comes: no connection among them has been closed (and its number given to a
\* new one), none is there twice, and accept finds a connection.
EventsAreCurrent ==
  /\ \A j, k \in DOMAIN events : events[j] = events[k] => j = k
  /\ \A k \in DOMAIN events :
       /\ events[k] = Stop => stopped
       /\ events[k] = Listener => backlog # <<>>
       /\ events[k] \in Clients => conn[events[k]] = "open"

\* What a client may get for a file: a signal may leave the content short.
MayGet(file) ==
  MayAnswer(file) \cup
    {[a EXCEPT ![Len(a)] = "piece"] :
       a \in {b \in MayAnswer(file) : stopped /\ Last(b) = "content"}}

\* An HTTP server answers one client at most, with what the file it has named
\* calls for, to the end if the server returns and the client has not gone; and it
\* returns without a signal only after that.  The echo server returns for a signal
\* only, and a client that reads gets back everything that was read from it; as
\* long as the server runs, a client loses no more of what it has sent than what
\* came after a pause.
Answers ==
  /\ program \in Http =>
       /\ \A c, d \in Clients : replies[c] # <<>> /\ replies[d] # <<>> => c = d
       /\ \A c \in Clients :
            replies[c] # <<>> /\ Taken(c) > 0 =>
              \E a \in MayGet(wants[c]) :
                /\ IsPrefix(replies[c], a)
                /\ pc = "returned" /\ client[c] # "gone" => replies[c] = a
       /\ pc = "returned" /\ ~stopped =>
            \E c \in Clients : replies[c] # <<>> \/ client[c] = "gone"
  /\ program \in Echo =>
       /\ pc = "returned" => stopped
       /\ \A c \in Clients :
            /\ Len(replies[c]) <= Taken(c)
            /\ client[c] # "gone" /\ c \notin Slow => replies[c] = [k \in 1 .. Taken(c) |-> "part"]
            /\ Running /\ conn[c] = "closed" /\ ~paused[c] => arrived[c] = 0

\* The types, no stale event, and every answer as due.
Inv == TypeOK /\ EventsAreCurrent /\ Answers

\* The echo server can go deaf: an EAGAIN from reading or writing a connection
\* stays in errno until another call fails.
Deaf == program \in Echo /\ errno = "EAGAIN"

\* The HTTP servers can be kept waiting: by a client that sends nothing, or does
\* not read, and by a program that does not end.
KeptWaiting ==
  program \in Http /\ \/ pc \in {"request", "blocked"}
                      \/ pc = "answer" /\ due # <<>> /\ Head(due) = "endless"

\* Every server stops after a signal, whenever it comes: one that goes on running
\* for ever is deaf, or kept waiting, from some time on.
StopIsHeard == <>[](stopped /\ Running) => <>[](Deaf \/ KeptWaiting)

\* A client of the echo server that sends something is served in the end, also
\* by a deaf one: the connection of a silent client does not keep others waiting.
\* An HTTP server does not wait for more than the first line of a request.
Unserved(c) ==
  \/ program \in Echo /\ sent[c] > 0 /\ conn[c] # "closed" /\ Running
  \/ pc = "request" /\ Head(events) = c /\ sent[c] > 0

\* Nobody stays unserved for ever.
EveryoneIsServed == \A c \in Clients : []<>~Unserved(c)
=============================================================================
