------------------------------ MODULE SharedCall ------------------------------
(***************************************************************************)
(* inf21-1.c and its client inf21-1-tester.c: a server that evaluates      *)
(* functions of a library for another process.  Both map one segment with  *)
(* two semaphores, a function name, an argument and a result; the empty    *)
(* name stops the server.  The segment outlives both, so later sessions    *)
(* find what earlier ones left in it.                                      *)
(***************************************************************************)
EXTENDS Naturals, Sequences

CONSTANTS
  Work,        \* what a client may be asked: sequences of [name, value]
  Library,     \* the names dlsym finds
  Sessions     \* bound: number of sessions

ASSUME SessionsAssumption == Sessions \in Nat \ {0}

\* The empty name stops the server; no word that scanf reads is empty.
Empty == ""
Request == [name : STRING \ {Empty}, value : Nat]
ASSUME WorkAssumption == Work \subseteq Seq(Request)

VARIABLES
  exists,      \* the segment has been created
  request_ready, response_ready,
  func_name, value, result,
  server,      \* where the server is
  client,      \* where the client is
  todo,        \* the client's remaining input
  session,
  answers,     \* history: the results the clients have printed
  early,       \* history: the client has not waited for the server's line
  erased       \* history: a sem_init has erased a post in this session

segment == <<exists, request_ready, response_ready, func_name, value, result>>
callVars == <<segment, server, client, todo, session, answers, early, erased>>

\* What a fresh segment holds.
NoCall == [name |-> Empty, value |-> 0]

\* The value of a function of the library.
Apply(call) == <<call.name, call.value>>

CallInit ==
  /\ exists = FALSE
  /\ request_ready = 0 /\ response_ready = 0
  /\ func_name = Empty /\ value = 0 /\ result = Apply(NoCall)
  /\ server = "open" /\ client = "open"
  /\ todo \in Work /\ session = 1
  /\ answers = <<>> /\ early = FALSE /\ erased = FALSE

ServerGoes(from, to) == server = from /\ server' = to
ClientGoes(from, to) == client = from /\ client' = to

-----------------------------------------------------------------------------
OpenSegment ==
  /\ ServerGoes("open", "initRequest")
  /\ exists' = TRUE
  /\ UNCHANGED <<request_ready, response_ready, func_name, value, result, client,
                 todo, session, answers, early, erased>>

InitRequest ==
  /\ ServerGoes("initRequest", "initResponse")
  /\ request_ready' = 0
  /\ erased' = (erased \/ request_ready > 0)
  /\ UNCHANGED <<exists, response_ready, func_name, value, result, client, todo,
                 session, answers, early>>

\* sem_init of response_ready, and the line that announces the server.
InitResponse ==
  /\ ServerGoes("initResponse", "wait")
  /\ response_ready' = 0
  /\ UNCHANGED <<exists, request_ready, func_name, value, result, client, todo,
                 session, answers, early, erased>>

\* Mutant: the server does not wait.
ServerNoWait ==
  /\ ServerGoes("wait", IF func_name = Empty THEN "ended" ELSE "call")
  /\ UNCHANGED <<segment, client, todo, session, answers, early, erased>>

\* sem_wait, strlen, break.
ServerWait ==
  /\ ServerGoes("wait", IF func_name = Empty THEN "ended" ELSE "call")
  /\ request_ready > 0
  /\ request_ready' = request_ready - 1
  /\ UNCHANGED <<exists, response_ready, func_name, value, result, client, todo,
                 session, answers, early, erased>>

\* Mutant: the response is announced before the result is there.
CallAfterPost ==
  /\ \/ ServerGoes("call", "post") /\ response_ready' = response_ready + 1 /\ UNCHANGED result
     \/ ServerGoes("post", "wait") /\ result' = Apply([name |-> func_name, value |-> value])
                                   /\ UNCHANGED response_ready
  /\ UNCHANGED <<exists, request_ready, func_name, value, client, todo, session, answers, early, erased>>

\* A name the library does not have makes dlsym return NULL, and the call of it
\* kills the server.
Call ==
  /\ ServerGoes("call", IF func_name \in Library THEN "post" ELSE "crashed")
  /\ result' = IF func_name \in Library
               THEN Apply([name |-> func_name, value |-> value]) ELSE result
  /\ UNCHANGED <<exists, request_ready, response_ready, func_name, value, client,
                 todo, session, answers, early, erased>>

PostResponse ==
  /\ ServerGoes("post", "wait")
  /\ response_ready' = response_ready + 1
  /\ UNCHANGED <<exists, request_ready, func_name, value, result, client, todo,
                 session, answers, early, erased>>

Server ==
  OpenSegment \/ InitRequest \/ InitResponse \/ ServerWait \/ Call \/ PostResponse

-----------------------------------------------------------------------------
\* shm_open without O_CREAT: the segment of an earlier session will do.
Connect ==
  /\ ClientGoes("open", "name")
  /\ exists
  /\ early' = (server \in {"open", "initRequest", "initResponse"})
  /\ UNCHANGED <<segment, server, todo, session, answers, erased>>

\* scanf straight into the segment.
ReadName ==
  /\ ClientGoes("name", "value") /\ todo # <<>>
  /\ func_name' = Head(todo).name
  /\ UNCHANGED <<exists, request_ready, response_ready, value, result, server,
                 todo, session, answers, early, erased>>

ReadValue ==
  /\ ClientGoes("value", "post")
  /\ value' = Head(todo).value
  /\ UNCHANGED <<exists, request_ready, response_ready, func_name, result, server,
                 todo, session, answers, early, erased>>

PostRequest ==
  /\ ClientGoes("post", "await")
  /\ request_ready' = request_ready + 1
  /\ UNCHANGED <<exists, response_ready, func_name, value, result, server, todo,
                 session, answers, early, erased>>

Await ==
  /\ ClientGoes("await", "print")
  /\ response_ready > 0
  /\ response_ready' = response_ready - 1
  /\ UNCHANGED <<exists, request_ready, func_name, value, result, server, todo,
                 session, answers, early, erased>>

PrintResult ==
  /\ ClientGoes("print", "name")
  /\ answers' = Append(answers, result)
  /\ todo' = Tail(todo)
  /\ UNCHANGED <<segment, server, session, early, erased>>

\* Mutant: the name is left in the segment.
KeepName ==
  /\ ClientGoes("name", "postStop") /\ todo = <<>>
  /\ UNCHANGED <<segment, server, todo, session, answers, early, erased>>

\* The end of the input.
ClearName ==
  /\ ClientGoes("name", "postStop") /\ todo = <<>>
  /\ func_name' = Empty
  /\ UNCHANGED <<exists, request_ready, response_ready, value, result, server,
                 todo, session, answers, early, erased>>

PostStop ==
  /\ ClientGoes("postStop", "ended")
  /\ request_ready' = request_ready + 1
  /\ UNCHANGED <<exists, response_ready, func_name, value, result, server, todo,
                 session, answers, early, erased>>

Client ==
  \/ Connect \/ ReadName \/ ReadValue \/ PostRequest \/ Await \/ PrintResult
  \/ ClearName \/ PostStop

SessionOver == server = "ended" /\ client = "ended"

\* Both programs are started again; the segment is as they left it.
NewSession ==
  /\ SessionOver /\ session < Sessions
  /\ session' = session + 1
  /\ server' = "open" /\ client' = "open"
  /\ todo' \in Work /\ early' = FALSE /\ erased' = FALSE
  /\ UNCHANGED <<segment, answers>>

Finished == SessionOver /\ session = Sessions /\ UNCHANGED callVars

CallNext == Server \/ Client \/ NewSession \/ Finished

CallSpec == CallInit /\ [][CallNext]_callVars /\ WF_callVars(Server) /\ WF_callVars(Client)

-----------------------------------------------------------------------------
CallTypeOK ==
  /\ exists \in BOOLEAN
  /\ request_ready \in 0 .. 1 /\ response_ready \in 0 .. 1
  /\ server \in {"open", "initRequest", "initResponse", "wait", "call", "post",
                 "ended", "crashed"}
  /\ client \in {"open", "name", "value", "post", "await", "print", "postStop", "ended"}
  /\ session \in 1 .. Sessions
  /\ early \in BOOLEAN /\ erased \in BOOLEAN

\* While the server uses the name and the argument the client does not touch
\* them, and the server never runs ahead of the client: there is one turn, with
\* one of the two or with one of the two semaphores.
Turns ==
  [server   |-> server \in {"call", "post"},
   client   |-> client \in {"name", "value", "post", "print", "postStop"},
   request  |-> request_ready > 0,
   response |-> response_ready > 0]
OneTurn == \A a, b \in DOMAIN Turns : (Turns[a] /\ Turns[b]) => a = b

\* A client is answered as CallService promises, over all sessions.
Open == IF client \in {"await", "print"} THEN Head(todo) ELSE NoCall
Service == INSTANCE CallService WITH None <- NoCall, open <- Open
Serves == Service!Safety

\* Whoever waits for a post that nobody will send any more waits because the
\* server was killed, or because its sem_init came after the post of a client
\* that had been started too early.
Stuck ==
  /\ request_ready = 0 /\ response_ready = 0
  /\ server \in {"wait", "crashed"} /\ client \in {"await", "ended"}
StuckHasCause == Stuck => (server = "crashed" \/ (erased /\ early))

\* The types, one turn, and no other cause to be stuck.
CallInv == CallTypeOK /\ OneTurn /\ StuckHasCause

\* Every session ends, or gets stuck for one of these causes.
SessionsEndOrStuck == []<>(SessionOver \/ Stuck)
=============================================================================
