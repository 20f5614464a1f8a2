----------------------------- MODULE ByteCounter -----------------------------
(***************************************************************************)
(* inf17-0.c: read_data_and_count counts what arrives over N descriptors,  *)
(* through edge-triggered epoll, until all of them are at their end.  A    *)
(* descriptor epoll does not take, a regular file, is never reported.      *)
(***************************************************************************)
EXTENDS Naturals, FiniteSets, FiniteSetsExt

CONSTANTS
  Pipes,
  BufSize,     \* sizeof (buf)
  MaxWritten   \* bound: bytes written to each pipe

VARIABLES
  pc,            \* "register", "wait", "read" or "returned"
  regular,       \* those of the descriptors that are regular files
  registered,    \* known to epoll, or refused by it
  edges,         \* descriptors something has happened to since they were reported
  current,       \* i: the descriptor being read
  still_opened,
  all_readen_bytes,
  written,       \* bytes written to each pipe so far
  unread,        \* and those not read
  writer         \* each pipe's other end: "open" or "closed"

vars == <<pc, regular, registered, edges, current, still_opened, all_readen_bytes,
          written, unread, writer>>
outside == <<regular, written, writer>>

Nobody == "none"

Init ==
  /\ pc = "register" /\ regular \in SUBSET Pipes
  /\ registered = {} /\ edges = {} /\ current = Nobody
  /\ still_opened = Cardinality(Pipes) /\ all_readen_bytes = 0
  /\ written = [p \in Pipes |-> 0] /\ unread = [p \in Pipes |-> 0]
  /\ writer = [p \in Pipes |-> "open"]

Readable(p) == unread[p] > 0 \/ writer[p] = "closed"

\* EPOLL_CTL_ADD, which notices what has come before, in any order.
Register(p) ==
  /\ pc = "register" /\ p \notin registered
  /\ registered' = registered \cup {p}
  /\ edges' = IF p \notin regular /\ Readable(p) THEN edges \cup {p} ELSE edges
  /\ pc' = IF registered' = Pipes THEN "wait" ELSE pc
  /\ UNCHANGED <<current, still_opened, all_readen_bytes, unread, outside>>

\* epoll_wait for one event; a timeout only leads back to it.
Poll ==
  /\ pc = "wait" /\ still_opened > 0
  /\ \E p \in edges :
       /\ edges' = edges \ {p}
       /\ IF Readable(p) THEN pc' = "read" /\ current' = p
                         ELSE UNCHANGED <<pc, current>>
  /\ UNCHANGED <<registered, still_opened, all_readen_bytes, unread, outside>>

Taken(p) == IF unread[p] < BufSize THEN unread[p] ELSE BufSize

\* Mutant: one read for every event.
ReadDataOnce ==
  /\ pc = "read" /\ unread[current] > 0
  /\ all_readen_bytes' = all_readen_bytes + Taken(current)
  /\ unread' = [unread EXCEPT ![current] = @ - Taken(current)]
  /\ pc' = "wait" /\ current' = Nobody
  /\ UNCHANGED <<registered, edges, still_opened, outside>>

ReadData ==
  /\ pc = "read" /\ unread[current] > 0
  /\ all_readen_bytes' = all_readen_bytes + Taken(current)
  /\ unread' = [unread EXCEPT ![current] = @ - Taken(current)]
  /\ UNCHANGED <<pc, registered, edges, current, still_opened, outside>>

\* read fails with EAGAIN.
ReadNothing ==
  /\ pc = "read" /\ unread[current] = 0 /\ writer[current] = "open"
  /\ pc' = "wait" /\ current' = Nobody
  /\ UNCHANGED <<registered, edges, still_opened, all_readen_bytes, unread, outside>>

ReadEnd ==
  /\ pc = "read" /\ unread[current] = 0 /\ writer[current] = "closed"
  /\ still_opened' = still_opened - 1
  /\ edges' = edges \ {current}
  /\ pc' = "wait" /\ current' = Nobody
  /\ UNCHANGED <<registered, all_readen_bytes, unread, outside>>

Return ==
  /\ pc = "wait" /\ still_opened = 0 /\ pc' = "returned"
  /\ UNCHANGED <<registered, edges, current, still_opened, all_readen_bytes, unread,
                 outside>>

Counter ==
  \/ Poll \/ ReadData \/ ReadNothing \/ ReadEnd \/ Return
  \/ \E p \in Pipes : Register(p)

-----------------------------------------------------------------------------
Noticed(p) == edges' = IF p \in registered \ regular THEN edges \cup {p} ELSE edges

Write(p) ==
  /\ writer[p] = "open" /\ written[p] < MaxWritten
  /\ \E n \in 1 .. MaxWritten - written[p] :
       /\ written' = [written EXCEPT ![p] = @ + n]
       /\ unread' = [unread EXCEPT ![p] = @ + n]
  /\ Noticed(p)
  /\ UNCHANGED <<pc, regular, registered, current, still_opened, all_readen_bytes, writer>>

Close(p) ==
  /\ writer[p] = "open" /\ writer' = [writer EXCEPT ![p] = "closed"]
  /\ Noticed(p)
  /\ UNCHANGED <<pc, regular, registered, current, still_opened, all_readen_bytes,
                 written, unread>>

Next == Counter \/ \E p \in Pipes : Write(p) \/ Close(p)

Fairness == WF_vars(Counter)

Spec == Init /\ [][Next]_vars /\ Fairness

-----------------------------------------------------------------------------
TypeOK ==
  /\ pc \in {"register", "wait", "read", "returned"}
  /\ regular \subseteq Pipes /\ registered \subseteq Pipes /\ edges \subseteq Pipes
  /\ current \in Pipes \cup {Nobody} /\ still_opened \in 0 .. Cardinality(Pipes)
  /\ \A p \in Pipes : written[p] \in 0 .. MaxWritten /\ unread[p] \in 0 .. written[p]

\* No byte is counted twice or lost, and the result is not returned before every
\* pipe is at its end and empty; with a regular file among them, never.
CountIsExact ==
  /\ all_readen_bytes = MapThenSumSet(LAMBDA p : written[p] - unread[p], Pipes)
  /\ pc = "returned" =>
       regular = {} /\ \A p \in Pipes : writer[p] = "closed" /\ unread[p] = 0

Inv == TypeOK /\ CountIsExact

\* Once all pipes have been closed the result is returned, however writes,
\* closes and reads have overtaken each other: no second event comes for data
\* that are left over.
EveryByteCounts ==
  []<>(pc = "returned" \/ regular # {} \/ \E p \in Pipes : writer[p] # "closed")
=============================================================================
