----------------------------- MODULE NetworkProofs -----------------------------
EXTENDS Ping, PageBuffers, MCServers, Integers, FiniteSetTheorems, FunctionTheorems, TLAPS

(***************************************************************************)
(* Theorems about Ping, for all times and any number of foreign packets;   *)
(* about PageBuffers, for all sizes; and about the servers and the number  *)
(* clients of MCServers, for any number of clients, numbers and signals.   *)
(* PingInv ties the program's counters to the packets.                     *)
(***************************************************************************)

Packet == Nat \cup {Foreign}

\* Number of the requests that have been sent.
Sent == IF pc = "sleep" THEN msg_count - 1 ELSE msg_count

Types ==
  /\ program \in Programs
  /\ pc \in {"loop", "sleep", "receive", "printed"}
  /\ clock \in Nat /\ wake \in Nat
  /\ msg_count \in Nat /\ msg_received_count \in Nat /\ Completed \in Nat
  /\ travelling \subseteq Nat /\ foreign \in 0 .. MaxForeign
  /\ inbox \in Seq(Packet) /\ got \in Seq(Packet)
  /\ missed \subseteq Nat /\ IsFiniteSet(missed)

\* Replies answer requests that have been sent, and only finished iterations
\* have timed out.
Numbers ==
  /\ \A r \in travelling : r < Sent
  /\ \A k \in 1 .. Len(inbox) : inbox[k] < Sent
  /\ \A k \in 1 .. Len(got) : got[k] < Sent
  /\ \A r \in missed : r < Completed

\* A reply is travelling, queued or taken, once.
Once ==
  /\ \A j, k \in 1 .. Len(got) : got[j] = got[k] /\ got[j] # Foreign => j = k
  /\ \A j, k \in 1 .. Len(inbox) : inbox[j] = inbox[k] /\ inbox[j] # Foreign => j = k
  /\ \A j \in 1 .. Len(got) : got[j] \notin travelling
  /\ \A k \in 1 .. Len(inbox) : inbox[k] \notin travelling
  /\ \A j \in 1 .. Len(got), k \in 1 .. Len(inbox) : inbox[k] = got[j] => got[j] = Foreign

\* The places of a sequence of packets that hold one which answers nothing.
ForeignIn(s) == {k \in 1 .. Len(s) : s[k] = Foreign}

\* What the program counts, and that no foreign packet is taken twice.
PacketsCounted ==
  /\ Completed = Len(got) + Cardinality(missed)
  /\ msg_received_count = Len(got) + (IF program = "inf22_1" /\ 0 \in missed THEN 1 ELSE 0)
  /\ Cardinality(ForeignIn(got)) + Cardinality(ForeignIn(inbox)) <= foreign
  /\ program \notin Raw => foreign = 0

\* What the finished iterations have cost, and the clock at each place.
Cost == Completed * Interval + Cardinality(missed) * RecvTimeout
Deadlines ==
  /\ Cost <= clock
  /\ pc \in {"loop", "printed"} => clock < Timeout + Interval + RecvTimeout
  /\ pc = "sleep" => /\ clock <= wake /\ wake < Timeout + Interval
                     /\ Cost + Interval <= wake
  /\ pc = "receive" => /\ clock <= wake /\ wake < Timeout + Interval + RecvTimeout
                       /\ Cost + Interval <= clock
                       /\ Cost + Interval + RecvTimeout <= wake

PingInv == Types /\ PacketsCounted /\ Numbers /\ Once /\ Deadlines

LEMMA ForeignIsFinite ==
  ASSUME NEW s \in Seq(Packet)
  PROVE  IsFiniteSet(ForeignIn(s)) /\ Cardinality(ForeignIn(s)) \in Nat
  <1>1. IsFiniteSet(1 .. Len(s)) /\ ForeignIn(s) \subseteq 1 .. Len(s)
    BY FS_Interval DEF ForeignIn
  <1> QED BY <1>1, FS_Subset, FS_CardinalityType

LEMMA ForeignAppended ==
  ASSUME NEW s \in Seq(Packet), NEW x \in Packet
  PROVE  Cardinality(ForeignIn(Append(s, x)))
           = Cardinality(ForeignIn(s)) + (IF x = Foreign THEN 1 ELSE 0)
  <1>1. Len(s) \in Nat /\ Len(Append(s, x)) = Len(s) + 1 /\ Append(s, x)[Len(s) + 1] = x
        /\ \A k \in 1 .. Len(s) : Append(s, x)[k] = s[k]
    OBVIOUS
  <1>2. IsFiniteSet(ForeignIn(s)) /\ Cardinality(ForeignIn(s)) \in Nat
    BY ForeignIsFinite
  <1>3. CASE x = Foreign
    <2>1. ForeignIn(Append(s, x)) = ForeignIn(s) \cup {Len(s) + 1}
      BY <1>1, <1>3 DEF ForeignIn
    <2>2. Len(s) + 1 \notin ForeignIn(s)
      BY <1>1 DEF ForeignIn
    <2> QED BY <1>2, <1>3, <2>1, <2>2, FS_AddElement
  <1>4. CASE x # Foreign
    <2>1. ForeignIn(Append(s, x)) = ForeignIn(s)
      BY <1>1, <1>4 DEF ForeignIn
    <2> QED BY <1>2, <1>4, <2>1
  <1> QED BY <1>3, <1>4

LEMMA ForeignLeft ==
  ASSUME NEW s \in Seq(Packet), s # <<>>
  PROVE  Cardinality(ForeignIn(Tail(s)))
           <= Cardinality(ForeignIn(s)) - (IF Head(s) = Foreign THEN 1 ELSE 0)
  <1> DEFINE rest == ForeignIn(s) \ {1}
             next == [k \in ForeignIn(Tail(s)) |-> k + 1]
  <1>1. Len(s) \in Nat \ {0} /\ Len(Tail(s)) = Len(s) - 1 /\ Head(s) = s[1]
        /\ \A k \in 1 .. Len(Tail(s)) : Tail(s)[k] = s[k + 1]
    OBVIOUS
  <1>2. IsFiniteSet(ForeignIn(s)) /\ Cardinality(ForeignIn(s)) \in Nat
    BY ForeignIsFinite
  <1>3. /\ IsFiniteSet(rest)
        /\ Cardinality(rest) = Cardinality(ForeignIn(s)) - (IF Head(s) = Foreign THEN 1 ELSE 0)
    <2>1. 1 \in ForeignIn(s) <=> Head(s) = Foreign
      BY <1>1 DEF ForeignIn
    <2> QED BY <1>2, <2>1, FS_RemoveElement
  <1>4. next \in Injection(ForeignIn(Tail(s)), rest)
    <2>1. \A k \in ForeignIn(Tail(s)) : k \in Int /\ k + 1 \in rest
      BY <1>1 DEF ForeignIn
    <2>2. next \in [ForeignIn(Tail(s)) -> rest]
      BY <2>1
    <2>3. ASSUME NEW j \in ForeignIn(Tail(s)), NEW k \in ForeignIn(Tail(s)), next[j] = next[k]
          PROVE  j = k
      <3>1. j + 1 = k + 1 /\ j \in Int /\ k \in Int
        BY <2>1, <2>3
      <3> QED BY <3>1
    <2> HIDE DEF next, rest
    <2> QED BY <2>2, <2>3, Fun_IsInj
  <1> QED BY <1>3, <1>4, FS_Injection

LEMMA PingInvInit == Init => PingInv
  <1> SUFFICES ASSUME Init PROVE PingInv
    OBVIOUS
  <1> USE TimesAssumption DEF Init
  <1>1. IsFiniteSet({}) /\ Cardinality({}) = 0
    BY FS_EmptySet
  <1>2. Types
    BY <1>1 DEF Types, Completed, Packet
  <1>3. PacketsCounted
    <2>1. ForeignIn(<<>>) = {}
      BY DEF ForeignIn
    <2> QED BY <1>1, <2>1 DEF PacketsCounted, Completed
  <1>4. Numbers /\ Once
    BY DEF Numbers, Once
  <1>5. Deadlines
    BY <1>1 DEF Deadlines, Cost, Completed
  <1> QED BY <1>2, <1>3, <1>4, <1>5 DEF PingInv

\* What one more finished iteration, and one more timeout, cost.
LEMMA CostIsTyped == Types => Cost \in Nat /\ Cardinality(missed) \in Nat
  BY TimesAssumption, FS_CardinalityType DEF Types, Cost

LEMMA OneMoreCompleted ==
  ASSUME Types, Completed' = Completed + 1, UNCHANGED missed
  PROVE  Cost' = Cost + Interval
  <1>1. Completed \in Nat /\ Interval \in Nat /\ Cardinality(missed) * RecvTimeout \in Nat
    BY TimesAssumption, FS_CardinalityType DEF Types
  <1>2. (Completed + 1) * Interval = Completed * Interval + Interval
    BY <1>1
  <1> QED BY <1>1, <1>2 DEF Cost

LEMMA OneMoreMissed ==
  ASSUME Types, Completed' = Completed + 1,
         NEW r, r \notin missed, missed' = missed \cup {r}
  PROVE  /\ Cost' = Cost + Interval + RecvTimeout
         /\ Cardinality(missed') = Cardinality(missed) + 1 /\ IsFiniteSet(missed')
  <1>1. Completed \in Nat /\ Interval \in Nat /\ RecvTimeout \in Nat /\ Cardinality(missed) \in Nat
    BY TimesAssumption, FS_CardinalityType DEF Types
  <1>2. (Completed + 1) * Interval = Completed * Interval + Interval
    BY <1>1
  <1>3. (Cardinality(missed) + 1) * RecvTimeout = Cardinality(missed) * RecvTimeout + RecvTimeout
    BY <1>1
  <1>4. Cardinality(missed') = Cardinality(missed) + 1 /\ IsFiniteSet(missed')
    BY FS_AddElement DEF Types
  <1>5. Completed * Interval \in Nat /\ Cardinality(missed) * RecvTimeout \in Nat
    BY <1>1
  <1> QED BY <1>1, <1>2, <1>3, <1>4, <1>5 DEF Cost

LEMMA PrepareKeepsPingInv == PingInv /\ Prepare => PingInv'
  <1> SUFFICES ASSUME PingInv, Prepare PROVE PingInv'
    OBVIOUS
  <1> USE TimesAssumption DEF PingInv, Prepare, network
  <1>1. Completed' = Completed /\ Sent' = Sent
    BY DEF Completed, Sent, Types
  <1>2. Types'
    BY <1>1 DEF Types
  <1>3. PacketsCounted'
    BY <1>1 DEF PacketsCounted
  <1>4. Numbers' /\ Once'
    BY <1>1 DEF Numbers, Once
  <1>5. Deadlines'
    BY <1>1, CostIsTyped DEF Deadlines, Cost, Types
  <1> QED BY <1>2, <1>3, <1>4, <1>5

LEMMA PacketsAreNumbers ==
  ASSUME Types
  PROVE  /\ \A k \in 1 .. Len(inbox) : inbox[k] \in Int
         /\ \A k \in 1 .. Len(got) : got[k] \in Int
  <1>1. inbox \in Seq(Packet) /\ got \in Seq(Packet)
    BY DEF Types
  <1>2. /\ \A k \in 1 .. Len(inbox) : inbox[k] \in Packet
        /\ \A k \in 1 .. Len(got) : got[k] \in Packet
    BY <1>1
  <1>3. \A x \in Packet : x \in Int
    BY DEF Packet, Foreign
  <1> QED BY <1>2, <1>3

LEMMA SendKeepsPingInv == PingInv /\ Send => PingInv'
  <1> SUFFICES ASSUME PingInv, Send PROVE PingInv'
    OBVIOUS
  <1> USE TimesAssumption DEF PingInv, Send
  <1>1. Completed' = Completed /\ Sent = msg_count - 1 /\ Sent' = msg_count /\ Sent \in Nat
        /\ msg_count \in Nat
    BY DEF Completed, Sent, Types
  <1>2. Types'
    BY <1>1 DEF Types
  <1>3. PacketsCounted'
    BY <1>1 DEF PacketsCounted
  <1>4. Numbers'
    <2>1. /\ inbox' = inbox /\ got' = got /\ missed' = missed
          /\ travelling' \subseteq travelling \cup {msg_count - 1}
      OBVIOUS
    <2>2. \A r \in travelling' : r < Sent'
      BY <1>1, <2>1 DEF Numbers, Types
    <2>3. \A k \in 1 .. Len(inbox) : inbox[k] < Sent'
      <3>1. \A k \in 1 .. Len(inbox) : inbox[k] \in Int /\ inbox[k] < Sent
        BY PacketsAreNumbers DEF Numbers
      <3> QED BY <1>1, <3>1
    <2>4. \A k \in 1 .. Len(got) : got[k] < Sent'
      <3>1. \A k \in 1 .. Len(got) : got[k] \in Int /\ got[k] < Sent
        BY PacketsAreNumbers DEF Numbers
      <3> QED BY <1>1, <3>1
    <2> QED BY <1>1, <2>1, <2>2, <2>3, <2>4 DEF Numbers
  <1>5. Once'
    BY <1>1 DEF Numbers, Once, Types, Packet, Foreign
  <1>6. Deadlines'
    BY <1>1, CostIsTyped DEF Deadlines, Cost, Types
  <1> QED BY <1>2, <1>3, <1>4, <1>5, <1>6

LEMMA ReceiveKeepsPingInv == PingInv /\ Receive => PingInv'
  <1> SUFFICES ASSUME PingInv, Receive PROVE PingInv'
    OBVIOUS
  <1> USE TimesAssumption DEF PingInv, Receive
  <1>1. Completed' = Completed + 1 /\ Sent' = Sent
    BY DEF Completed, Sent, Types
  <1>2. /\ Len(got') = Len(got) + 1 /\ got'[Len(got) + 1] = inbox[1]
        /\ \A k \in 1 .. Len(got) : got'[k] = got[k]
        /\ Len(inbox) \in Nat \ {0} /\ Len(inbox') = Len(inbox) - 1
        /\ \A k \in 1 .. Len(inbox') : inbox'[k] = inbox[k + 1]
    BY DEF Types
  <1>3. Len(got) \in Nat
    BY DEF Types
  <1>4. Types'
    BY <1>1, <1>2 DEF Types
  <1>5. PacketsCounted'
    <2>1. PacketsCounted /\ Cardinality(missed) \in Nat /\ msg_received_count \in Nat
      BY CostIsTyped DEF Types
    <2>2. msg_received_count' = msg_received_count + 1 /\ UNCHANGED <<program, missed>>
      OBVIOUS
    <2>3. Completed' = Len(got') + Cardinality(missed)
      BY <1>1, <1>2, <1>3, <2>1 DEF PacketsCounted
    <2>4. msg_received_count' = Len(got') + (IF program = "inf22_1" /\ 0 \in missed THEN 1 ELSE 0)
      BY <1>2, <1>3, <2>1, <2>2 DEF PacketsCounted
    <2>5. Cardinality(ForeignIn(got')) + Cardinality(ForeignIn(inbox')) <= foreign'
      <3>1. inbox[1] \in Packet /\ Head(inbox) = inbox[1]
        BY <1>2 DEF Types
      <3>2. Cardinality(ForeignIn(got')) = Cardinality(ForeignIn(got))
              + (IF Head(inbox) = Foreign THEN 1 ELSE 0)
        BY <3>1, ForeignAppended DEF Types
      <3>3. Cardinality(ForeignIn(inbox')) <= Cardinality(ForeignIn(inbox))
              - (IF Head(inbox) = Foreign THEN 1 ELSE 0)
        BY ForeignLeft DEF Types
      <3>4. /\ Cardinality(ForeignIn(got)) \in Nat /\ Cardinality(ForeignIn(inbox)) \in Nat
            /\ Cardinality(ForeignIn(inbox')) \in Nat
        BY <1>4, ForeignIsFinite DEF Types
      <3>5. foreign' = foreign /\ foreign \in Int
        BY DEF Types
      <3> QED BY <2>1, <3>2, <3>3, <3>4, <3>5 DEF PacketsCounted
    <2> QED BY <2>1, <2>2, <2>3, <2>4, <2>5 DEF PacketsCounted
  <1>6. Numbers'
    <2>1. inbox[1] < Sent
      BY <1>2 DEF Numbers
    <2>2. \A k \in 1 .. Len(got') : got'[k] < Sent'
      BY <1>1, <1>2, <1>3, <2>1 DEF Numbers
    <2>3. \A k \in 1 .. Len(inbox') : inbox'[k] < Sent'
      <3>1. \A k \in 1 .. Len(inbox') : k + 1 \in 1 .. Len(inbox)
        BY <1>2
      <3> QED BY <1>1, <1>2, <3>1 DEF Numbers
    <2>4. (\A r \in travelling' : r < Sent') /\ \A r \in missed' : r < Completed'
      BY <1>1 DEF Numbers, Types
    <2> QED BY <2>2, <2>3, <2>4 DEF Numbers
  <1>7. Once'
    <2>1. Once /\ travelling' = travelling
      OBVIOUS
    <2>2. \A k \in 1 .. Len(inbox') : k + 1 \in 1 .. Len(inbox) /\ k + 1 # 1
      BY <1>2
    <2>3. \A k \in 1 .. Len(got') : k \in 1 .. Len(got) \/ k = Len(got) + 1
      BY <1>2, <1>3
    <2>4. 1 \in 1 .. Len(inbox) /\ Len(got) + 1 \notin 1 .. Len(got)
      BY <1>2, <1>3
    <2>5. \A j, k \in 1 .. Len(got') : got'[j] = got'[k] /\ got'[j] # Foreign => j = k
      BY <1>2, <2>1, <2>3, <2>4 DEF Once
    <2>6. \A j, k \in 1 .. Len(inbox') : inbox'[j] = inbox'[k] /\ inbox'[j] # Foreign => j = k
      <3>1. ASSUME NEW j \in 1 .. Len(inbox'), NEW k \in 1 .. Len(inbox'),
                   inbox'[j] = inbox'[k], inbox'[j] # Foreign
            PROVE  j = k
        <4>1. inbox[j + 1] = inbox[k + 1] /\ inbox[j + 1] # Foreign
          BY <1>2, <3>1
        <4>2. j + 1 = k + 1
          BY <2>1, <2>2, <4>1 DEF Once
        <4> QED BY <1>2, <4>2
      <3> QED BY <3>1
    <2>7. /\ \A j \in 1 .. Len(got') : got'[j] \notin travelling'
          /\ \A k \in 1 .. Len(inbox') : inbox'[k] \notin travelling'
      BY <1>2, <2>1, <2>2, <2>3, <2>4 DEF Once
    <2>8. \A j \in 1 .. Len(got'), k \in 1 .. Len(inbox') :
            inbox'[k] = got'[j] => got'[j] = Foreign
      BY <1>2, <2>1, <2>2, <2>3, <2>4 DEF Once
    <2> QED BY <2>5, <2>6, <2>7, <2>8 DEF Once
  <1>8. Deadlines'
    BY <1>1, CostIsTyped, OneMoreCompleted DEF Deadlines, Types
  <1> QED BY <1>4, <1>5, <1>6, <1>7, <1>8

LEMMA TimedOutKeepsPingInv == PingInv /\ TimedOut => PingInv'
  <1> SUFFICES ASSUME PingInv, TimedOut PROVE PingInv'
    OBVIOUS
  <1> USE TimesAssumption DEF PingInv, TimedOut, network
  <1>1. Completed = msg_count - 1 /\ Completed' = Completed + 1 /\ Sent' = Sent
    BY DEF Completed, Sent, Types
  <1>2. Completed \in Nat /\ Completed \notin missed /\ missed' = missed \cup {Completed}
    BY <1>1 DEF Numbers, Types
  <1>3. Cost' = Cost + Interval + RecvTimeout
    BY <1>1, <1>2, OneMoreMissed
  <1>4. Cardinality(missed') = Cardinality(missed) + 1 /\ IsFiniteSet(missed')
    BY <1>1, <1>2, OneMoreMissed
  <1>5. Types'
    BY <1>1, <1>2, <1>4 DEF Types
  <1>6. PacketsCounted'
    <2>1. Completed' = Len(got') + Cardinality(missed')
      BY <1>1, <1>4, CostIsTyped DEF PacketsCounted, Types
    <2> UNCHANGED <<got, inbox, foreign, program>> /\ PacketsCounted
      OBVIOUS
    <2>2. CASE CountedAnyway
      BY <2>1, <2>2, <1>1, <1>2 DEF PacketsCounted, CountedAnyway, Types
    <2>3. CASE ~CountedAnyway
      <3>1. program = "inf22_1" => (0 \in missed' <=> 0 \in missed)
        BY <2>3, <1>1, <1>2 DEF CountedAnyway, Types
      <3>2. msg_received_count' = msg_received_count /\ UNCHANGED <<program, got>>
        BY <2>3 DEF Types
      <3> QED BY <2>1, <3>1, <3>2 DEF PacketsCounted
    <2> QED BY <2>2, <2>3
  <1>7. Numbers'
    BY <1>1, <1>2 DEF Numbers, Types
  <1>8. Once'
    BY DEF Once
  <1>9. Deadlines'
    BY <1>3, CostIsTyped DEF Deadlines, Types
  <1> QED BY <1>5, <1>6, <1>7, <1>8, <1>9

LEMMA PrintTotalKeepsPingInv == PingInv /\ PrintTotal => PingInv'
  <1> SUFFICES ASSUME PingInv, PrintTotal PROVE PingInv'
    OBVIOUS
  <1> USE DEF PingInv, PrintTotal, network
  <1>1. Completed' = Completed /\ Sent' = Sent
    BY DEF Completed, Sent
  <1>2. Types' /\ PacketsCounted'
    BY <1>1 DEF Types, PacketsCounted
  <1>3. Numbers' /\ Once'
    BY <1>1 DEF Numbers, Once
  <1>4. Deadlines'
    BY <1>1 DEF Deadlines, Cost
  <1> QED BY <1>2, <1>3, <1>4

LEMMA ArriveKeepsPingInv == PingInv /\ (Arrive \/ ArriveForeign) => PingInv'
  <1> SUFFICES ASSUME PingInv, Arrive \/ ArriveForeign PROVE PingInv'
    OBVIOUS
  <1> USE DEF PingInv
  <1>1. UNCHANGED <<program, pc, clock, wake, msg_count, msg_received_count, got, missed>>
    BY DEF Arrive, ArriveForeign
  <1>2. Completed' = Completed /\ Sent' = Sent /\ Cost' = Cost
    BY <1>1 DEF Completed, Sent, Cost
  <1>3. PICK p \in Packet :
          /\ inbox' = Append(inbox, p) /\ p < Sent
          /\ travelling' = travelling \ {p}
          /\ \/ p \in travelling /\ p # Foreign /\ foreign' = foreign
             \/ p = Foreign /\ foreign < MaxForeign /\ foreign' = foreign + 1
    <2>1. CASE Arrive
      BY <2>1 DEF Arrive, Numbers, Types, Packet, Foreign
    <2>2. CASE ArriveForeign
      BY <2>2, <1>1 DEF ArriveForeign, Types, Packet, Foreign, Sent, Completed
    <2> QED BY <2>1, <2>2
  <1>4. /\ Len(inbox) \in Nat /\ Len(inbox') = Len(inbox) + 1
        /\ inbox'[Len(inbox) + 1] = p
        /\ \A k \in 1 .. Len(inbox) : inbox'[k] = inbox[k]
    BY <1>3 DEF Types
  <1>5. Types'
    <2>1. inbox' \in Seq(Packet)
      BY <1>3 DEF Types
    <2>2. foreign' \in 0 .. MaxForeign
      BY <1>3, TimesAssumption DEF Types
    <2>3. travelling' \subseteq Nat
      BY <1>3 DEF Types
    <2> QED BY <1>1, <1>2, <2>1, <2>2, <2>3 DEF Types
  <1>6. PacketsCounted'
    <2>1. Cardinality(ForeignIn(inbox'))
            = Cardinality(ForeignIn(inbox)) + (IF p = Foreign THEN 1 ELSE 0)
      BY <1>3, ForeignAppended DEF Types
    <2>2. Cardinality(ForeignIn(got)) \in Nat /\ Cardinality(ForeignIn(inbox)) \in Nat
      BY ForeignIsFinite DEF Types
    <2>3. Cardinality(ForeignIn(got')) + Cardinality(ForeignIn(inbox')) <= foreign'
      BY <1>1, <1>3, <2>1, <2>2 DEF PacketsCounted, Types
    <2>4. program' \notin Raw => foreign' = 0
      BY <1>1 DEF PacketsCounted, Arrive, ArriveForeign
    <2> QED BY <1>1, <1>2, <2>3, <2>4 DEF PacketsCounted
  <1>7. Numbers'
    BY <1>1, <1>2, <1>3, <1>4 DEF Numbers
  <1>8. Once'
    BY <1>1, <1>3, <1>4 DEF Once
  <1>9. Deadlines'
    BY <1>1, <1>2 DEF Deadlines
  <1> QED BY <1>5, <1>6, <1>7, <1>8, <1>9

LEMMA TickKeepsPingInv == PingInv /\ Tick => PingInv'
  <1> SUFFICES ASSUME PingInv, Tick PROVE PingInv'
    OBVIOUS
  <1> USE DEF PingInv, Tick, network
  <1>1. Completed' = Completed /\ Sent' = Sent /\ Cost' = Cost
    BY DEF Completed, Sent, Cost
  <1>2. Types' /\ PacketsCounted'
    BY <1>1 DEF Types, PacketsCounted
  <1>3. Numbers' /\ Once'
    BY <1>1 DEF Numbers, Once
  <1>4. Deadlines'
    BY <1>1, CostIsTyped, TimesAssumption DEF Deadlines, Types
  <1> QED BY <1>2, <1>3, <1>4

LEMMA NextKeepsPingInv == PingInv /\ [Next]_vars => PingInv'
  <1>1. CASE UNCHANGED vars
    <2> SUFFICES ASSUME PingInv PROVE PingInv'
      BY <1>1
    <2> USE <1>1 DEF vars, network, PingInv
    <2>1. Completed' = Completed /\ Sent' = Sent /\ Cost' = Cost
      BY DEF Completed, Sent, Cost
    <2>2. Types' /\ PacketsCounted'
      BY <2>1 DEF Types, PacketsCounted
    <2>3. Numbers' /\ Once' /\ Deadlines'
      BY <2>1 DEF Numbers, Once, Deadlines
    <2> QED BY <2>2, <2>3
  <1> QED
    BY <1>1, PrepareKeepsPingInv, SendKeepsPingInv, ReceiveKeepsPingInv,
       TimedOutKeepsPingInv, PrintTotalKeepsPingInv, ArriveKeepsPingInv, TickKeepsPingInv
    DEF Next, Program, Finished

\* The counters, the packets and the clock agree in every state, whatever the
\* times and the network.
THEOREM Bookkeeping == Spec => []PingInv
  BY PingInvInit, NextKeepsPingInv, PTL DEF Spec

LEMMA PingInvGivesTotal == PingInv => TotalIsRight
  <1> SUFFICES ASSUME PingInv PROVE TotalIsRight
    OBVIOUS
  <1> USE DEF PingInv
  <1>1. Sent \in Int /\ Sent <= msg_count /\ Completed <= msg_count
    BY DEF Types, Sent, Completed
  <1>2. msg_received_count \in 0 .. msg_count
    <2>1. Cardinality(missed) \in Nat /\ (0 \in missed => Cardinality(missed) # 0)
      BY CostIsTyped, FS_EmptySet DEF Types
    <2> QED BY <1>1, <2>1 DEF PacketsCounted, Types
  <1>3. travelling \subseteq 0 .. msg_count - 1 /\ missed \subseteq 0 .. msg_count - 1
    BY <1>1 DEF Types, Numbers
  <1>4. \A k \in 1 .. Len(inbox) : inbox[k] \in 0 .. msg_count - 1 \cup {Foreign}
    BY <1>1 DEF Types, Numbers, Packet
  <1>5. \A k \in 1 .. Len(got) : got[k] \in 0 .. msg_count - 1 \cup {Foreign}
    BY <1>1 DEF Types, Numbers, Packet
  <1>6. /\ inbox \in Seq(0 .. msg_count - 1 \cup {Foreign})
        /\ got \in Seq(0 .. msg_count - 1 \cup {Foreign})
    BY <1>4, <1>5 DEF Types
  <1>7. TypeOK
    BY <1>2, <1>3, <1>6 DEF Types, TypeOK
  <1>8. OnTime
    BY CostIsTyped, TimesAssumption DEF OnTime, Deadlines, Cost, Types
  <1>9. CountIsRight
    <2>1. Replies = Len(got) - Cardinality(ForeignIn(got))
      <3>1. Replies = Cardinality((1 .. Len(got)) \ ForeignIn(got))
        <4>1. {k \in 1 .. Len(got) : got[k] # Foreign} = (1 .. Len(got)) \ ForeignIn(got)
          BY DEF ForeignIn
        <4> QED BY <4>1, Zenon DEF Replies
      <3>2. (1 .. Len(got)) \cap ForeignIn(got) = ForeignIn(got)
        BY DEF ForeignIn
      <3>3. IsFiniteSet(1 .. Len(got)) /\ Cardinality(1 .. Len(got)) = Len(got)
        <4>1. Len(got) \in Nat
          BY DEF Types
        <4> QED BY <4>1, FS_Interval, SMTT(30)
      <3>4. IsFiniteSet(ForeignIn(got))
        BY ForeignIsFinite DEF Types
      <3>5. Cardinality((1 .. Len(got)) \ ForeignIn(got))
              = Cardinality(1 .. Len(got)) - Cardinality((1 .. Len(got)) \cap ForeignIn(got))
        BY <3>3, <3>4, FS_Difference
      <3> QED BY <3>1, <3>2, <3>3, <3>5
    <2>2. Cardinality(ForeignIn(got)) \in Nat /\ Cardinality(ForeignIn(inbox)) \in Nat
      BY ForeignIsFinite DEF Types
    <2>3. Len(got) \in Nat /\ foreign \in Nat /\ msg_received_count \in Nat
      BY TimesAssumption DEF Types
    <2>4. Cardinality(ForeignIn(got)) <= foreign
      BY <2>2, <2>3 DEF PacketsCounted
    <2> QED BY <2>1, <2>2, <2>3, <2>4 DEF CountIsRight, PacketsCounted, Raw
  <1>10. EachReplyOnce
    BY DEF Once, EachReplyOnce
  <1> QED BY <1>7, <1>8, <1>9, <1>10 DEF TotalIsRight

\* For every timeout, interval and receive timeout, an interval of 0 included,
\* and whatever the network does: what inf22-1-ver1.c counts is the replies to
\* its requests, each once; inf22-1.c and inf22-1-1.c miss none and count too
\* many only for foreign packets, inf22-1.c also for a first request that timed
\* out; and the program is late by one sleep and one wait at most.
THEOREM CountAndTime == Spec => []TotalIsRight
  BY Bookkeeping, PingInvGivesTotal, PTL

-----------------------------------------------------------------------------
(***************************************************************************)
(* The pages fit their buffers, for every size of the first allocation and *)
(* of the chunks.  SizeInv is inductive; the interesting step is a chunk   *)
(* for which inf23-2-ver2.c does not reallocate: 2 * size + chunk is       *)
(* within the capacity, the capacity within alloc + size, so size + chunk  *)
(* is within the allocation.                                               *)
(***************************************************************************)
LEMMA SizeInvInit == PageInit => SizeInv
  BY SizesAssumption
     DEF PageInit, SizeInv, PageTypes, CapacityBounded, NoOverflow, Collectors

LEMMA GetPageStep ==
  ASSUME SizeInv, NEW bytes \in Nat, get_page(bytes)
  PROVE  SizeInv' /\ alloc' >= alloc
  <1> USE DEF SizeInv, PageTypes, CapacityBounded, NoOverflow
  <1>1. /\ collector = "vector" /\ collector' = collector
        /\ size' = size + bytes
        /\ alloc \in Nat /\ capacity \in Nat /\ size \in Nat
        /\ size <= alloc /\ alloc <= capacity /\ capacity <= alloc + size
    BY DEF get_page
  <1>2. CASE size + (size + bytes) > capacity
    <2>1. /\ alloc' = size + (size + bytes)
          /\ capacity' = capacity + (size + bytes)
      BY <1>2 DEF get_page, realocate_vector
    <2>2. /\ alloc' \in Nat /\ capacity' \in Nat /\ size' \in Nat
          /\ size' <= alloc' /\ alloc' <= capacity' /\ capacity' <= alloc' + size'
          /\ alloc' >= alloc
      BY <1>1, <1>2, <2>1
    <2>3. QED BY <1>1, <2>2
  <1>3. CASE ~(size + (size + bytes) > capacity)
    <2>1. alloc' = alloc /\ capacity' = capacity
      BY <1>3 DEF get_page, realocate_vector
    <2>2. /\ size' \in Nat /\ size' <= alloc' /\ capacity' <= alloc' + size'
      BY <1>1, <1>3, <2>1
    <2>3. QED BY <1>1, <2>1, <2>2
  <1>4. QED BY <1>2, <1>3

LEMMA CallbackStep ==
  ASSUME SizeInv, NEW bytes \in Nat, callback_function(bytes)
  PROVE  SizeInv' /\ (alloc' >= alloc \/ size = 0)
  <1> USE DEF SizeInv, PageTypes, CapacityBounded, NoOverflow
  <1>1. /\ collector = "doubling" /\ collector' = collector
        /\ size' = size + bytes
        /\ alloc \in Nat /\ capacity \in Nat /\ size \in Nat
        /\ size <= alloc /\ capacity \in {0, alloc} /\ (capacity = 0 => size = 0)
    BY DEF callback_function
  <1>2. CASE size + bytes > capacity
    <2>1. alloc' = (size + bytes) * 2 /\ capacity' = alloc'
      BY <1>2 DEF callback_function
    <2>2. /\ alloc' \in Nat /\ size' \in Nat /\ size' <= alloc'
          /\ alloc' # 0
          /\ alloc' >= alloc \/ size = 0
      BY <1>1, <1>2, <2>1
    <2>3. QED BY <1>1, <2>1, <2>2
  <1>3. CASE ~(size + bytes > capacity)
    <2>1. alloc' = alloc /\ capacity' = capacity
      BY <1>3 DEF callback_function
    <2>2. size' \in Nat /\ size' <= alloc' /\ (capacity' = 0 => size' = 0)
      BY <1>1, <1>3, <2>1
    <2>3. QED BY <1>1, <2>1, <2>2
  <1>4. QED BY <1>2, <1>3

LEMMA SizeInvStep ==
  ASSUME SizeInv, [PageNext]_pageVars
  PROVE  SizeInv' /\ (alloc' >= alloc \/ (collector = "doubling" /\ size = 0))
  <1>1. CASE UNCHANGED pageVars
    BY <1>1 DEF pageVars, SizeInv, PageTypes, CapacityBounded, NoOverflow
  <1>2. ASSUME NEW bytes \in Chunks, Chunk(bytes)
        PROVE  SizeInv' /\ (alloc' >= alloc \/ (collector = "doubling" /\ size = 0))
    <2>1. bytes \in Nat
      BY SizesAssumption
    <2>2. CASE get_page(bytes)
      BY <2>1, <2>2, GetPageStep
    <2>3. CASE callback_function(bytes)
      <3>1. collector = "doubling"
        BY <2>3 DEF callback_function
      <3>2. QED BY <2>1, <2>3, <3>1, CallbackStep
    <2>4. QED BY <1>2, <2>2, <2>3 DEF Chunk
  <1>3. QED BY <1>1, <1>2 DEF PageNext, PageComplete

\* The memcpy of get_page and callback_function never writes past the end of
\* the allocation, although capacity is not its size.
THEOREM PageFits == PageSpec => []NoOverflow
  <1>1. SizeInv /\ [PageNext]_pageVars => SizeInv'
    BY SizeInvStep
  <1>2. SizeInv => NoOverflow
    BY DEF SizeInv
  <1>3. QED BY <1>1, <1>2, SizeInvInit, PTL DEF PageSpec

\* A realloc keeps the bytes received so far: it never makes a buffer in use
\* smaller.
THEOREM BuffersGrow == PageSpec => GrowthOnly
  <1>1. SizeInv /\ [PageNext]_pageVars => SizeInv'
    BY SizeInvStep
  <1>2. SizeInv /\ [PageNext]_pageVars => [alloc' >= alloc \/ (collector = "doubling" /\ size = 0)]_pageVars
    BY SizeInvStep
  <1>3. QED BY <1>1, <1>2, SizeInvInit, PTL DEF PageSpec, GrowthOnly

-----------------------------------------------------------------------------
(***************************************************************************)
(* The servers of StopPipeServers.  An event that waits is of something    *)
(* that is still there (EventsAreCurrent), because a client's connection   *)
(* is only closed by its own event, which is then behind; PipePlaces says  *)
(* which of the programs can be where.  Of an HTTP server's answer the     *)
(* client has what is not due any more (OnTheWay).                         *)
(***************************************************************************)
\* Where a server is and what it is about to handle.
PipePlaces ==
  /\ doing \in {"echo", "request", "answer", "blocked"} =>
       events # <<>> /\ Head(events) \in Callers
  /\ pipeServer \in S!Http =>
       /\ doing # "echo"
       /\ doing = "event" => \A k \in DOMAIN events : events[k] \notin Callers
  /\ pipeServer \in S!Echo => doing \notin {"request", "answer", "blocked"}
  /\ doing = "blocked" => due # <<>>
  /\ \A c \in Callers : arrived[c] <= sent[c]

\* Nobody has been answered, or read from as long as the server runs.
Unanswered ==
  /\ doing \notin {"answer", "blocked"}
  /\ doing = "returned" => stopped
  /\ \A c \in Callers : replies[c] = <<>> /\ (S!Running => arrived[c] = sent[c])

\* The answer ends in what is due, and begins with what the client has got, which is
\* all the rest if it is still there.
OnTheWay(c, answer) ==
  /\ answer \in Seq(S!Words) /\ answer # <<>>
  /\ S!Taken(c) > 0 => answer \in S!MayGet(wants[c])
  /\ \A k \in 1 .. Len(answer) : answer[k] = "content" => k = Len(answer)
  /\ Len(due) <= Len(answer) /\ Len(replies[c]) <= Len(answer) - Len(due)
  /\ \A k \in 1 .. Len(due) : due[k] = answer[Len(answer) - Len(due) + k]
  /\ \A k \in 1 .. Len(replies[c]) : replies[c][k] = answer[k]
  /\ client[c] # "gone" => Len(replies[c]) = Len(answer) - Len(due)

\* Client c is the one that is answered.
Answering(c) ==
  /\ doing \in {"answer", "blocked", "returned", "killed"}
  /\ doing \in {"answer", "blocked"} => Head(events) = c
  /\ doing = "returned" => due = <<>>
  /\ \A d \in Callers : d # c => replies[d] = <<>>
  /\ \E answer \in Seq(S!Words) : OnTheWay(c, answer)

HttpAnswers == pipeServer \in S!Http => Unanswered \/ \E c \in Callers : Answering(c)

EchoAnswers ==
  pipeServer \in S!Echo =>
    /\ doing = "returned" => stopped
    /\ \A c \in Callers :
         /\ Len(replies[c]) <= S!Taken(c)
         /\ client[c] # "gone" /\ c \notin SlowCallers =>
              replies[c] = [k \in 1 .. S!Taken(c) |-> "part"]
         /\ S!Running /\ conn[c] = "closed" /\ ~paused[c] => arrived[c] = 0

PipeInv == S!TypeOK /\ PipePlaces /\ S!EventsAreCurrent /\ HttpAnswers /\ EchoAnswers

\* Nothing that is said here about an HTTP server concerns the echo server.
LEMMA Kinds == S!Http \cap S!Echo = {} /\ (S!TypeOK => pipeServer \in S!Http \cup S!Echo)
BY DEF S!TypeOK, S!Http, S!Echo

\* What may be answered, word by word.
LEMMA AnswerFacts ==
  ASSUME NEW file
  PROVE  /\ S!MayAnswer(file) \subseteq
              {<<"404">>, <<"403">>, <<"200">>, <<"200", "length">>, S!Whole, <<"crash">>,
               <<"200", "crash">>, <<"200", "output">>, <<"200", "endless">>}
         /\ \A a \in S!MayAnswer(file) :
              /\ a \in Seq(S!Words) /\ a # <<>> /\ a \in S!MayGet(file)
              /\ \A k \in 1 .. Len(a) : a[k] = "content" => k = Len(a)
<1>1. S!MayAnswer(file) \subseteq
        {<<"404">>, <<"403">>, <<"200">>, <<"200", "length">>, S!Whole, <<"crash">>,
         <<"200", "crash">>, <<"200", "output">>, <<"200", "endless">>}
  <2>1. \/ file \in {"missing", "forbidden", "directory", "plain", "program"}
        \/ file \notin {"missing", "forbidden", "directory", "plain", "program"}
    OBVIOUS
  <2>2. QED BY <2>1 DEF S!MayAnswer
<1>2. ASSUME NEW a \in S!MayAnswer(file)
      PROVE  /\ a \in Seq(S!Words) /\ a # <<>>
             /\ \A k \in 1 .. Len(a) : a[k] = "content" => k = Len(a)
  <2>1. CASE a = S!Whole
    BY <2>1 DEF S!Words, S!Whole
  <2>2. ASSUME NEW w \in S!Words, w # "content", a = <<w>> \/ a = <<"200", w>>
        PROVE  /\ a \in Seq(S!Words) /\ a # <<>>
               /\ \A k \in 1 .. Len(a) : a[k] = "content" => k = Len(a)
    <3>1. "200" \in S!Words
      BY DEF S!Words
    <3>2. CASE a = <<w>>
      BY <2>2, <3>2
    <3>3. CASE a = <<"200", w>>
      BY <2>2, <3>1, <3>3
    <3>4. QED BY <2>2, <3>2, <3>3
  <2>3. /\ {"404", "403", "200", "crash", "length", "output", "endless"} \subseteq S!Words
        /\ "content" \notin {"404", "403", "200", "crash", "length", "output", "endless"}
    BY DEF S!Words
  <2>4. CASE a = <<"404">> \/ a = <<"403">> \/ a = <<"200">> \/ a = <<"crash">>
    BY <2>2, <2>3, <2>4
  <2>5. CASE \/ a = <<"200", "length">> \/ a = <<"200", "crash">>
             \/ a = <<"200", "output">> \/ a = <<"200", "endless">>
    BY <2>2, <2>3, <2>5
  <2>6. QED BY <1>1, <2>1, <2>4, <2>5
<1>3. S!MayAnswer(file) \subseteq S!MayGet(file)
  BY DEF S!MayGet
<1>4. QED BY <1>1, <1>2, <1>3

\* A signal leaves a piece of the content, which is the end of any answer it is in.
LEMMA PieceFacts ==
  ASSUME NEW file, NEW a \in S!MayGet(file), stopped', a[Len(a)] = "content",
         pipeServer' = pipeServer
  PROVE  [a EXCEPT ![Len(a)] = "piece"] \in S!MayGet(file)'
<1>1. \A b \in S!MayAnswer(file) : b \in Seq(S!Words) /\ b # <<>>
  BY AnswerFacts
<1>2. a \in S!MayAnswer(file)
  <2>1. ASSUME NEW b \in S!MayAnswer(file), a = [b EXCEPT ![Len(b)] = "piece"] PROVE FALSE
    <3>1. Len(a) = Len(b) /\ Len(b) \in DOMAIN b
      BY <1>1, <2>1
    <3>2. QED BY <2>1, <3>1
  <2>2. QED BY <2>1 DEF S!MayGet
<1>3. S!MayAnswer(file)' = S!MayAnswer(file)
  BY DEF S!MayAnswer
<1>4. QED BY <1>2, <1>3 DEF S!MayGet, S!Last

\* The invariant says enough of every client.
LEMMA PipeInvGivesAnswers == PipeInv => S!Answers
<1> SUFFICES ASSUME PipeInv PROVE S!Answers
  OBVIOUS
<1>1. CASE pipeServer \in S!Echo
  BY <1>1, Kinds DEF PipeInv, EchoAnswers, S!Answers, S!Running
<1>2. CASE pipeServer \in S!Http /\ Unanswered
  <2>1. pipeServer \notin S!Echo
    BY <1>2, Kinds
  <2>2. QED BY <1>2, <2>1 DEF Unanswered, S!Answers
<1>3. ASSUME pipeServer \in S!Http, NEW c \in Callers, Answering(c) PROVE S!Answers
  <2>1. pipeServer \notin S!Echo
    BY <1>3, Kinds
  <2>2. PICK answer \in Seq(S!Words) : OnTheWay(c, answer)
    BY <1>3 DEF Answering
  <2>3. replies[c] \in Seq(S!Words) /\ due \in Seq(S!Words)
    BY DEF PipeInv, S!TypeOK
  <2>4. S!IsPrefix(replies[c], answer)
    <3>1. Len(replies[c]) <= Len(answer) /\ \A k \in 1 .. Len(replies[c]) : replies[c][k] = answer[k]
      BY <2>2, <2>3 DEF OnTheWay
    <3>2. QED BY <2>3, <3>1 DEF S!IsPrefix
  <2>5. doing = "returned" /\ client[c] # "gone" => replies[c] = answer /\ replies[c] # <<>>
    <3>1. SUFFICES ASSUME doing = "returned", client[c] # "gone"
                   PROVE  replies[c] = answer /\ answer # <<>>
      OBVIOUS
    <3>2. Len(due) = 0
      BY <1>3, <3>1 DEF Answering
    <3>3. Len(replies[c]) = Len(answer) /\ \A k \in 1 .. Len(replies[c]) : replies[c][k] = answer[k]
      BY <2>2, <2>3, <3>1, <3>2 DEF OnTheWay
    <3>4. QED BY <2>2, <2>3, <3>3 DEF OnTheWay
  <2>6. \A d \in Callers : replies[d] # <<>> => d = c
    BY <1>3 DEF Answering
  <2>7. S!Taken(c) > 0 => answer \in S!MayGet(wants[c])
    BY <2>2 DEF OnTheWay
  <2>8. QED BY <1>3, <2>1, <2>4, <2>5, <2>6, <2>7 DEF S!Answers
<1>4. QED BY <1>1, <1>2, <1>3, Kinds DEF PipeInv, HttpAnswers


\* The servers at their start.
LEMMA PipesBegin == S!Init => PipeInv
<1> SUFFICES ASSUME S!Init PROVE PipeInv
  OBVIOUS
<1> USE ServersAssumption DEF S!Init, S!Http, S!Echo
<1>1. S!TypeOK
  <2>1. replies \in [Callers -> Seq(S!Words)] /\ due \in Seq(S!Words)
    OBVIOUS
  <2>4. paused \in [Callers -> BOOLEAN] /\ stopped \in BOOLEAN
    OBVIOUS
  <2>2. /\ conn \in [Callers -> {"none", "queued", "open", "closed"}]
        /\ client \in [Callers -> {"sending", "finished", "gone"}]
        /\ arrived \in [Callers -> 0 .. S!Parts] /\ sent \in [Callers -> 0 .. S!Parts]
    BY DEF S!Parts
  <2>3. QED BY <2>1, <2>2, <2>4 DEF S!TypeOK
<1>2. PipePlaces /\ S!EventsAreCurrent
  BY DEF PipePlaces, S!EventsAreCurrent
<1>3. HttpAnswers /\ EchoAnswers
  BY DEF HttpAnswers, EchoAnswers, Unanswered, S!Taken, S!Running
<1>4. QED BY <1>1, <1>2, <1>3 DEF PipeInv

\* The connections waiting, and what an event that is read again can be.
LEMMA ReadyFacts ==
  ASSUME S!TypeOK
  PROVE  /\ IsFiniteSet(S!Ready) /\ S!Ready \subseteq {S!Stop, S!Listener} \cup Callers
         /\ \A e \in S!Ready : /\ e = S!Stop => stopped
                               /\ e = S!Listener => backlog # <<>>
                               /\ e \in Callers => conn[e] = "open" /\ pipeServer \in S!Echo
<1> USE ServersAssumption
<1>1. S!Ready \subseteq {S!Stop, S!Listener} \cup Callers
  BY DEF S!Ready
<1>2. IsFiniteSet({S!Stop, S!Listener} \cup Callers)
  <2>1. IsFiniteSet(Callers \cup {S!Stop})
    BY FS_AddElement
  <2>2. IsFiniteSet((Callers \cup {S!Stop}) \cup {S!Listener})
    BY <2>1, FS_AddElement
  <2>3. (Callers \cup {S!Stop}) \cup {S!Listener} = {S!Stop, S!Listener} \cup Callers
    OBVIOUS
  <2>4. QED BY <2>2, <2>3
<1>3. IsFiniteSet(S!Ready)
  BY <1>1, <1>2, FS_Subset
<1>4. ASSUME NEW e \in S!Ready
      PROVE  /\ e = S!Stop => stopped
             /\ e = S!Listener => backlog # <<>>
             /\ e \in Callers => conn[e] = "open" /\ pipeServer \in S!Echo
  BY DEF S!Ready, S!Readable, S!Stop, S!Listener
<1>5. QED BY <1>1, <1>3, <1>4

\* What may be answered only grows.
LEMMA MoreMayBeGot ==
  ASSUME NEW file, pipeServer' = pipeServer, stopped => stopped'
  PROVE  S!MayGet(file) \subseteq S!MayGet(file)'
<1>1. S!MayAnswer(file)' = S!MayAnswer(file)
  BY DEF S!MayAnswer
<1>2. QED BY <1>1 DEF S!MayGet

\* An answer on its way stays so, whatever else happens.
LEMMA StillAnswering ==
  ASSUME NEW c \in Callers, Answering(c),
         UNCHANGED <<pipeServer, wants, due, replies>>, stopped => stopped',
         S!Taken(c)' = S!Taken(c), client[c] = "gone" => client'[c] = "gone",
         doing' \in {"answer", "blocked", "returned", "killed"},
         doing' \in {"answer", "blocked"} => Head(events') = c,
         doing' = "returned" => due = <<>>
  PROVE  Answering(c)'
<1>1. PICK answer \in Seq(S!Words) : OnTheWay(c, answer)
  BY DEF Answering
<1>2. S!MayGet(wants[c]) \subseteq S!MayGet(wants[c])'
  <2>1. ASSUME NEW file, file = wants[c] PROVE S!MayGet(file) \subseteq S!MayGet(wants[c])'
    <3>1. S!MayGet(file)' = S!MayGet(wants[c])'
      BY <2>1 DEF S!MayGet, S!MayAnswer
    <3>2. QED BY <3>1, MoreMayBeGot
  <2>2. QED BY <2>1
<1>3. OnTheWay(c, answer)'
  BY <1>1, <1>2 DEF OnTheWay
<1>4. QED BY <1>3 DEF Answering

\* As long as nobody is answered, nothing is due.
LEMMA QuietStep ==
  ASSUME PipeInv, doing \in {"wait", "event"}, doing' \in {"wait", "event", "request", "echo"},
         UNCHANGED <<pipeServer, wants, client, sent, arrived, due, replies, paused, stopped>>,
         \A c \in Callers : conn'[c] = "closed" => conn[c] = "closed"
  PROVE  HttpAnswers' /\ EchoAnswers'
<1>1. HttpAnswers'
  BY DEF PipeInv, HttpAnswers, Answering, Unanswered, S!Running
<1>2. EchoAnswers'
  BY DEF PipeInv, EchoAnswers, S!Taken, S!Running
<1>3. QED BY <1>1, <1>2

\* epoll_wait returns ready descriptors, each once.
LEMMA PollStep == PipeInv /\ S!Poll => PipeInv'
<1> SUFFICES ASSUME PipeInv, S!Poll PROVE PipeInv'
  OBVIOUS
<1> DEFINE R == S!Ready
<1>1. /\ doing = "wait" /\ doing' = "event"
      /\ UNCHANGED <<pipeServer, wants, signals, client, sent, errno, stopped, backlog, conn,
                     arrived, due, replies, paused>>
      /\ \/ pipeServer \in S!Http /\ \E e \in R : events' = <<e>>
         \/ pipeServer \notin S!Http /\ events' \in S!SetToSeqs(R)
  BY DEF S!Poll, S!Environment
<1>2. /\ IsFiniteSet(R) /\ R \subseteq {S!Stop, S!Listener} \cup Callers
      /\ \A e \in R : /\ e = S!Stop => stopped
                      /\ e = S!Listener => backlog # <<>>
                      /\ e \in Callers => conn[e] = "open" /\ pipeServer \in S!Echo
  BY ReadyFacts DEF PipeInv
<1> HIDE DEF R
<1>3. events' \in Seq(R) /\ \A j, k \in DOMAIN events' : events'[j] = events'[k] => j = k
  <2>1. CASE \E e \in R : events' = <<e>>
    BY <2>1
  <2>2. CASE events' \in S!SetToSeqs(R)
    <3>1. Cardinality(R) \in Nat
      BY <1>2, FS_CardinalityType
    <3>2. /\ events' \in [1 .. Cardinality(R) -> R]
          /\ \A i, j \in 1 .. Cardinality(R) : events'[i] = events'[j] => i = j
      BY <2>2 DEF S!SetToSeqs, S!IsInjective, S!Cardinality, S!IsFiniteSet, Cardinality, IsFiniteSet
    <3>3. QED BY <3>1, <3>2
  <2>3. QED BY <1>1, <2>1, <2>2
<1>4. \A k \in DOMAIN events' : events'[k] \in R
  BY <1>3
<1>5. S!TypeOK'
  <2>1. events' \in Seq({S!Stop, S!Listener} \cup Callers)
    BY <1>2, <1>3
  <2>2. QED BY <1>1, <2>1 DEF PipeInv, S!TypeOK
<1>6. PipePlaces'
  BY <1>1, <1>2, <1>4 DEF PipeInv, PipePlaces, S!Http, S!Echo
<1>7. S!EventsAreCurrent'
  BY <1>1, <1>2, <1>3, <1>4 DEF S!EventsAreCurrent
<1>8. HttpAnswers' /\ EchoAnswers'
  BY <1>1, QuietStep
<1>9. QED BY <1>5, <1>6, <1>7, <1>8 DEF PipeInv

\* A step that only leads from one place to another.
LEMMA EventStep ==
  ASSUME PipeInv,
         \/ S!EndOfEvents
         \/ \E c \in Callers : S!HandleClient(c)
  PROVE  PipeInv'
<1>1. /\ doing = "event"
      /\ \/ doing' = "wait"
         \/ doing' = "echo" /\ events # <<>> /\ Head(events) \in Callers
      /\ UNCHANGED <<pipeServer, wants, signals, client, sent, events, errno, stopped,
                     backlog, conn, arrived, due, replies, paused>>
  BY DEF S!EndOfEvents, S!HandleClient, S!NextIs, S!Environment
<1>2. S!TypeOK' /\ S!EventsAreCurrent'
  BY <1>1 DEF PipeInv, S!TypeOK, S!EventsAreCurrent
<1>3. doing' = "echo" => pipeServer \notin S!Http
  <2>1. events # <<>> => Head(events) = events[1] /\ 1 \in DOMAIN events
    BY DEF PipeInv, S!TypeOK
  <2>2. QED BY <1>1, <2>1 DEF PipeInv, PipePlaces
<1>4. PipePlaces'
  BY <1>1, <1>3 DEF PipeInv, PipePlaces
<1>5. HttpAnswers' /\ EchoAnswers'
  BY <1>1, QuietStep
<1>6. QED BY <1>2, <1>4, <1>5 DEF PipeInv

\* Events that have been handled leave the others as they are.
LEMMA Behind ==
  ASSUME NEW V, NEW q \in Seq(V), q # <<>>,
         \A j, k \in DOMAIN q : q[j] = q[k] => j = k
  PROVE  /\ 1 \in DOMAIN q /\ Head(q) = q[1] /\ Tail(q) \in Seq(V)
         /\ \A k \in DOMAIN Tail(q) : /\ k + 1 \in DOMAIN q /\ Tail(q)[k] = q[k + 1]
                                      /\ Tail(q)[k] # Head(q)
         /\ \A j, k \in DOMAIN Tail(q) : Tail(q)[j] = Tail(q)[k] => j = k
<1>1. DOMAIN q = 1 .. Len(q) /\ Len(q) \in Nat \ {0} /\ Head(q) = q[1]
  OBVIOUS
<1>2. /\ Tail(q) \in Seq(V) /\ DOMAIN Tail(q) = 1 .. Len(q) - 1
      /\ \A k \in 1 .. Len(q) - 1 : Tail(q)[k] = q[k + 1]
  BY <1>1
<1>3. \A k \in DOMAIN Tail(q) : k + 1 \in DOMAIN q /\ Tail(q)[k] = q[k + 1] /\ k + 1 # 1
  BY <1>1, <1>2
<1>4. \A j, k \in DOMAIN Tail(q) : Tail(q)[j] = Tail(q)[k] => j = k
  <2>1. ASSUME NEW j \in DOMAIN Tail(q), NEW k \in DOMAIN Tail(q), Tail(q)[j] = Tail(q)[k]
        PROVE  j = k
    <3>1. j + 1 = k + 1 /\ j \in Nat /\ k \in Nat
      BY <1>2, <1>3, <2>1
    <3>2. QED BY <3>1
  <2>2. QED BY <2>1
<1>5. QED BY <1>1, <1>2, <1>3, <1>4

\* inf17-1.c: the loop goes on to the next event.
LEMMA NextEvent ==
  ASSUME PipeInv, pipeServer \in S!Echo, doing = "event", events # <<>>, events' = Tail(events),
         UNCHANGED <<pipeServer, wants, signals, client, sent, doing, errno, stopped,
                     backlog, conn, arrived, due, replies, paused>>
  PROVE  PipeInv'
<1>1. /\ Tail(events) \in Seq({S!Stop, S!Listener} \cup Callers)
      /\ \A k \in DOMAIN Tail(events) : k + 1 \in DOMAIN events /\ Tail(events)[k] = events[k + 1]
      /\ \A j, k \in DOMAIN Tail(events) : Tail(events)[j] = Tail(events)[k] => j = k
  BY Behind DEF PipeInv, S!TypeOK, S!EventsAreCurrent
<1>2. S!TypeOK'
  BY <1>1 DEF PipeInv, S!TypeOK
<1>3. PipePlaces'
  BY DEF PipeInv, PipePlaces, S!Http, S!Echo
<1>4. S!EventsAreCurrent'
  BY <1>1 DEF PipeInv, S!EventsAreCurrent
<1>5. HttpAnswers' /\ EchoAnswers'
  BY QuietStep
<1>6. QED BY <1>2, <1>3, <1>4, <1>5 DEF PipeInv

\* The end of a server.
LEMMA EndStep ==
  ASSUME PipeInv, events' = <<>>, doing' \in {"returned", "killed"},
         UNCHANGED <<pipeServer, wants, signals, client, sent, errno, stopped, backlog,
                     arrived, due, replies, paused>>,
         conn' \in {conn, [c \in Callers |-> IF conn[c] = "open" THEN "closed" ELSE conn[c]]},
         doing \notin {"returned", "killed"},
         doing' = "returned" => \/ stopped /\ doing = "event"
                                \/ doing = "answer" /\ due = <<>>
  PROVE  PipeInv'
<1>1. S!TypeOK'
  BY DEF PipeInv, S!TypeOK
<1>2. PipePlaces' /\ S!EventsAreCurrent'
  BY DEF PipeInv, PipePlaces, S!EventsAreCurrent
<1>3. HttpAnswers'
  <2>1. CASE pipeServer \in S!Http /\ Unanswered
    <3>1. Unanswered'
      BY <2>1 DEF Unanswered, S!Running
    <3>2. QED BY <3>1 DEF HttpAnswers
  <2>2. ASSUME pipeServer \in S!Http, NEW c \in Callers, Answering(c) PROVE HttpAnswers'
    <3>1. S!Taken(c)' = S!Taken(c)
      BY DEF S!Taken
    <3>2. doing' = "returned" => due = <<>>
      BY <2>2 DEF Answering
    <3>3. Answering(c)'
      BY <2>2, <3>1, <3>2, StillAnswering
    <3>4. QED BY <3>3 DEF HttpAnswers
  <2>3. QED BY <2>1, <2>2 DEF PipeInv, HttpAnswers
<1>4. EchoAnswers'
  BY DEF PipeInv, PipePlaces, EchoAnswers, S!Taken, S!Running
<1>5. QED BY <1>1, <1>2, <1>3, <1>4 DEF PipeInv

\* The stop pipe, the end of an answer, and a write to a client that has gone.
LEMMA StopStep ==
  ASSUME PipeInv,
         \/ S!HandleStopHttp \/ S!HandleStopEcho \/ S!BrokenPipe \/ S!Crash \/ S!Answered
  PROVE  PipeInv'
<1>1. S!NextIs(S!Stop) => stopped
  <2>1. events # <<>> => Head(events) = events[1] /\ 1 \in DOMAIN events
    BY DEF PipeInv, S!TypeOK
  <2>2. QED BY <2>1 DEF PipeInv, S!EventsAreCurrent, S!NextIs
<1>2. CASE S!HandleStopHttp
  BY <1>1, <1>2, EndStep DEF S!HandleStopHttp, S!NextIs, S!Return, S!Environment
<1>3. CASE S!BrokenPipe \/ S!Crash
  BY <1>3, EndStep DEF S!BrokenPipe, S!Crash, S!Environment
<1>4. CASE S!HandleStopEcho /\ errno # "EAGAIN"
  BY <1>1, <1>4, EndStep DEF S!HandleStopEcho, S!NextIs, S!Return, S!Environment
<1>5. CASE S!HandleStopEcho /\ errno = "EAGAIN"
  <2>1. /\ pipeServer \in S!Echo /\ doing = "event" /\ events # <<>> /\ events' = Tail(events)
        /\ UNCHANGED <<pipeServer, wants, signals, client, sent, doing, errno, stopped,
                       backlog, conn, arrived, due, replies, paused>>
    BY <1>5 DEF S!HandleStopEcho, S!NextIs, S!Environment
  <2>2. QED BY <2>1, NextEvent
<1>6. CASE S!Answered
  BY <1>6, EndStep DEF S!Answered, S!Return, S!Environment
<1>7. QED BY <1>2, <1>3, <1>4, <1>5, <1>6

\* accept: the next event is the new client of an HTTP server, or what is left.
LEMMA AcceptStep == PipeInv /\ S!Accept => PipeInv'
<1> SUFFICES ASSUME PipeInv, S!Accept PROVE PipeInv'
  OBVIOUS
<1> DEFINE c == Head(backlog)
<1>1. /\ doing = "event" /\ events # <<>> /\ Head(events) = S!Listener
      /\ backlog' = Tail(backlog) /\ conn' = [conn EXCEPT ![c] = "open"]
      /\ \/ pipeServer \in S!Http /\ doing' = "request" /\ events' = <<c>>
         \/ pipeServer \notin S!Http /\ doing' = doing /\ events' = Tail(events)
      /\ UNCHANGED <<pipeServer, wants, signals, client, sent, errno, stopped, arrived,
                     due, replies, paused>>
  BY DEF S!Accept, S!NextIs, S!Environment
<1>2. /\ 1 \in DOMAIN events /\ events[1] = S!Listener
      /\ Tail(events) \in Seq({S!Stop, S!Listener} \cup Callers)
      /\ \A k \in DOMAIN Tail(events) : /\ k + 1 \in DOMAIN events
                                        /\ Tail(events)[k] = events[k + 1]
                                        /\ Tail(events)[k] # S!Listener
      /\ \A j, k \in DOMAIN Tail(events) : Tail(events)[j] = Tail(events)[k] => j = k
  BY <1>1, Behind DEF PipeInv, S!TypeOK, S!EventsAreCurrent
<1>3. backlog # <<>> /\ backlog \in Seq(Callers)
  BY <1>2 DEF PipeInv, S!TypeOK, S!EventsAreCurrent
<1>4. c \in Callers /\ backlog' \in Seq(Callers) /\ c # S!Stop /\ c # S!Listener
  BY <1>1, <1>3, ServersAssumption DEF S!Stop, S!Listener
<1> HIDE DEF c
<1>5. /\ conn' \in [Callers -> {"none", "queued", "open", "closed"}] /\ conn'[c] = "open"
      /\ \A d \in Callers : d # c => conn'[d] = conn[d]
  BY <1>1, <1>4 DEF PipeInv, S!TypeOK
<1>6. CASE pipeServer \in S!Http
  <2>1. doing' = "request" /\ events' = <<c>>
    BY <1>1, <1>6
  <2>2. /\ events' \in Seq({S!Stop, S!Listener} \cup Callers) /\ DOMAIN events' = {1}
        /\ events'[1] = c /\ Head(events') = c /\ events' # <<>>
    BY <1>4, <2>1
  <2>3. S!TypeOK'
    BY <1>1, <1>4, <1>5, <2>1, <2>2 DEF PipeInv, S!TypeOK
  <2>4. PipePlaces'
    BY <1>1, <1>4, <1>6, <2>1, <2>2 DEF PipeInv, PipePlaces, S!Http, S!Echo
  <2>5. S!EventsAreCurrent'
    BY <1>4, <1>5, <2>2 DEF S!EventsAreCurrent
  <2>6. HttpAnswers' /\ EchoAnswers'
    <3>1. \A d \in Callers : conn'[d] = "closed" => conn[d] = "closed"
      BY <1>5
    <3>2. QED BY <1>1, <2>1, <3>1, QuietStep
  <2>7. QED BY <2>3, <2>4, <2>5, <2>6 DEF PipeInv
<1>7. CASE pipeServer \notin S!Http
  <2>1. doing' = "event" /\ events' = Tail(events)
    BY <1>1, <1>7
  <2>2. S!TypeOK'
    BY <1>1, <1>2, <1>4, <1>5, <2>1 DEF PipeInv, S!TypeOK
  <2>3. PipePlaces'
    BY <1>1, <1>7, <2>1 DEF PipeInv, PipePlaces
  <2>4. S!EventsAreCurrent'
    <3>1. \A k \in DOMAIN events' : k + 1 \in DOMAIN events /\ events'[k] = events[k + 1]
                                    /\ events'[k] # S!Listener
      BY <1>2, <2>1
    <3>2. QED BY <1>1, <1>2, <1>5, <2>1, <3>1 DEF PipeInv, S!EventsAreCurrent
  <2>5. HttpAnswers' /\ EchoAnswers'
    <3>1. \A d \in Callers : conn'[d] = "closed" => conn[d] = "closed"
      BY <1>5
    <3>2. QED BY <1>1, <2>1, <3>1, QuietStep
  <2>6. QED BY <2>2, <2>3, <2>4, <2>5 DEF PipeInv
<1>8. QED BY <1>6, <1>7

\* inf17-1.c: a part is read, and sent back as far as the client's buffer takes it.
LEMMA EchoPartStep == ASSUME PipeInv, NEW c \in Callers, S!EchoPart(c) PROVE PipeInv'
<1>1. /\ doing = "echo" /\ Head(events) = c /\ arrived[c] > 0
      /\ arrived' = [arrived EXCEPT ![c] = arrived[c] - 1]
      /\ \/ replies' = replies /\ (client[c] = "gone" \/ c \in SlowCallers)
         \/ \E w \in S!Words : /\ w = "part" \/ c \in SlowCallers
                               /\ replies' = [replies EXCEPT ![c] = Append(replies[c], w)]
      /\ errno' \in {errno, "EAGAIN", "other"}
      /\ UNCHANGED <<pipeServer, wants, signals, client, sent, doing, events, stopped,
                     backlog, conn, due, paused>>
  BY DEF S!EchoPart, S!Environment, S!Words
<1>2. pipeServer \in S!Echo /\ pipeServer \notin S!Http
  BY <1>1 DEF PipeInv, PipePlaces, S!TypeOK, S!Http, S!Echo
<1>3. /\ \A d \in Callers : arrived[d] \in 0 .. S!Parts /\ sent[d] \in 0 .. S!Parts
      /\ arrived \in [Callers -> 0 .. S!Parts] /\ replies \in [Callers -> Seq(S!Words)]
      /\ S!Parts \in Nat
  BY DEF PipeInv, S!TypeOK, S!Parts
<1>4. /\ arrived' \in [Callers -> 0 .. S!Parts] /\ arrived'[c] = arrived[c] - 1
      /\ \A d \in Callers : d # c => arrived'[d] = arrived[d]
  BY <1>1, <1>3
<1>5. /\ \A d \in Callers : d # c => S!Taken(d)' = S!Taken(d)
      /\ S!Taken(c) \in Nat /\ S!Taken(c)' = S!Taken(c) + 1
  BY <1>1, <1>3, <1>4 DEF S!Taken, PipeInv, PipePlaces
<1>6. conn[c] = "open"
  <2>1. events # <<>> /\ events \in Seq({S!Stop, S!Listener} \cup Callers)
    BY <1>1 DEF PipeInv, PipePlaces, S!TypeOK
  <2>2. 1 \in DOMAIN events /\ events[1] = c
    BY <1>1, <2>1
  <2>3. QED BY <2>2 DEF PipeInv, S!EventsAreCurrent
<1>7. /\ replies' \in [Callers -> Seq(S!Words)]
      /\ \A d \in Callers : d # c => replies'[d] = replies[d]
      /\ Len(replies'[c]) <= Len(replies[c]) + 1
      /\ client[c] # "gone" /\ c \notin SlowCallers => replies'[c] = Append(replies[c], "part")
  <2>1. CASE replies' = replies /\ (client[c] = "gone" \/ c \in SlowCallers)
    BY <1>3, <2>1
  <2>2. ASSUME NEW w \in S!Words, w = "part" \/ c \in SlowCallers,
               replies' = [replies EXCEPT ![c] = Append(replies[c], w)]
        PROVE  <1>7!2 /\ <1>7!3 /\ <1>7!4 /\ replies' \in [Callers -> Seq(S!Words)]
    <3>1. Append(replies[c], w) \in Seq(S!Words) /\ Len(Append(replies[c], w)) = Len(replies[c]) + 1
      BY <1>3
    <3>2. replies'[c] = Append(replies[c], w)
      BY <1>3, <2>2
    <3>3. QED BY <1>3, <2>2, <3>1, <3>2
  <2>3. QED BY <1>1, <2>1, <2>2
<1>8. S!TypeOK'
  BY <1>1, <1>4, <1>7 DEF PipeInv, S!TypeOK
<1>9. PipePlaces'
  <2>1. \A d \in Callers : arrived'[d] <= sent'[d]
    BY <1>1, <1>3, <1>4 DEF PipeInv, PipePlaces
  <2>2. QED BY <1>1, <1>2, <2>1 DEF PipeInv, PipePlaces
<1>10. S!EventsAreCurrent'
  BY <1>1 DEF PipeInv, S!EventsAreCurrent
<1>11. HttpAnswers'
  BY <1>1, <1>2 DEF HttpAnswers
<1>12. EchoAnswers'
  <2>1. \A d \in Callers : Len(replies'[d]) <= S!Taken(d)'
    <3>1. \A d \in Callers : Len(replies[d]) <= S!Taken(d) /\ Len(replies[d]) \in Nat
      BY <1>2, <1>3 DEF PipeInv, EchoAnswers
    <3>2. Len(replies'[c]) <= S!Taken(c)'
      <4>1. Len(replies'[c]) \in Nat
        BY <1>7
      <4>2. QED BY <1>5, <1>7, <3>1, <4>1
    <3>3. QED BY <1>5, <1>7, <3>1, <3>2
  <2>2. ASSUME NEW d \in Callers, client'[d] # "gone", d \notin SlowCallers
        PROVE  replies'[d] = [k \in 1 .. S!Taken(d)' |-> "part"]
    <3>1. replies[d] = [k \in 1 .. S!Taken(d) |-> "part"]
      BY <1>1, <1>2, <2>2 DEF PipeInv, EchoAnswers
    <3>2. CASE d # c
      BY <1>5, <1>7, <3>1, <3>2
    <3>3. ASSUME NEW n \in Nat PROVE Append([k \in 1 .. n |-> "part"], "part") = [k \in 1 .. n + 1 |-> "part"]
      OBVIOUS
    <3>4. CASE d = c
      BY <1>1, <1>5, <1>7, <2>2, <3>1, <3>3, <3>4
    <3>5. QED BY <3>2, <3>4
  <2>3. \A d \in Callers : conn'[d] = "closed" => arrived'[d] = arrived[d]
    BY <1>1, <1>4, <1>6
  <2>4. \A d \in Callers : S!Running /\ conn'[d] = "closed" /\ ~paused'[d] => arrived'[d] = 0
    BY <1>1, <1>2, <2>3 DEF PipeInv, EchoAnswers
  <2>5. QED BY <1>1, <1>2, <2>1, <2>2, <2>4 DEF PipeInv, EchoAnswers, S!Running
<1>13. QED BY <1>8, <1>9, <1>10, <1>11, <1>12 DEF PipeInv

\* inf17-1.c: a read that ends or would block closes the connection.
LEMMA EchoEndStep == ASSUME PipeInv, NEW c \in Callers, S!EchoEnd(c) PROVE PipeInv'
<1>1. /\ doing = "echo" /\ Head(events) = c /\ arrived[c] = 0
      /\ errno' \in {"none", "EAGAIN", "EINTR", "other"}
      /\ paused' = [paused EXCEPT ![c] = client[c] = "sending"]
      /\ conn' = [conn EXCEPT ![c] = "closed"]
      /\ doing' = "event" /\ events' = Tail(events)
      /\ UNCHANGED <<pipeServer, wants, signals, client, sent, stopped, backlog, arrived,
                     due, replies>>
  <2>1. client[c] \in {"sending", "finished", "gone"} /\ errno \in {"none", "EAGAIN", "EINTR", "other"}
    BY DEF PipeInv, S!TypeOK
  <2>2. QED BY <2>1 DEF S!EchoEnd, S!Environment
<1>2. pipeServer \in S!Echo /\ pipeServer \notin S!Http
  BY <1>1 DEF PipeInv, PipePlaces, S!TypeOK, S!Http, S!Echo
<1>3. events # <<>>
  BY <1>1 DEF PipeInv, PipePlaces
<1>4. /\ events' \in Seq({S!Stop, S!Listener} \cup Callers)
      /\ \A k \in DOMAIN events' : /\ k + 1 \in DOMAIN events
                                   /\ events'[k] = events[k + 1] /\ events'[k] # c
      /\ \A j, k \in DOMAIN events' : events'[j] = events'[k] => j = k
  <2>1. /\ events \in Seq({S!Stop, S!Listener} \cup Callers)
        /\ \A j, k \in DOMAIN events : events[j] = events[k] => j = k
    BY DEF PipeInv, S!TypeOK, S!EventsAreCurrent
  <2>2. QED BY <1>1, <1>3, <2>1, Behind
<1>5. /\ conn' \in [Callers -> {"none", "queued", "open", "closed"}]
      /\ \A d \in Callers : d # c => conn'[d] = conn[d]
  BY <1>1 DEF PipeInv, S!TypeOK
<1>6. /\ paused' \in [Callers -> BOOLEAN]
      /\ \A d \in Callers : d # c => paused'[d] = paused[d]
  BY <1>1 DEF PipeInv, S!TypeOK
<1>7. S!TypeOK'
  BY <1>1, <1>4, <1>5, <1>6 DEF PipeInv, S!TypeOK
<1>8. PipePlaces'
  BY <1>1, <1>2 DEF PipeInv, PipePlaces
<1>9. S!EventsAreCurrent'
  BY <1>1, <1>4, <1>5 DEF PipeInv, S!EventsAreCurrent
<1>10. HttpAnswers'
  BY <1>1, <1>2 DEF HttpAnswers
<1>11. EchoAnswers'
  <2>1. \A d \in Callers : conn'[d] = "closed" /\ ~paused'[d] => arrived'[d] = 0
    BY <1>1, <1>2, <1>5, <1>6 DEF PipeInv, EchoAnswers, S!Running
  <2>2. QED BY <1>1, <1>2, <2>1 DEF PipeInv, EchoAnswers, S!Taken, S!Running
<1>12. QED BY <1>7, <1>8, <1>9, <1>10, <1>11 DEF PipeInv

\* inf16-1.c, inf16-2.c: the request is read, and the answer chosen.
LEMMA ReadRequestStep == ASSUME PipeInv, NEW c \in Callers, S!ReadRequest(c) PROVE PipeInv'
<1>1. /\ doing = "request" /\ Head(events) = c /\ doing' = "answer"
      /\ arrived' = [arrived EXCEPT ![c] = 0]
      /\ \E file \in IF arrived[c] = 0 THEN Files ELSE {wants[c]} : due' \in S!MayAnswer(file)
      /\ UNCHANGED <<pipeServer, wants, signals, client, sent, events, errno, stopped,
                     backlog, conn, replies, paused>>
  BY DEF S!ReadRequest, S!Environment
<1>2. pipeServer \notin S!Echo /\ pipeServer \in S!Http /\ events # <<>>
  BY <1>1 DEF PipeInv, PipePlaces, S!TypeOK, S!Http, S!Echo
<1>3. /\ \A d \in Callers : arrived[d] \in 0 .. S!Parts /\ sent[d] \in 0 .. S!Parts
      /\ arrived \in [Callers -> 0 .. S!Parts] /\ S!Parts \in Nat
  BY DEF PipeInv, S!TypeOK, S!Parts
<1>4. /\ arrived' \in [Callers -> 0 .. S!Parts] /\ arrived'[c] = 0
      /\ \A d \in Callers : arrived'[d] <= arrived[d]
  BY <1>1, <1>3
<1>5. PICK file : /\ due' \in S!MayAnswer(file)
                  /\ arrived[c] # 0 => file = wants[c]
  BY <1>1
<1>6. /\ due' \in Seq(S!Words) /\ due' # <<>> /\ due' \in S!MayGet(file)
      /\ \A k \in 1 .. Len(due') : due'[k] = "content" => k = Len(due')
  BY <1>5, AnswerFacts
<1>7. S!TypeOK' /\ S!EventsAreCurrent'
  BY <1>1, <1>4, <1>6 DEF PipeInv, S!TypeOK, S!EventsAreCurrent
<1>8. Unanswered
  BY <1>1, <1>2 DEF PipeInv, HttpAnswers, Answering
<1>9. PipePlaces'
  <2>1. \A d \in Callers : arrived'[d] <= sent'[d]
    <3>1. \A d \in Callers : arrived[d] <= sent[d] /\ arrived'[d] \in 0 .. S!Parts
      BY <1>4 DEF PipeInv, PipePlaces
    <3>2. QED BY <1>1, <1>3, <1>4, <3>1
  <2>2. QED BY <1>1, <1>2, <2>1 DEF PipeInv, PipePlaces
<1>10. Answering(c)'
  <2>1. S!Taken(c)' > 0 => due' \in S!MayGet(wants[c])'
    <3>1. S!Taken(c)' > 0 => arrived[c] # 0
      BY <1>1, <1>3, <1>4, <1>8 DEF S!Taken, Unanswered, S!Running
    <3>2. S!MayGet(file) = S!MayGet(file)'
      BY <1>1 DEF S!MayGet, S!MayAnswer
    <3>3. file = wants[c] => S!MayGet(file)' = S!MayGet(wants[c])'
      BY <1>1 DEF S!MayGet, S!MayAnswer
    <3>4. QED BY <1>5, <1>6, <3>1, <3>2, <3>3
  <2>2. \A d \in Callers : replies'[d] = <<>>
    BY <1>1, <1>8 DEF Unanswered
  <2>3. Len(replies'[c]) = 0 /\ Len(due') \in Nat /\ Len(due') - Len(due') = 0
    BY <1>6, <2>2
  <2>4. \A k \in 1 .. Len(due') : due'[k] = due'[Len(due') - Len(due') + k]
    BY <2>3
  <2>5. \A k \in 1 .. Len(replies'[c]) : replies'[c][k] = due'[k]
    BY <2>3
  <2>6. OnTheWay(c, due)'
    BY <1>6, <2>1, <2>3, <2>4, <2>5 DEF OnTheWay
  <2>7. QED BY <1>1, <1>6, <2>2, <2>6 DEF Answering
<1>11. HttpAnswers' /\ EchoAnswers'
  BY <1>1, <1>2, <1>10 DEF HttpAnswers, EchoAnswers
<1>12. QED BY <1>7, <1>9, <1>11 DEF PipeInv

\* A write that has to wait.
LEMMA BlockStep == ASSUME PipeInv, NEW c \in Callers, S!WriteBlocks(c) PROVE PipeInv'
<1>1. /\ doing = "answer" /\ Head(events) = c /\ due # <<>> /\ doing' = "blocked"
      /\ UNCHANGED <<pipeServer, wants, signals, client, sent, events, errno, stopped,
                     backlog, conn, arrived, due, replies, paused>>
  BY DEF S!WriteBlocks, S!Environment
<1>2. pipeServer \notin S!Echo /\ pipeServer \in S!Http
  BY <1>1 DEF PipeInv, PipePlaces, S!TypeOK, S!Http, S!Echo
<1>3. S!TypeOK' /\ S!EventsAreCurrent' /\ PipePlaces'
  BY <1>1, <1>2 DEF PipeInv, S!TypeOK, S!EventsAreCurrent, PipePlaces
<1>4. PICK d \in Callers : Answering(d)
  BY <1>1, <1>2 DEF PipeInv, HttpAnswers, Unanswered
<1>5. Answering(d)'
  <2>1. S!Taken(d)' = S!Taken(d)
    BY <1>1 DEF S!Taken
  <2>2. Head(events') = d
    BY <1>1, <1>4 DEF Answering
  <2>3. QED BY <1>1, <1>4, <2>1, <2>2, StillAnswering
<1>6. HttpAnswers' /\ EchoAnswers'
  BY <1>1, <1>2, <1>5 DEF HttpAnswers, EchoAnswers
<1>7. QED BY <1>3, <1>6 DEF PipeInv

\* A word of the answer is written, or a piece of the content when a signal comes.
LEMMA WordStep ==
  ASSUME PipeInv, NEW c \in Callers, NEW w, doing \in {"answer", "blocked"}, Head(events) = c,
         due # <<>>, due' = Tail(due), doing' = "answer",
         w = Head(due) \/ (w = "piece" /\ Head(due) = "content" /\ stopped'),
         S!Written(c, w), stopped => stopped', stopped' \in BOOLEAN,
         signals' \in 0 .. MaxSignals, errno' = errno,
         UNCHANGED <<pipeServer, wants, client, sent, arrived, backlog, conn, events, paused>>
  PROVE  PipeInv'
<1>1. pipeServer \notin S!Echo /\ pipeServer \in S!Http /\ events # <<>>
  BY DEF PipeInv, PipePlaces, S!TypeOK, S!Http, S!Echo
<1>2. PICK d \in Callers : Answering(d)
  BY <1>1 DEF PipeInv, HttpAnswers, Unanswered
<1>3. d = c
  BY <1>2 DEF Answering
<1>4. PICK answer \in Seq(S!Words) : OnTheWay(c, answer)
  BY <1>2, <1>3 DEF Answering
<1>5. /\ due \in Seq(S!Words) /\ replies \in [Callers -> Seq(S!Words)]
      /\ replies[c] \in Seq(S!Words)
  BY DEF PipeInv, S!TypeOK
<1> DEFINE n == Len(answer)
           m == Len(due)
<1>6. n \in Nat /\ m \in Nat \ {0} /\ m <= n /\ Len(replies[c]) \in Nat
  BY <1>4, <1>5 DEF OnTheWay
<1>7. /\ Tail(due) \in Seq(S!Words) /\ Len(Tail(due)) = m - 1
      /\ \A k \in 1 .. m - 1 : Tail(due)[k] = due[k + 1]
      /\ Head(due) = due[1] /\ Head(due) \in S!Words
  BY <1>5, <1>6
<1>8. w \in S!Words
  BY <1>7 DEF S!Words
<1>9. Head(due) = answer[n - m + 1] /\ n - m + 1 \in 1 .. n
  BY <1>4, <1>6, <1>7 DEF OnTheWay
<1>10. Head(due) = "content" => m = 1
  <2>1. Head(due) = "content" => n - m + 1 = n
    BY <1>4, <1>9 DEF OnTheWay
  <2>2. n - m + 1 = n => m = 1
    <3>1. ASSUME NEW i \in Nat, NEW j \in Nat, i - j + 1 = i PROVE j = 1
      BY <3>1
    <3>2. QED BY <1>6, <3>1
  <2>3. QED BY <2>1, <2>2
<1>11. PICK now : now = [answer EXCEPT ![n - m + 1] = w]
  OBVIOUS
<1>12. /\ now \in Seq(S!Words) /\ Len(now) = n /\ now # <<>> /\ now[n - m + 1] = w
       /\ \A k \in 1 .. n : k # n - m + 1 => now[k] = answer[k]
  BY <1>4, <1>6, <1>8, <1>9, <1>11
<1>13. w # Head(due) => m = 1 /\ w = "piece" /\ stopped' /\ answer[n] = "content" /\ n - m + 1 = n
  <2>1. m = 1 => n - m + 1 = n
    BY <1>6
  <2>2. QED BY <1>9, <1>10, <2>1
<1>14. S!Taken(c)' > 0 => now \in S!MayGet(wants[c])'
  <2>1. SUFFICES ASSUME S!Taken(c)' > 0 PROVE now \in S!MayGet(wants[c])'
    OBVIOUS
  <2>2. S!Taken(c)' = S!Taken(c)
    BY DEF S!Taken
  <2>3. answer \in S!MayGet(wants[c])
    BY <1>4, <2>1, <2>2 DEF OnTheWay
  <2>4. ASSUME NEW file, file = wants[c]
        PROVE  now \in S!MayGet(file)' /\ S!MayGet(file)' = S!MayGet(wants[c])'
    <3>1. S!MayGet(file)' = S!MayGet(wants[c])'
      BY <2>4 DEF S!MayGet, S!MayAnswer
    <3>2. CASE w = Head(due)
      <4>1. now = answer
        BY <1>4, <1>9, <1>11, <3>2
      <4>2. QED BY <2>3, <2>4, <3>1, <4>1, MoreMayBeGot
    <3>3. CASE w # Head(due)
      <4>1. now = [answer EXCEPT ![Len(answer)] = "piece"]
        BY <1>13, <1>11, <3>3
      <4>2. QED BY <1>13, <2>3, <2>4, <3>1, <3>3, <4>1, PieceFacts
    <3>4. QED BY <3>2, <3>3
  <2>5. QED BY <2>4
<1>15. \A k \in 1 .. n : now[k] = "content" => k = n
  BY <1>4, <1>6, <1>9, <1>10, <1>12, <1>13 DEF OnTheWay
<1>16. /\ replies' \in [Callers -> Seq(S!Words)]
       /\ \A e \in Callers : e # c => replies'[e] = replies[e]
       /\ IF client[c] = "gone" THEN replies'[c] = replies[c]
                                ELSE replies'[c] = Append(replies[c], w)
  <2>1. Append(replies[c], w) \in Seq(S!Words)
    BY <1>5, <1>8
  <2>2. QED BY <1>5, <2>1 DEF S!Written
<1>17. /\ Len(replies'[c]) <= n - (m - 1)
       /\ client[c] # "gone" => Len(replies'[c]) = n - (m - 1)
       /\ \A k \in 1 .. Len(replies'[c]) : replies'[c][k] = now[k]
  <2>1. Len(replies[c]) <= n - m /\ \A k \in 1 .. Len(replies[c]) : replies[c][k] = answer[k]
    BY <1>4 DEF OnTheWay
  <2>2. \A k \in 1 .. Len(replies[c]) : replies[c][k] = now[k]
    BY <1>6, <1>12, <2>1
  <2>3. CASE client[c] = "gone"
    BY <1>6, <1>16, <2>1, <2>2, <2>3
  <2>4. CASE client[c] # "gone"
    <3>1. Len(replies[c]) = n - m
      BY <1>4, <2>4 DEF OnTheWay
    <3>2. replies'[c] = Append(replies[c], w)
      BY <1>16, <2>4
    <3>3. ASSUME NEW q \in Seq(S!Words), q = replies[c]
          PROVE  /\ Len(Append(q, w)) = Len(q) + 1 /\ Append(q, w)[Len(q) + 1] = w
                 /\ \A k \in 1 .. Len(q) : Append(q, w)[k] = q[k]
      BY <1>8
    <3>4. /\ Len(replies'[c]) = n - m + 1 /\ replies'[c][n - m + 1] = w
          /\ \A k \in 1 .. n - m : replies'[c][k] = replies[c][k]
      BY <1>5, <3>1, <3>2, <3>3
    <3>5. ASSUME NEW k \in 1 .. n - m + 1 PROVE replies'[c][k] = now[k]
      <4>1. CASE k = n - m + 1
        BY <1>12, <3>4, <4>1
      <4>2. CASE k # n - m + 1
        <5>1. k \in 1 .. n - m
          BY <1>6, <4>2
        <5>2. QED BY <2>2, <3>1, <3>4, <5>1
      <4>3. QED BY <4>1, <4>2
    <3>6. n - m + 1 = n - (m - 1)
      BY <1>6
    <3>7. QED BY <3>4, <3>5, <3>6
  <2>5. QED BY <2>3, <2>4
<1>18. \A k \in 1 .. m - 1 : due'[k] = now[n - (m - 1) + k]
  <2>1. ASSUME NEW k \in 1 .. m - 1 PROVE due'[k] = now[n - (m - 1) + k]
    <3>1. due'[k] = answer[n - m + (k + 1)] /\ k + 1 \in 1 .. m
      BY <1>4, <1>6, <1>7 DEF OnTheWay
    <3>2. n - m + (k + 1) = n - (m - 1) + k /\ n - m + (k + 1) \in 1 .. n
          /\ n - m + (k + 1) # n - m + 1
      BY <1>6
    <3>3. QED BY <1>12, <3>1, <3>2
  <2>2. QED BY <2>1
<1>19. OnTheWay(c, now)'
  <2>1. Len(due') = m - 1 /\ Len(now) = n
    BY <1>7, <1>12
  <2>2. m - 1 <= n
    BY <1>6
  <2>3. \A k \in 1 .. Len(now) : now[k] = "content" => k = Len(now)
    BY <1>15, <2>1
  <2>4. Len(due') <= Len(now) /\ Len(replies'[c]) <= Len(now) - Len(due')
    BY <1>17, <2>1, <2>2
  <2>5. \A k \in 1 .. Len(due') : due'[k] = now[Len(now) - Len(due') + k]
    BY <1>18, <2>1
  <2>6. \A k \in 1 .. Len(replies'[c]) : replies'[c][k] = now[k]
    BY <1>17
  <2>7. client'[c] # "gone" => Len(replies'[c]) = Len(now) - Len(due')
    BY <1>17, <2>1
  <2>8. QED BY <1>12, <1>14, <2>3, <2>4, <2>5, <2>6, <2>7 DEF OnTheWay
<1>20. Answering(c)'
  <2>1. \A e \in Callers : e # c => replies'[e] = <<>>
    BY <1>2, <1>3, <1>16 DEF Answering
  <2>2. QED BY <1>12, <1>19, <2>1 DEF Answering
<1>21. HttpAnswers' /\ EchoAnswers'
  BY <1>1, <1>20 DEF HttpAnswers, EchoAnswers
<1>22. S!TypeOK'
  BY <1>7, <1>16 DEF PipeInv, S!TypeOK
<1>23. PipePlaces' /\ S!EventsAreCurrent'
  BY <1>1 DEF PipeInv, PipePlaces, S!EventsAreCurrent
<1>24. QED BY <1>21, <1>22, <1>23 DEF PipeInv

\* A write that does not wait, or whose client goes on reading.
LEMMA WriteAnswerStep ==
  ASSUME PipeInv, NEW c \in Callers, S!WriteAnswer(c) \/ S!ReadOn(c)
  PROVE  PipeInv'
<1>1. stopped \in BOOLEAN /\ signals \in 0 .. MaxSignals
  BY DEF PipeInv, S!TypeOK
<1>2. CASE S!WriteAnswer(c)
  BY <1>1, <1>2, WordStep DEF S!WriteAnswer, S!Environment
<1>3. CASE S!ReadOn(c)
  <2>1. due # <<>>
    BY <1>3 DEF S!ReadOn, PipeInv, PipePlaces
  <2>2. QED BY <1>1, <1>3, <2>1, WordStep DEF S!ReadOn, S!Outside
<1>4. QED BY <1>2, <1>3

\* What the clients and the signal do: nothing is read or written.
LEMMA OutsideStep ==
  ASSUME PipeInv, UNCHANGED <<pipeServer, wants, doing, events, due, replies, paused>>, S!TypeOK',
         \A c \in Callers : /\ arrived'[c] <= sent'[c]
                            /\ sent'[c] - arrived'[c] = sent[c] - arrived[c]
                            /\ conn[c] = "open" => conn'[c] = "open"
                            /\ conn'[c] = "closed" => conn[c] = "closed" /\ arrived'[c] = arrived[c]
                            /\ client[c] = "gone" => client'[c] = "gone",
         backlog # <<>> => backlog' # <<>>, stopped => stopped'
  PROVE  PipeInv'
<1>1. PipePlaces'
  BY DEF PipeInv, PipePlaces
<1>2. S!EventsAreCurrent'
  BY DEF PipeInv, S!EventsAreCurrent
<1>3. \A c \in Callers : S!Taken(c)' = S!Taken(c)
  BY DEF S!Taken
<1>4. S!Running' = S!Running
  BY DEF S!Running
<1>5. HttpAnswers'
  <2>1. CASE pipeServer \in S!Http /\ Unanswered
    <3>1. \A c \in Callers : arrived[c] = sent[c] => arrived'[c] = sent'[c]
      <4>1. \A c \in Callers : /\ arrived[c] \in 0 .. S!Parts /\ sent[c] \in 0 .. S!Parts
                               /\ arrived'[c] \in 0 .. S!Parts /\ sent'[c] \in 0 .. S!Parts
                               /\ S!Parts \in Nat
        BY DEF PipeInv, S!TypeOK, S!Parts
      <4>2. QED BY <4>1
    <3>2. Unanswered'
      BY <1>4, <2>1, <3>1 DEF Unanswered
    <3>3. QED BY <3>2 DEF HttpAnswers
  <2>2. ASSUME pipeServer \in S!Http, NEW c \in Callers, Answering(c) PROVE HttpAnswers'
    <3>1. Answering(c)'
      <4>1. /\ doing' \in {"answer", "blocked", "returned", "killed"}
            /\ doing' \in {"answer", "blocked"} => Head(events') = c
            /\ doing' = "returned" => due = <<>>
        BY <2>2 DEF Answering
      <4>2. QED BY <1>3, <2>2, <4>1, StillAnswering
    <3>2. QED BY <3>1 DEF HttpAnswers
  <2>3. QED BY <2>1, <2>2 DEF PipeInv, HttpAnswers
<1>6. EchoAnswers'
  BY <1>3, <1>4 DEF PipeInv, EchoAnswers
<1>7. QED BY <1>1, <1>2, <1>5, <1>6 DEF PipeInv

\* A client connects, sends or leaves.
LEMMA ClientStep ==
  ASSUME PipeInv, NEW c \in Callers, S!Connect(c) \/ S!Send(c) \/ S!Leave(c)
  PROVE  PipeInv'
<1>1. CASE S!Connect(c)
  <2>1. /\ conn[c] = "none" /\ conn' = [conn EXCEPT ![c] = "queued"]
        /\ backlog' = Append(backlog, c)
        /\ UNCHANGED <<pipeServer, wants, doing, events, due, replies, paused, errno, signals,
                       stopped, arrived, client, sent>>
    BY <1>1 DEF S!Connect, S!Elsewhere, S!Outside
  <2>2. /\ conn' \in [Callers -> {"none", "queued", "open", "closed"}] /\ conn'[c] = "queued"
        /\ \A d \in Callers : d # c => conn'[d] = conn[d]
    BY <2>1 DEF PipeInv, S!TypeOK
  <2>3. backlog' \in Seq(Callers) /\ backlog' # <<>>
    BY <2>1 DEF PipeInv, S!TypeOK
  <2>4. S!TypeOK'
    BY <2>1, <2>2, <2>3 DEF PipeInv, S!TypeOK
  <2>5. QED BY <2>1, <2>2, <2>3, <2>4, OutsideStep DEF PipeInv, PipePlaces
<1>2. CASE S!Send(c)
  <2>1. /\ conn[c] \in {"queued", "open"} /\ sent[c] < S!Parts
        /\ sent' = [sent EXCEPT ![c] = sent[c] + 1]
        /\ arrived' = [arrived EXCEPT ![c] = arrived[c] + 1]
        /\ UNCHANGED <<pipeServer, wants, doing, events, due, replies, paused, errno, signals,
                       stopped, backlog, conn, client>>
    BY <1>2 DEF S!Send, S!Elsewhere, S!Outside
  <2>2. /\ \A d \in Callers : arrived[d] \in 0 .. S!Parts /\ sent[d] \in 0 .. S!Parts
        /\ \A d \in Callers : arrived[d] <= sent[d]
        /\ arrived \in [Callers -> 0 .. S!Parts] /\ sent \in [Callers -> 0 .. S!Parts]
        /\ S!Parts \in Nat
    BY DEF PipeInv, S!TypeOK, PipePlaces, S!Parts
  <2>3. sent[c] + 1 \in 0 .. S!Parts /\ arrived[c] + 1 \in 0 .. S!Parts
    BY <2>1, <2>2
  <2>4. /\ arrived' \in [Callers -> 0 .. S!Parts] /\ sent' \in [Callers -> 0 .. S!Parts]
        /\ arrived'[c] = arrived[c] + 1 /\ sent'[c] = sent[c] + 1
        /\ \A d \in Callers : d # c => arrived'[d] = arrived[d] /\ sent'[d] = sent[d]
    BY <2>1, <2>2, <2>3
  <2>5. S!TypeOK'
    BY <2>1, <2>4 DEF PipeInv, S!TypeOK
  <2>6. ASSUME NEW d \in Callers
        PROVE  /\ arrived'[d] <= sent'[d] /\ sent'[d] - arrived'[d] = sent[d] - arrived[d]
               /\ conn'[d] = "closed" => arrived'[d] = arrived[d]
    BY <2>1, <2>2, <2>4
  <2>7. QED BY <2>1, <2>5, <2>6, OutsideStep
<1>3. CASE S!Leave(c)
  <2>1. PICK how \in {"finished", "gone"} :
          /\ client[c] = "sending" /\ client' = [client EXCEPT ![c] = how]
          /\ UNCHANGED <<pipeServer, wants, doing, events, due, replies, paused, errno, signals,
                         stopped, backlog, conn, arrived, sent>>
    BY <1>3 DEF S!Leave, S!Elsewhere, S!Outside
  <2>2. /\ client' \in [Callers -> {"sending", "finished", "gone"}]
        /\ \A d \in Callers : client[d] = "gone" => client'[d] = "gone"
    BY <2>1 DEF PipeInv, S!TypeOK
  <2>3. S!TypeOK'
    BY <2>1, <2>2 DEF PipeInv, S!TypeOK
  <2>4. QED BY <2>1, <2>2, <2>3, OutsideStep DEF PipeInv, PipePlaces
<1>4. QED BY <1>1, <1>2, <1>3

\* A signal, which may cut a write short, or no step of a server at all.
LEMMA SignalStep == PipeInv /\ (S!Signal \/ UNCHANGED pipeVars) => PipeInv'
<1> SUFFICES ASSUME PipeInv, S!Signal \/ UNCHANGED pipeVars PROVE PipeInv'
  OBVIOUS
<1>1. UNCHANGED <<pipeServer, wants, events, paused, backlog, conn, arrived, client, sent>>
  BY DEF S!Signal, S!Outside, pipeVars
<1>2. signals' \in 0 .. MaxSignals
  BY ServersAssumption DEF S!Signal, pipeVars, PipeInv, S!TypeOK
<1>3. stopped' \in BOOLEAN /\ (stopped => stopped')
  BY DEF S!Signal, pipeVars, PipeInv, S!TypeOK
<1>4. \/ UNCHANGED <<doing, due, replies>> /\ errno' \in {errno, "EINTR"}
      \/ S!Signal /\ S!CutShort /\ errno' = errno
  BY DEF S!Signal, S!Elsewhere, pipeVars
<1>5. CASE UNCHANGED <<doing, due, replies>> /\ errno' \in {errno, "EINTR"}
  <2>1. S!TypeOK'
    BY <1>1, <1>2, <1>3, <1>5 DEF PipeInv, S!TypeOK
  <2>2. QED BY <1>1, <1>3, <1>5, <2>1, OutsideStep DEF PipeInv, PipePlaces
<1>6. CASE S!Signal /\ S!CutShort /\ errno' = errno
  <2>1. stopped'
    BY <1>6 DEF S!Signal
  <2>2. /\ doing = "blocked" /\ due # <<>> /\ Head(events) \in Callers
    BY <1>6 DEF S!CutShort, PipeInv, PipePlaces
  <2>3. /\ Head(due) = "content" /\ S!Written(Head(events), "piece") /\ due' = Tail(due)
        /\ doing' = "answer"
    BY <1>6 DEF S!CutShort
  <2>4. QED BY <1>1, <1>2, <1>3, <1>6, <2>1, <2>2, <2>3, WordStep
<1>7. QED BY <1>4, <1>5, <1>6

\* Each step keeps PipeInv.
LEMMA PipesKeep == PipeInv /\ (S!Next \/ UNCHANGED pipeVars) => PipeInv'
<1> SUFFICES ASSUME PipeInv, S!Next \/ UNCHANGED pipeVars PROVE PipeInv'
  OBVIOUS
<1>1. CASE S!Server
  BY <1>1, PollStep, EventStep, StopStep, AcceptStep, EchoPartStep, EchoEndStep,
     ReadRequestStep, WriteAnswerStep, BlockStep DEF S!Server
<1>2. CASE \E c \in Callers : S!Connect(c) \/ S!Send(c) \/ S!Leave(c) \/ S!ReadOn(c)
  BY <1>2, ClientStep, WriteAnswerStep
<1>3. S!Finished => UNCHANGED pipeVars
  BY DEF S!Finished, S!vars, S!server, pipeVars
<1>4. QED BY <1>1, <1>2, <1>3, SignalStep DEF S!Next

\* inf16-1.c, inf16-2.c and inf17-1.c, for any number of clients and signals: no event
\* that is handled is stale, and every client gets what is due to it.
THEOREM ServersAnswer == AllSpec => []S!Inv
<1>1. AllInit => PipeInv
  BY PipesBegin DEF AllInit, PipesAtRest
<1>2. PipeInv /\ [AllNext]_allVars => PipeInv'
  <2>1. [AllNext]_allVars => S!Next \/ UNCHANGED pipeVars
    BY DEF AllNext, allVars
  <2>2. QED BY <2>1, PipesKeep
<1>3. PipeInv => S!Inv
  BY PipeInvGivesAnswers DEF PipeInv, S!Inv
<1>4. QED BY <1>1, <1>2, <1>3, PTL DEF AllSpec

-----------------------------------------------------------------------------
(***************************************************************************)
(* The clients of NumberClients.  SentAndPrinted counts, at each place of  *)
(* the loop; StreamRead says that the bytes taken are whole numbers until a*)
(* mixture has been printed; CopiesCame that an answer which is printed or *)
(* queued twice came twice.  From them AnswersMatch follows step by step.  *)
(***************************************************************************)
NumberTypes ==
  /\ N!TypeOK /\ numberClient \in {"inf16_0", "inf22_0"}
  /\ to \in Seq({"server", "foreigner"}) /\ copies \in Seq(Nat) /\ packets \in Seq(0 .. asked)

\* How many numbers have been sent, and printed, at each place.
SentAndPrinted ==
  /\ Len(printed) <= asked
  /\ state = "write" => asked < MaxSent
  /\ state \in {"scan", "write"} => Len(printed) = asked
  /\ state = "read" => Len(printed) = asked - 1
  /\ state = "ended" /\ ~closed => ~word /\ numbers = 0 /\ Len(printed) = asked

\* The stream has been read in whole numbers, unless a mixture was printed.
StreamRead ==
  numberClient = "inf16_0" =>
    /\ taken <= Len(printed) * Size
    /\ (\A j \in 1 .. Len(printed) : printed[j] # N!Mixed) => taken = Len(printed) * Size

\* An answer that was printed or waits has come, and more than once if it is there twice.
CopiesCame ==
  numberClient = "inf22_0" =>
    /\ Len(copies) = asked
    /\ \A j \in 1 .. Len(printed) : printed[j] > 0 => copies[printed[j]] > 0
    /\ \A j \in 1 .. Len(packets) : packets[j] > 0 => copies[packets[j]] > 0
    /\ \A i, j \in 1 .. Len(printed) :
         i # j /\ printed[i] = printed[j] /\ printed[i] > 0 => copies[printed[i]] > 1
    /\ \A i, j \in 1 .. Len(packets) :
         i # j /\ packets[i] = packets[j] /\ packets[i] > 0 => copies[packets[i]] > 1
    /\ \A i \in 1 .. Len(printed), j \in 1 .. Len(packets) :
         printed[i] = packets[j] /\ printed[i] > 0 => copies[printed[i]] > 1

NumberInv == 
  /\ NumberTypes /\ SentAndPrinted /\ StreamRead /\ CopiesCame
  /\ N!AnswersMatch /\ N!StaysWithServer


\* Division of the stream into whole numbers.
LEMMA ProductsGrow ==
  ASSUME NEW a \in Int, NEW b \in Int, NEW s \in Nat \ {0}, a * s <= b * s
  PROVE  a <= b
OBVIOUS

LEMMA WholeNumbers ==
  ASSUME NEW a \in Nat, NEW s \in Nat \ {0}, a % s = 0
  PROVE  a \div s \in Nat /\ a = (a \div s) * s
OBVIOUS

\* A sequence stays one when more values are possible; each of its values is one.
LEMMA LongerRange ==
  ASSUME NEW V, NEW W, V \subseteq W, NEW q \in Seq(V)
  PROVE  q \in Seq(W)
OBVIOUS

LEMMA EachInside ==
  ASSUME NEW V, NEW q \in Seq(V)
  PROVE  \A j \in 1 .. Len(q) : q[j] \in V
OBVIOUS

\* A printed number, or a packet, answers a number that has been sent.
LEMMA NumbersSent ==
  ASSUME NumberTypes
  PROVE  /\ \A j \in 1 .. Len(printed) : printed[j] > 0 => printed[j] \in 1 .. asked
         /\ \A j \in 1 .. Len(packets) : packets[j] \in 0 .. asked
<1>1. printed \in Seq({N!Mixed} \cup 0 .. asked) /\ packets \in Seq(0 .. asked)
  BY DEF NumberTypes, N!TypeOK
<1>2. \A y \in {N!Mixed} \cup 0 .. asked : y > 0 => y \in 1 .. asked
  BY ServersAssumption DEF N!Mixed, NumberTypes, N!TypeOK
<1>3. \A j \in 1 .. Len(printed) : printed[j] \in {N!Mixed} \cup 0 .. asked
  BY <1>1
<1>4. \A j \in 1 .. Len(packets) : packets[j] \in 0 .. asked
  BY <1>1, EachInside
<1>5. QED BY <1>2, <1>3, <1>4

\* The client at its start, and where it is left when another program runs.
LEMMA NumbersBegin == N!Init \/ NumbersOver => NumberInv
<1> SUFFICES ASSUME N!Init \/ NumbersOver PROVE NumberInv
  OBVIOUS
<1> USE ServersAssumption
<1>1. /\ numberClient \in {"inf16_0", "inf22_0"} /\ numbers \in 0 .. MaxNumbers /\ word \in BOOLEAN
      /\ state \in {"scan", "ended"} /\ (state = "ended" => ~word /\ numbers = 0)
      /\ asked = 0 /\ parts = 0 /\ taken = 0 /\ closed = FALSE
      /\ to = <<>> /\ address = "server" /\ copies = <<>> /\ packets = <<>> /\ printed = <<>>
  <2>1. CASE N!Init
    BY <2>1 DEF N!Init
  <2>2. CASE NumbersOver
    <3>1. word \in BOOLEAN /\ ~word /\ closed = FALSE
      BY <2>2 DEF NumbersOver
    <3>2. /\ numberClient = "inf22_0" /\ numbers = 0 /\ state = "ended"
          /\ asked = 0 /\ parts = 0 /\ taken = 0
          /\ to = <<>> /\ address = "server" /\ copies = <<>> /\ packets = <<>> /\ printed = <<>>
      BY <2>2 DEF NumbersOver
    <3>3. QED BY <3>1, <3>2
  <2>3. QED BY <2>1, <2>2
<1>2. NumberTypes
  BY <1>1 DEF NumberTypes, N!TypeOK
<1>3. SentAndPrinted /\ StreamRead /\ CopiesCame
  BY <1>1 DEF SentAndPrinted, StreamRead, CopiesCame
<1>4. N!AnswersMatch /\ N!StaysWithServer
  BY <1>1 DEF N!AnswersMatch, N!StaysWithServer
<1>5. QED BY <1>2, <1>3, <1>4 DEF NumberInv

\* What a step that prints nothing keeps.
LEMMA Unprinted ==
  ASSUME NumberInv, UNCHANGED <<printed, numberClient>>, address' = address,
         \A j \in 1 .. Len(copies) : copies'[j] >= copies[j] /\ copies'[j] \in Nat,
         Len(copies') >= Len(copies)
  PROVE  N!AnswersMatch' /\ N!StaysWithServer'
<1> USE DEF NumberInv
<1>2. ASSUME NEW j \in 1 .. Len(printed), numberClient = "inf22_0", copies[j] > 1
      PROVE  copies'[j] > 1
  <2>1. j \in 1 .. Len(copies) /\ copies[j] \in Nat
    BY <1>2 DEF NumberTypes, N!TypeOK, SentAndPrinted, CopiesCame
  <2>2. QED BY <1>2, <2>1
<1>3. N!AnswersMatch'
  <2>1. ASSUME NEW k \in 1 .. Len(printed), printed[k] # k
        PROVE  /\ printed[k] < k
               /\ \E j \in 1 .. k : \/ printed[j] \in {N!Mixed, N!Foreign}
                                    \/ j < k /\ numberClient = "inf22_0" /\ copies'[j] > 1
    <3>1. k \in DOMAIN printed
      BY <2>1 DEF NumberTypes, N!TypeOK
    <3>2. printed[k] < k
      BY <2>1, <3>1 DEF N!AnswersMatch
    <3>3. PICK j \in 1 .. k : \/ printed[j] \in {N!Mixed, N!Foreign}
                              \/ j < k /\ numberClient = "inf22_0" /\ copies[j] > 1
      BY <2>1, <3>1 DEF N!AnswersMatch
    <3>4. j \in 1 .. Len(printed)
      BY <2>1, <3>3
    <3>5. QED BY <1>2, <3>2, <3>3, <3>4
  <2>2. DOMAIN printed = 1 .. Len(printed)
    BY DEF NumberTypes, N!TypeOK
  <2>3. QED BY <2>1, <2>2 DEF N!AnswersMatch
<1>4. QED BY <1>3 DEF N!StaysWithServer

\* scanf: a number, a word or the end of the input.
LEMMA ScanStep == NumberInv /\ N!Scan => NumberInv'
<1> SUFFICES ASSUME NumberInv, N!Scan PROVE NumberInv'
  OBVIOUS
<1> USE ServersAssumption
<1>1. /\ state = "scan"
      /\ UNCHANGED <<numberClient, word, asked, parts, taken, closed, to, address, copies,
                     strangers, packets, printed>>
      /\ \/ state' = "ended" /\ numbers' = numbers /\ numbers = 0 /\ ~word
         \/ state' = "write" /\ asked < MaxSent /\ numbers' \in 0 .. MaxNumbers
  BY DEF N!Scan, N!stream, N!datagrams, NumberInv, NumberTypes, N!TypeOK
<1>2. NumberTypes'
  BY <1>1 DEF NumberInv, NumberTypes, N!TypeOK
<1>3. SentAndPrinted'
  BY <1>1 DEF NumberInv, SentAndPrinted
<1>4. StreamRead' /\ CopiesCame' /\ N!AnswersMatch' /\ N!StaysWithServer'
  BY <1>1 DEF NumberInv, StreamRead, CopiesCame, N!AnswersMatch, N!StaysWithServer
<1>5. QED BY <1>2, <1>3, <1>4 DEF NumberInv

\* inf16-0.c: a number is written; the connection ends.
LEMMA WriteStep == NumberInv /\ (N!Write \/ N!ReadEnd \/ N!Close) => NumberInv'
<1> SUFFICES ASSUME NumberInv, N!Write \/ N!ReadEnd \/ N!Close PROVE NumberInv'
  OBVIOUS
<1> USE ServersAssumption
<1>1. /\ numberClient = "inf16_0"
      /\ UNCHANGED <<numberClient, numbers, word, parts, taken, to, address, copies,
                     strangers, packets, printed>>
      /\ \/ state = "write" /\ state' = "read" /\ asked' = asked + 1 /\ closed' = closed
         \/ state' \in {"ended", "killed"} /\ closed /\ closed' = closed /\ asked' = asked
         \/ state' = state /\ closed' = TRUE /\ asked' = asked
  BY DEF N!Write, N!ReadEnd, N!Close, N!stream, N!input, N!datagrams
<1>2. asked \in 0 .. MaxSent /\ asked' \in 0 .. MaxSent /\ asked' >= asked
  BY <1>1 DEF NumberInv, NumberTypes, N!TypeOK, SentAndPrinted
<1>3. parts' \in 0 .. asked' * Size
  <2>1. parts \in 0 .. asked * Size
    BY DEF NumberInv, NumberTypes, N!TypeOK
  <2>2. asked * Size <= asked' * Size /\ asked * Size \in Int /\ asked' * Size \in Int
    <3>1. CASE asked' = asked
      BY <1>2, <3>1
    <3>2. CASE asked' = asked + 1
      <4>1. (asked + 1) * Size = asked * Size + Size /\ asked * Size \in Int
        BY <1>2
      <4>2. QED BY <3>2, <4>1
    <3>3. QED BY <1>1, <3>1, <3>2
  <2>3. QED BY <1>1, <2>1, <2>2
<1>4. NumberTypes'
  <2>1. printed' \in Seq({N!Mixed} \cup 0 .. asked') /\ packets' \in Seq(0 .. asked')
    BY <1>1, <1>2, LongerRange DEF NumberInv, NumberTypes, N!TypeOK
  <2>2. QED BY <1>1, <1>2, <1>3, <2>1 DEF NumberInv, NumberTypes, N!TypeOK
<1>5. SentAndPrinted'
  <2>1. Len(printed) <= asked /\ Len(printed) \in Nat
    BY DEF NumberInv, NumberTypes, N!TypeOK, SentAndPrinted
  <2>2. CASE state = "write" /\ state' = "read" /\ asked' = asked + 1
    BY <1>1, <1>2, <2>1, <2>2 DEF NumberInv, SentAndPrinted
  <2>3. CASE state' \in {"ended", "killed"} /\ closed' /\ asked' = asked
    BY <1>1, <2>1, <2>3 DEF SentAndPrinted
  <2>4. CASE state' = state /\ closed' /\ asked' = asked
    BY <1>1, <2>1, <2>4 DEF NumberInv, SentAndPrinted
  <2>5. QED BY <1>1, <2>2, <2>3, <2>4
<1>6. StreamRead' /\ CopiesCame'
  BY <1>1 DEF NumberInv, StreamRead, CopiesCame
<1>7. N!AnswersMatch' /\ N!StaysWithServer'
  BY <1>1 DEF NumberInv, N!AnswersMatch, N!StaysWithServer
<1>8. QED BY <1>4, <1>5, <1>6, <1>7 DEF NumberInv

\* A part of an answer arrives on the stream.
LEMMA ArrivePartStep == NumberInv /\ N!ArrivePart => NumberInv'
<1> SUFFICES ASSUME NumberInv, N!ArrivePart PROVE NumberInv'
  OBVIOUS
<1>1. /\ parts < asked * Size /\ parts' = parts + 1
      /\ UNCHANGED <<numberClient, numbers, word, state, asked, taken, closed, to, address,
                     copies, strangers, packets, printed>>
  BY DEF N!ArrivePart, N!input, N!datagrams
<1>2. parts \in 0 .. asked * Size /\ asked * Size \in Int /\ taken \in 0 .. parts
  BY ServersAssumption DEF NumberInv, NumberTypes, N!TypeOK
<1>3. parts' \in 0 .. asked * Size /\ taken' \in 0 .. parts'
  BY <1>1, <1>2
<1>4. NumberTypes'
  BY <1>1, <1>3 DEF NumberInv, NumberTypes, N!TypeOK
<1>5. SentAndPrinted' /\ StreamRead' /\ CopiesCame' /\ N!AnswersMatch' /\ N!StaysWithServer'
  BY <1>1 DEF NumberInv, SentAndPrinted, StreamRead, CopiesCame, N!AnswersMatch,
              N!StaysWithServer
<1>6. QED BY <1>4, <1>5 DEF NumberInv

\* inf16-0.c: a read takes a whole number only while all earlier ones did.
LEMMA ReadStep == NumberInv /\ N!Read => NumberInv'
<1> SUFFICES ASSUME NumberInv, N!Read PROVE NumberInv'
  OBVIOUS
<1> USE ServersAssumption
<1> DEFINE n == IF parts - taken < Size THEN parts - taken ELSE Size
           v == N!Value(taken, n)
           k == Len(printed) + 1
<1>1. /\ state = "read" /\ numberClient = "inf16_0" /\ parts > taken
      /\ taken' = taken + n /\ printed' = Append(printed, v) /\ state' = "scan"
      /\ UNCHANGED <<numberClient, numbers, word, asked, parts, closed, to, address, copies,
                     strangers, packets>>
  BY DEF N!Read, N!input, N!datagrams
<1>2. /\ taken \in Nat /\ parts \in Nat /\ asked \in Nat /\ parts <= asked * Size
      /\ asked * Size \in Int /\ printed \in Seq({N!Mixed} \cup 0 .. asked)
  BY DEF NumberInv, NumberTypes, N!TypeOK
<1>3. Len(printed) \in Nat /\ k = asked
  BY <1>1, <1>2 DEF NumberInv, SentAndPrinted
<1>4. n \in 1 .. Size /\ taken + n <= parts
  BY <1>1, <1>2
<1>5. /\ taken <= Len(printed) * Size
      /\ (\A j \in 1 .. Len(printed) : printed[j] # N!Mixed) => taken = Len(printed) * Size
  BY <1>1 DEF NumberInv, StreamRead
<1>6. v = N!Mixed \/ (n = Size /\ v \in 1 .. k /\ taken = (v - 1) * Size)
  <2>1. CASE n = Size /\ taken % Size = 0
    <3>1. taken \div Size \in Nat /\ taken = (taken \div Size) * Size
      BY <1>2, <2>1, WholeNumbers
    <3>2. v = taken \div Size + 1
      BY <2>1 DEF N!Value
    <3>3. taken \div Size <= Len(printed)
      BY <1>3, <1>5, <3>1, ProductsGrow
    <3>4. v - 1 = taken \div Size
      BY <3>1, <3>2
    <3> HIDE DEF v, n
    <3>5. QED BY SMTT(40), <1>3, <2>1, <3>1, <3>2, <3>3, <3>4
  <2>2. CASE ~(n = Size /\ taken % Size = 0)
    BY <2>2 DEF N!Value
  <2>3. QED BY <2>1, <2>2
<1> HIDE DEF v, n
<1>7. /\ Len(printed') = k /\ printed'[k] = v
      /\ \A j \in 1 .. Len(printed) : printed'[j] = printed[j]
      /\ printed' \in Seq({N!Mixed} \cup 0 .. asked)
  BY <1>1, <1>2, <1>3, <1>6
<1>8. NumberTypes'
  <2>1. taken' \in 0 .. parts'
    BY <1>1, <1>2, <1>4
  <2>2. QED BY <1>1, <1>7, <2>1 DEF NumberInv, NumberTypes, N!TypeOK
<1>9. SentAndPrinted'
  BY <1>1, <1>3, <1>7 DEF NumberInv, SentAndPrinted
<1>10. StreamRead' /\ CopiesCame'
  <2>1. k * Size = Len(printed) * Size + Size /\ Len(printed) * Size \in Int
    BY <1>3
  <2>2. taken' <= k * Size
    BY <1>1, <1>2, <1>4, <1>5, <2>1
  <2>3. ASSUME \A j \in 1 .. k : printed'[j] # N!Mixed PROVE taken' = k * Size
    <3>1. v # N!Mixed
      BY <1>3, <1>7, <2>3
    <3>2. \A j \in 1 .. Len(printed) : printed[j] # N!Mixed
      BY <1>3, <1>7, <2>3
    <3>3. QED BY <1>1, <1>5, <1>6, <2>1, <3>1, <3>2
  <2>4. numberClient' # "inf22_0"
    BY <1>1
  <2>5. QED BY <1>7, <2>2, <2>3, <2>4 DEF StreamRead, CopiesCame
<1>11. N!AnswersMatch'
  <2>1. ASSUME NEW i \in 1 .. Len(printed), printed[i] # i
        PROVE  /\ printed[i] < i
               /\ \E j \in 1 .. i : printed[j] \in {N!Mixed, N!Foreign}
    <3>1. i \in DOMAIN printed
      BY <1>2
    <3>2. QED BY <1>1, <2>1, <3>1 DEF NumberInv, N!AnswersMatch
  <2>2. ASSUME NEW i \in 1 .. Len(printed), printed'[i] # i
        PROVE  /\ printed'[i] < i
               /\ \E j \in 1 .. i : printed'[j] \in {N!Mixed, N!Foreign}
    <3>1. PICK j \in 1 .. i : printed[j] \in {N!Mixed, N!Foreign}
      BY <1>7, <2>1, <2>2
    <3>2. j \in 1 .. Len(printed)
      BY <1>3, <3>1
    <3>3. QED BY <1>7, <2>1, <2>2, <3>1, <3>2
  <2>3. ASSUME v # k
        PROVE  /\ v < k /\ \E j \in 1 .. k : printed'[j] \in {N!Mixed, N!Foreign}
    <3>1. CASE v = N!Mixed
      BY <1>3, <1>7, <3>1 DEF N!Mixed
    <3>2. CASE v # N!Mixed
      <4>1. v < k /\ taken = (v - 1) * Size /\ v - 1 # Len(printed)
        BY <1>3, <1>6, <2>3, <3>2
      <4>2. ASSUME taken = Len(printed) * Size PROVE FALSE
        <5>1. v \in Int /\ v - 1 \in Int /\ Len(printed) \in Int
          BY <1>3, <1>6, <3>2
        <5>2. Len(printed) <= v - 1
          BY <4>1, <4>2, <5>1, ProductsGrow
        <5>3. QED BY <1>3, <4>1, <5>1, <5>2
      <4>3. PICK j \in 1 .. Len(printed) : printed[j] = N!Mixed
        BY <1>5, <4>2
      <4>4. j \in 1 .. k /\ printed'[j] = N!Mixed
        BY <1>3, <1>7, <4>3
      <4>5. QED BY <4>1, <4>4
    <3>3. QED BY <3>1, <3>2
  <2>4. \A i \in DOMAIN printed' : i \in 1 .. Len(printed) \/ i = k
    BY <1>3, <1>7
  <2>5. QED BY <1>7, <2>2, <2>3, <2>4 DEF N!AnswersMatch
<1>12. N!StaysWithServer'
  <2>1. ASSUME NEW i \in DOMAIN printed, printed[i] = N!Foreign
        PROVE  i \in DOMAIN printed' /\ printed'[i] = N!Foreign
    BY SMTT(40), <1>2, <1>3, <1>7, <2>1
  <2>2. QED BY <1>1, <2>1 DEF NumberInv, N!StaysWithServer
<1>13. QED BY <1>8, <1>9, <1>10, <1>11, <1>12 DEF NumberInv

\* inf22-0.c: a number is sent to the last address.
LEMMA SendtoStep == NumberInv /\ N!sendto => NumberInv'
<1> SUFFICES ASSUME NumberInv, N!sendto PROVE NumberInv'
  OBVIOUS
<1> USE ServersAssumption
<1>1. /\ state = "write" /\ state' = "read" /\ numberClient = "inf22_0" /\ asked' = asked + 1
      /\ to' = Append(to, address) /\ copies' = Append(copies, 0)
      /\ UNCHANGED <<numberClient, numbers, word, parts, taken, closed, address, strangers,
                     packets, printed>>
  BY DEF N!sendto, N!stream, N!input
<1>2. /\ asked \in Nat /\ asked' \in 0 .. MaxSent /\ to \in Seq({"server", "foreigner"})
      /\ copies \in Seq(Nat) /\ address \in {"server", "foreigner"} /\ Len(to) = Len(copies)
      /\ printed \in Seq({N!Mixed} \cup 0 .. asked) /\ packets \in Seq(0 .. asked)
      /\ parts \in 0 .. asked * Size /\ Len(copies) = asked
  BY <1>1 DEF NumberInv, NumberTypes, N!TypeOK, SentAndPrinted, CopiesCame
<1>3. parts' \in 0 .. asked' * Size
  <2>1. (asked + 1) * Size = asked * Size + Size /\ asked * Size \in Int
    BY <1>2
  <2>2. QED BY <1>1, <1>2, <2>1
<1>4. /\ Len(copies') = asked' /\ copies' \in Seq(Nat) /\ to' \in Seq({"server", "foreigner"})
      /\ Len(to') = Len(copies')
      /\ \A j \in 1 .. Len(copies) : copies'[j] = copies[j]
  <2>1. /\ Append(copies, 0) \in Seq(Nat) /\ Len(Append(copies, 0)) = Len(copies) + 1
        /\ \A j \in 1 .. Len(copies) : Append(copies, 0)[j] = copies[j]
    BY <1>2
  <2>2. /\ Append(to, address) \in Seq({"server", "foreigner"})
        /\ Len(Append(to, address)) = Len(to) + 1
    BY <1>2
  <2>3. QED BY <1>1, <1>2, <2>1, <2>2
<1>5. printed' \in Seq({N!Mixed} \cup 0 .. asked') /\ packets' \in Seq(0 .. asked')
  <2>1. 0 .. asked \subseteq 0 .. asked'
    BY <1>1, <1>2
  <2>2. QED BY <1>1, <1>2, <2>1, LongerRange
<1>6. NumberTypes'
  BY <1>1, <1>2, <1>3, <1>4, <1>5 DEF NumberInv, NumberTypes, N!TypeOK
<1>7. SentAndPrinted'
  BY <1>1, <1>2 DEF NumberInv, SentAndPrinted
<1>8. \A j \in 1 .. Len(copies) : copies'[j] >= copies[j] /\ copies'[j] \in Nat
  BY <1>2, <1>4
<1>9. N!AnswersMatch' /\ N!StaysWithServer'
  BY <1>1, <1>2, <1>4, <1>8, Unprinted
<1>10. StreamRead' /\ CopiesCame'
  <2>1. /\ \A j \in 1 .. Len(printed) : printed[j] > 0 => copies'[printed[j]] = copies[printed[j]]
        /\ \A j \in 1 .. Len(packets) : packets[j] > 0 => copies'[packets[j]] = copies[packets[j]]
    <3>1. /\ \A j \in 1 .. Len(printed) : printed[j] > 0 => printed[j] \in 1 .. Len(copies)
          /\ \A j \in 1 .. Len(packets) : packets[j] > 0 => packets[j] \in 1 .. Len(copies)
      BY <1>2, NumbersSent DEF NumberInv
    <3>2. QED BY <1>4, <3>1
  <2>2. QED BY ZenonT(60), <1>1, <1>4, <2>1 DEF NumberInv, StreamRead, CopiesCame
<1>11. QED BY <1>6, <1>7, <1>9, <1>10 DEF NumberInv

\* inf22-0.c: the next packet is printed, whatever it answers.
LEMMA RecvfromStep == NumberInv /\ N!recvfrom => NumberInv'
<1> SUFFICES ASSUME NumberInv, N!recvfrom PROVE NumberInv'
  OBVIOUS
<1> USE ServersAssumption
<1> DEFINE x == Head(packets)
           k == Len(printed) + 1
<1>1. /\ state = "read" /\ numberClient = "inf22_0" /\ packets # <<>>
      /\ printed' = Append(printed, x) /\ packets' = Tail(packets) /\ state' = "scan"
      /\ address' \in {IF x = N!Foreign THEN "foreigner" ELSE "server", address}
      /\ UNCHANGED <<numberClient, numbers, word, asked, parts, taken, closed, to, copies,
                     strangers>>
  BY DEF N!recvfrom, N!input, N!stream
<1>2. /\ asked \in Nat /\ copies \in Seq(Nat) /\ Len(copies) = asked
      /\ printed \in Seq({N!Mixed} \cup 0 .. asked) /\ packets \in Seq(0 .. asked)
      /\ Len(printed) = asked - 1 /\ address \in {"server", "foreigner"}
  BY <1>1 DEF NumberInv, NumberTypes, N!TypeOK, SentAndPrinted, CopiesCame
<1>3. /\ x = packets[1] /\ x \in 0 .. asked /\ Len(packets) \in Nat \ {0}
      /\ packets' \in Seq(0 .. asked) /\ Len(packets') = Len(packets) - 1
      /\ \A j \in 1 .. Len(packets') : packets'[j] = packets[j + 1]
  <2>1. Len(packets) \in Nat \ {0} /\ x = packets[1]
    BY <1>1, <1>2
  <2>2. packets[1] \in 0 .. asked
    BY <1>2, <2>1
  <2>3. /\ packets' \in Seq(0 .. asked) /\ Len(packets') = Len(packets) - 1
        /\ \A j \in 1 .. Len(packets') : packets'[j] = packets[j + 1]
    BY <1>1, <1>2, <2>1
  <2>4. QED BY <2>1, <2>2, <2>3
<1> HIDE DEF x
<1>4. /\ Len(printed) \in Nat /\ k = asked /\ Len(printed') = k /\ printed'[k] = x
      /\ \A j \in 1 .. Len(printed) : printed'[j] = printed[j]
      /\ printed' \in Seq({N!Mixed} \cup 0 .. asked)
  BY <1>1, <1>2, <1>3
<1>5. NumberTypes'
  BY <1>1, <1>2, <1>3, <1>4 DEF NumberInv, NumberTypes, N!TypeOK
<1>6. SentAndPrinted' /\ StreamRead'
  BY <1>1, <1>2, <1>4 DEF NumberInv, SentAndPrinted, StreamRead
<1> DEFINE Times(i, j, p, q) == p[i] = q[j] /\ p[i] > 0 => copies[p[i]] > 1
<1>7. /\ \A j \in 1 .. Len(printed) : printed[j] > 0 => copies[printed[j]] > 0
      /\ \A j \in 1 .. Len(packets) : packets[j] > 0 => copies[packets[j]] > 0
      /\ \A i, j \in 1 .. Len(printed) : i # j => Times(i, j, printed, printed)
      /\ \A i, j \in 1 .. Len(packets) : i # j => Times(i, j, packets, packets)
      /\ \A i \in 1 .. Len(printed), j \in 1 .. Len(packets) : Times(i, j, printed, packets)
  BY <1>1 DEF NumberInv, CopiesCame
<1>8. /\ \A j \in 1 .. Len(printed') : j \in 1 .. Len(printed) \/ j = k
      /\ \A j \in 1 .. Len(packets') : j + 1 \in 1 .. Len(packets) /\ j + 1 # 1
      /\ 1 \in 1 .. Len(packets) /\ k \notin 1 .. Len(printed)
  BY <1>3, <1>4
<1>9. CopiesCame'
  <2>1. \A j \in 1 .. Len(printed') : printed'[j] > 0 => copies[printed'[j]] > 0
    BY <1>3, <1>4, <1>7, <1>8
  <2>2. \A j \in 1 .. Len(packets') : packets'[j] > 0 => copies[packets'[j]] > 0
    BY <1>3, <1>7, <1>8
  <2>3. \A i, j \in 1 .. Len(printed') : i # j => Times(i, j, printed', printed')
    <3>1. ASSUME NEW j \in 1 .. Len(printed) PROVE Times(j, k, printed', printed')
      BY <1>3, <1>4, <1>7, <1>8
    <3>2. ASSUME NEW i \in 1 .. Len(printed'), NEW j \in 1 .. Len(printed'), i # j
          PROVE  Times(i, j, printed', printed')
      <4>1. CASE i \in 1 .. Len(printed) /\ j \in 1 .. Len(printed)
        BY <1>4, <1>7, <3>2, <4>1
      <4>2. CASE i = k \/ j = k
        BY <1>8, <3>1, <3>2, <4>2
      <4>3. QED BY <1>8, <4>1, <4>2
    <3>3. QED BY <3>2
  <2>4. \A i, j \in 1 .. Len(packets') : i # j => Times(i, j, packets', packets')
    <3>1. ASSUME NEW i \in 1 .. Len(packets'), NEW j \in 1 .. Len(packets'), i # j
          PROVE  Times(i, j, packets', packets')
      <4>1. i + 1 # j + 1
        BY <1>3, <3>1
      <4>2. Times(i + 1, j + 1, packets, packets)
        BY <1>7, <1>8, <4>1
      <4>3. QED BY <1>3, <4>2
    <3>2. QED BY <3>1
  <2>5. \A i \in 1 .. Len(printed'), j \in 1 .. Len(packets') : Times(i, j, printed', packets')
    <3>1. ASSUME NEW i \in 1 .. Len(printed'), NEW j \in 1 .. Len(packets')
          PROVE  Times(i, j, printed', packets')
      <4>1. CASE i \in 1 .. Len(printed)
        <5>1. Times(i, j + 1, printed, packets)
          BY <1>7, <1>8, <4>1
        <5>2. QED BY <1>3, <1>4, <4>1, <5>1
      <4>2. CASE i = k
        <5>1. Times(1, j + 1, packets, packets)
          BY <1>7, <1>8
        <5>2. QED BY <1>3, <1>4, <4>2, <5>1
      <4>3. QED BY <1>8, <4>1, <4>2
    <3>2. QED BY <3>1
  <2>6. QED BY <1>1, <1>2, <2>1, <2>2, <2>3, <2>4, <2>5 DEF CopiesCame
<1>10. N!AnswersMatch'
  <2> DEFINE Excuse(j, i) == \/ printed'[j] \in {N!Mixed, N!Foreign}
                             \/ j < i /\ copies[j] > 1
  <2>1. ASSUME NEW i \in 1 .. Len(printed), printed[i] # i
        PROVE  printed[i] < i /\ \E j \in 1 .. i : Excuse(j, i)
    <3>1. i \in DOMAIN printed
      BY <1>2
    <3>2. printed[i] < i
      BY <2>1, <3>1 DEF NumberInv, N!AnswersMatch
    <3>3. PICK j \in 1 .. i : \/ printed[j] \in {N!Mixed, N!Foreign}
                              \/ j < i /\ copies[j] > 1
      BY <2>1, <3>1 DEF NumberInv, N!AnswersMatch
    <3>4. j \in 1 .. Len(printed)
      BY <1>4, <3>3
    <3>5. QED BY <1>4, <3>2, <3>3, <3>4
  <2>2. ASSUME x # k PROVE x < k /\ \E j \in 1 .. k : Excuse(j, k)
    <3>1. x < k
      BY <1>3, <1>4, <2>2
    <3>2. CASE x = 0
      BY <1>4, <3>2 DEF N!Foreign
    <3>3. CASE x > 0 /\ printed[x] # x
      <4>1. x \in 1 .. Len(printed)
        BY <1>3, <1>4, <3>1, <3>3
      <4>2. PICK j \in 1 .. x : Excuse(j, x)
        BY <2>1, <3>3, <4>1
      <4>3. j \in 1 .. k /\ Excuse(j, k)
        BY <1>4, <3>1, <4>1, <4>2
      <4>4. QED BY <3>1, <4>3
    <3>4. CASE x > 0 /\ printed[x] = x
      <4>1. x \in 1 .. Len(printed)
        BY <1>3, <1>4, <3>1, <3>4
      <4>2. copies[x] > 1
        BY <1>3, <1>7, <1>8, <3>4, <4>1
      <4>3. x \in 1 .. k /\ Excuse(x, k)
        BY <1>4, <3>1, <4>1, <4>2
      <4>4. QED BY <3>1, <4>3
    <3>5. QED BY <1>3, <3>2, <3>3, <3>4
  <2>3. ASSUME NEW i \in 1 .. Len(printed'), printed'[i] # i
        PROVE  printed'[i] < i /\ \E j \in 1 .. i : Excuse(j, i)
    <3>1. CASE i \in 1 .. Len(printed)
      BY <1>4, <2>1, <2>3, <3>1
    <3>2. CASE i = k
      BY <1>4, <2>2, <2>3, <3>2
    <3>3. QED BY <1>8, <3>1, <3>2
  <2>4. DOMAIN printed' = 1 .. Len(printed')
    BY <1>4
  <2>5. QED BY <1>1, <2>3, <2>4 DEF N!AnswersMatch
<1>11. N!StaysWithServer'
  <2>1. ASSUME NEW i \in DOMAIN printed, printed[i] = N!Foreign
        PROVE  i \in DOMAIN printed' /\ printed'[i] = N!Foreign
    BY <1>2, <1>4, <2>1
  <2>2. CASE address' = address
    BY <2>1, <2>2 DEF NumberInv, N!StaysWithServer
  <2>3. CASE x = N!Foreign
    <3>1. k \in DOMAIN printed' /\ printed'[k] = N!Foreign
      BY <1>4, <2>3
    <3>2. QED BY <3>1 DEF N!StaysWithServer
  <2>4. CASE address' = "server"
    BY <2>4 DEF N!StaysWithServer
  <2>5. QED BY <1>1, <2>2, <2>3, <2>4
<1>12. QED BY <1>5, <1>6, <1>9, <1>10, <1>11 DEF NumberInv

\* A copy of an answer, or a stray packet, arrives.
LEMMA ArriveStep ==
  ASSUME NumberInv, (\E k \in DOMAIN to : N!Arrive(k)) \/ N!ArriveForeign
  PROVE  NumberInv'
<1> USE ServersAssumption
<1>1. PICK k \in Nat :
        /\ numberClient = "inf22_0" /\ packets' = Append(packets, k)
        /\ \/ k \in DOMAIN to /\ copies' = [copies EXCEPT ![k] = @ + 1]
           \/ k = 0 /\ copies' = copies
        /\ UNCHANGED <<numberClient, numbers, word, state, asked, parts, taken, closed, to,
                       address, printed>>
  <2>1. ASSUME NEW k \in DOMAIN to, N!Arrive(k)
        PROVE  /\ k \in Nat /\ numberClient = "inf22_0" /\ packets' = Append(packets, k)
               /\ copies' = [copies EXCEPT ![k] = @ + 1]
               /\ UNCHANGED <<numberClient, numbers, word, state, asked, parts, taken, closed,
                              to, address, printed>>
    BY <2>1 DEF N!Arrive, N!input, N!stream, NumberInv, NumberTypes
  <2>2. CASE N!ArriveForeign
    <3>1. /\ 0 \in Nat /\ numberClient = "inf22_0" /\ packets' = Append(packets, 0)
          /\ copies' = copies
          /\ UNCHANGED <<numberClient, numbers, word, state, asked, parts, taken, closed,
                         to, address, printed>>
      BY <2>2 DEF N!ArriveForeign, N!Foreign, N!input, N!stream
    <3>2. QED BY <3>1
  <2>3. QED BY <2>1, <2>2
<1>2. /\ asked \in Nat /\ copies \in Seq(Nat) /\ Len(copies) = asked /\ Len(to) = asked
      /\ printed \in Seq({N!Mixed} \cup 0 .. asked) /\ packets \in Seq(0 .. asked)
      /\ to \in Seq({"server", "foreigner"})
  BY <1>1 DEF NumberInv, NumberTypes, N!TypeOK, CopiesCame
<1>3. k \in 0 .. asked /\ (k > 0 => k \in 1 .. Len(copies))
  BY <1>1, <1>2
<1>4. /\ copies' \in Seq(Nat) /\ Len(copies') = asked
      /\ \A j \in 1 .. Len(copies) : /\ copies'[j] \in Nat /\ copies'[j] >= copies[j]
                                     /\ j = k => copies'[j] = copies[j] + 1
  <2>1. CASE k \in DOMAIN to /\ copies' = [copies EXCEPT ![k] = @ + 1]
    BY SMTT(40), <1>2, <1>3, <2>1
  <2>2. CASE k = 0 /\ copies' = copies
    BY <1>2, <2>2
  <2>3. QED BY <1>1, <2>1, <2>2
<1>5. /\ packets' \in Seq(0 .. asked) /\ Len(packets') = Len(packets) + 1
      /\ Len(packets) \in Nat /\ packets'[Len(packets) + 1] = k
      /\ \A j \in 1 .. Len(packets) : packets'[j] = packets[j]
  BY <1>1, <1>2, <1>3
<1>6. NumberTypes'
  BY <1>1, <1>2, <1>4, <1>5 DEF NumberInv, NumberTypes, N!TypeOK
<1>7. SentAndPrinted' /\ StreamRead'
  BY <1>1 DEF NumberInv, SentAndPrinted, StreamRead
<1>8. N!AnswersMatch' /\ N!StaysWithServer'
  BY <1>1, <1>2, <1>4, Unprinted
<1>9. CopiesCame'
  <2> DEFINE m == Len(packets) + 1
  <2>1. /\ \A j \in 1 .. Len(printed) : printed[j] > 0 => printed[j] \in 1 .. Len(copies)
        /\ \A j \in 1 .. Len(packets) : packets[j] > 0 => packets[j] \in 1 .. Len(copies)
    BY <1>2, NumbersSent DEF NumberInv
  <2>2. \A j \in 1 .. Len(packets') : j \in 1 .. Len(packets) \/ j = m
    BY <1>5
  <2>3. /\ \A j \in 1 .. Len(printed) : printed[j] > 0 => copies[printed[j]] > 0
        /\ \A j \in 1 .. Len(packets) : packets[j] > 0 => copies[packets[j]] > 0
        /\ \A i, j \in 1 .. Len(printed) :
             i # j /\ printed[i] = printed[j] /\ printed[i] > 0 => copies[printed[i]] > 1
        /\ \A i, j \in 1 .. Len(packets) :
             i # j /\ packets[i] = packets[j] /\ packets[i] > 0 => copies[packets[i]] > 1
        /\ \A i \in 1 .. Len(printed), j \in 1 .. Len(packets) :
             printed[i] = packets[j] /\ printed[i] > 0 => copies[printed[i]] > 1
    BY <1>1 DEF NumberInv, CopiesCame
  <2>4. \A j \in 1 .. Len(copies) : copies[j] \in Nat /\ copies'[j] \in Nat
    BY <1>2, <1>4
  <2>5. \A j \in 1 .. Len(printed) : printed[j] > 0 => copies'[printed[j]] > 0
    BY <1>4, <2>1, <2>3, <2>4
  <2>6. k > 0 => copies'[k] > 0
    BY <1>3, <1>4, <2>4
  <2>7. \A j \in 1 .. Len(packets') : packets'[j] > 0 => copies'[packets'[j]] > 0
    <3>1. \A j \in 1 .. Len(packets) : packets[j] > 0 => copies'[packets[j]] > 0
      BY <1>4, <2>1, <2>3, <2>4
    <3>2. QED BY <1>5, <2>2, <2>6, <3>1
  <2>8. \A i, j \in 1 .. Len(printed) :
          i # j /\ printed[i] = printed[j] /\ printed[i] > 0 => copies'[printed[i]] > 1
    BY SMTT(40), <1>4, <2>1, <2>3, <2>4
  <2>9. ASSUME NEW i \in 1 .. Len(packets), packets[i] = k, k > 0 PROVE copies'[k] > 1
    <3>1. copies[k] > 0 /\ k \in 1 .. Len(copies)
      BY <1>3, <2>3, <2>9
    <3>2. QED BY <1>4, <2>4, <3>1
  <2>10. \A i, j \in 1 .. Len(packets') :
           i # j /\ packets'[i] = packets'[j] /\ packets'[i] > 0 => copies'[packets'[i]] > 1
    <3>1. ASSUME NEW i \in 1 .. Len(packets), NEW j \in 1 .. Len(packets),
                 i # j, packets[i] = packets[j], packets[i] > 0
          PROVE  copies'[packets[i]] > 1
      BY <1>4, <2>1, <2>3, <2>4, <3>1
    <3>2. QED BY <1>5, <2>2, <2>9, <3>1
  <2>11. ASSUME NEW i \in 1 .. Len(printed), NEW j \in 1 .. Len(packets'),
                printed[i] = packets'[j], printed[i] > 0
         PROVE  copies'[printed[i]] > 1
    <3>1. CASE j \in 1 .. Len(packets)
      <4>1. copies[printed[i]] > 1 /\ printed[i] \in 1 .. Len(copies)
        BY <1>5, <2>1, <2>3, <2>11, <3>1
      <4>2. QED BY <1>4, <2>4, <4>1
    <3>2. CASE j = m
      <4>1. k > 0 /\ copies[k] > 0 /\ printed[i] = k
        BY <1>5, <2>3, <2>11, <3>2
      <4>2. QED BY <1>3, <1>4, <2>4, <4>1
    <3>3. QED BY <2>2, <3>1, <3>2
  <2>12. QED BY <1>1, <1>4, <2>5, <2>7, <2>8, <2>10, <2>11 DEF CopiesCame
<1>10. QED BY <1>6, <1>7, <1>8, <1>9 DEF NumberInv

\* Each step keeps NumberInv.
LEMMA NumbersKeep == NumberInv /\ (N!Next \/ UNCHANGED numberVars) => NumberInv'
<1>1. NumberInv /\ UNCHANGED numberVars => NumberInv'
  BY DEF numberVars, NumberInv, NumberTypes, SentAndPrinted, StreamRead, CopiesCame,
         N!TypeOK, N!AnswersMatch, N!StaysWithServer
<1>2. QED
  BY <1>1, ScanStep, WriteStep, SendtoStep, ReadStep, RecvfromStep, ArrivePartStep, ArriveStep
     DEF N!Next, N!Client

\* inf16-0.c and inf22-0.c, for any numbers, sizes and behaviour of the network: a
\* printed number is the answer to the one sent before it, or there is a cause.
THEOREM NumbersAnswered == AllSpec => []N!Inv
<1>1. AllInit => NumberInv
  BY NumbersBegin DEF AllInit
<1>2. NumberInv /\ [AllNext]_allVars => NumberInv'
  <2>1. [AllNext]_allVars => N!Next \/ UNCHANGED numberVars
    BY DEF AllNext, allVars
  <2>2. QED BY <2>1, NumbersKeep
<1>3. NumberInv => N!Inv
  BY DEF NumberInv, NumberTypes, SentAndPrinted, N!Inv, N!WordsAreNoEnd
<1>4. QED BY <1>1, <1>2, <1>3, PTL DEF AllSpec

\* inf16-0.c, inf16-1.c, inf16-2.c, inf17-1.c, inf22-0.c: the invariant of the run,
\* for any number of clients and signals, any numbers and any network.
THEOREM EveryAnswerIsRight == AllSpec => []AnswersAreRight
<1>1. S!Inv /\ N!Inv => AnswersAreRight
  BY DEF AnswersAreRight
<1>2. QED BY <1>1, ServersAnswer, NumbersAnswered, PTL
=============================================================================
