---------------------------- MODULE SignalsProofs ----------------------------
(***************************************************************************)
(* The programs that signal each other: inf20-2.c, whose barman stops the  *)
(* smokers with SIGTERM (Smokers), and those of MCSignals, one after the   *)
(* other.  MCSignals instantiates three modules; what is proved of each is *)
(* an invariant of all its behaviours, those of the two others included,   *)
(* in which its variables stand still.                                     *)
(***************************************************************************)
EXTENDS Smokers, MCSignals, SequenceTheorems, FiniteSetTheorems, FunctionTheorems, TLAPS

-----------------------------------------------------------------------------
(***************************************************************************)
(* inf20-2.c.  The posts of take are counted, and the letters follow them. *)
(***************************************************************************)
\* Number of children between taking a post and giving back.
Busy(s) == IF Serves(s) THEN 1 ELSE 0
Load == take + give + Busy(0) + Busy(1) + Busy(2)

Kinds ==
  /\ TypeOK
  /\ barman \in {"read", "wait"} => n = 0
  /\ barman = "killAgain" => n < 3

\* Every post of take is still there, with a child, given back, or used up by
\* a child that has returned.
Posts ==
  /\ barman \in {"fork", "read", "kill"} => Load = 0
  /\ barman = "wait" => Load = 1
  /\ barman = "post" => Load <= n
  /\ barman = "killAgain" => Load <= n + 1
  /\ barman \in {"reap", "returned"} => Load <= 3

\* Nobody is signalled before the end of the input, everybody before the last
\* posts.
Told(s) == pending[s] \/ ~checker[s] \/ smoker[s] \in Ended
Signals ==
  /\ barman \in {"fork", "read", "wait"} => \A s \in Smokers : checker[s] /\ ~pending[s]
  /\ barman = "kill" => \A s \in Smokers : s < n => Told(s)
  /\ barman \in {"post", "killAgain", "reap", "returned"} => \A s \in Smokers : Told(s)

\* The letter on its way has been printed.
Printed == give > 0 \/ \E s \in Smokers : smoker[s] = "give"
Lengths ==
  /\ barman \in {"fork", "read", "kill"} => Len(output) = Len(read)
  /\ barman = "wait" => /\ Len(read) > 0 /\ item = read[Len(read)]
                        /\ Len(output) = IF Printed THEN Len(read) ELSE Len(read) - 1
  /\ Len(output) >= Len(read) \/ barman = "wait"

InOrder == \A k \in 1 .. Len(read) : k <= Len(output) => output[k].item = read[k]

\* Who has printed more than the input will never print again.
Extras ==
  /\ \A k \in Len(read) + 1 .. Len(output) :
       /\ output[k].item = item /\ ~checker[output[k].by]
       /\ smoker[output[k].by] \in {"give", "test", "returned"}
  /\ \A j, k \in Len(read) + 1 .. Len(output) : output[j].by = output[k].by => j = k

SmokersInv == Kinds /\ Posts /\ Signals /\ Lengths /\ InOrder /\ Extras

LEMMA SmokersInvInit == Init => SmokersInv
  <1> SUFFICES ASSUME Init PROVE SmokersInv
    OBVIOUS
  <1> USE DEF Init, Smokers
  <1>1. Kinds
    <2>1. input \in Seq(0 .. 255)
      BY InputsAssumption
    <2>2. checker \in [Smokers -> BOOLEAN] /\ pending \in [Smokers -> BOOLEAN]
      BY Zenon
    <2> QED BY <2>1, <2>2 DEF Kinds, TypeOK
  <1>2. Posts
    BY DEF Posts, Load, Busy, Serves
  <1>3. Signals
    BY DEF Signals
  <1>4. Lengths /\ InOrder /\ Extras
    BY DEF Lengths, InOrder, Extras
  <1> QED BY <1>1, <1>2, <1>3, <1>4 DEF SmokersInv

\* A child at one place more or less.
LEMMA BusyAfterMove ==
  ASSUME TypeOK, NEW s \in Smokers, NEW x, smoker' = [smoker EXCEPT ![s] = x]
  PROVE  /\ smoker'[s] = x /\ \A r \in Smokers : r # s => smoker'[r] = smoker[r]
         /\ Busy(0)' \in 0 .. 1 /\ Busy(1)' \in 0 .. 1 /\ Busy(2)' \in 0 .. 1
         /\ Busy(0)' + Busy(1)' + Busy(2)'
              = Busy(0) + Busy(1) + Busy(2) - Busy(s)
                + (IF x \in {"check", "print", "give"} THEN 1 ELSE 0)
  <1>1. smoker'[s] = x /\ \A r \in Smokers : r # s => smoker'[r] = smoker[r]
    BY DEF TypeOK
  <1>2. s \in {0, 1, 2}
    BY DEF Smokers
  <1> QED BY <1>1, <1>2 DEF Busy, Serves, Smokers

LEMMA BusyIsCount ==
  \A s \in Smokers : Busy(s) \in 0 .. 1 /\ (Busy(s) = 1 <=> Serves(s))
  BY DEF Busy

\* What a load of none or one means.
LEMMA LoadIsOneLetter ==
  ASSUME Kinds, Load \in 0 .. 1
  PROVE  /\ Load = 0 => take = 0 /\ give = 0 /\ NobodyServes
         /\ Load = 1 => \/ take = 1 /\ give = 0 /\ NobodyServes
                        \/ take = 0 /\ give = 0 /\ OneServes
                        \/ take = 0 /\ give = 1 /\ NobodyServes
  <1> DEFINE b0 == Busy(0) b1 == Busy(1) b2 == Busy(2)
  <1>1. /\ b0 \in 0 .. 1 /\ b1 \in 0 .. 1 /\ b2 \in 0 .. 1
        /\ (b0 = 1 <=> Serves(0)) /\ (b1 = 1 <=> Serves(1)) /\ (b2 = 1 <=> Serves(2))
    BY BusyIsCount DEF Smokers
  <1>2. take \in 0 .. 3 /\ give \in 0 .. 3 /\ Load = take + give + b0 + b1 + b2
    BY DEF Kinds, TypeOK, Load
  <1>3. NobodyServes <=> b0 = 0 /\ b1 = 0 /\ b2 = 0
    BY <1>1 DEF NobodyServes, Smokers
  <1>4. ASSUME b0 + b1 + b2 = 1 PROVE OneServes
    <2>1. \/ Serves(0) /\ ~Serves(1) /\ ~Serves(2)
          \/ ~Serves(0) /\ Serves(1) /\ ~Serves(2)
          \/ ~Serves(0) /\ ~Serves(1) /\ Serves(2)
      BY <1>1, <1>4
    <2>2. Smokers = {0, 1, 2}
      BY DEF Smokers
    <2> QED BY <2>1, <2>2 DEF OneServes
  <1> HIDE DEF b0, b1, b2
  <1> QED BY <1>1, <1>2, <1>3, <1>4

LEMMA SmokersInvGivesInv == SmokersInv => Inv
  <1> SUFFICES ASSUME SmokersInv PROVE Inv
    OBVIOUS
  <1> USE DEF SmokersInv
  <1>1. OneLetterAtATime
    BY LoadIsOneLetter DEF Posts, OneLetterAtATime
  <1>2. OutputFollowsInput
    <2>1. barman \in {"fork", "read", "wait", "kill", "post", "killAgain", "reap", "returned"}
      BY DEF Kinds, TypeOK
    <2>2. Len(output) \in Nat /\ Len(read) \in Nat
      BY DEF Kinds, TypeOK
    <2> QED BY <2>1, <2>2 DEF Lengths, InOrder, OutputFollowsInput
  <1> QED BY <1>1, <1>2 DEF Inv, Kinds

LEMMA SmokersInvGivesOnlyTheLastItemRepeats == SmokersInv => OnlyTheLastItemRepeats
  BY DEF SmokersInv, Extras, OnlyTheLastItemRepeats

-----------------------------------------------------------------------------
LEMMA LoadType == Kinds => Load \in Nat /\ take \in Nat /\ give \in Nat
  BY BusyIsCount DEF Kinds, TypeOK, Load, Smokers

LEMMA LengthTypes == Kinds => Len(output) \in Nat /\ Len(read) \in Nat
  BY DEF Kinds, TypeOK

LEMMA HeadAndTail ==
  ASSUME NEW S, NEW q \in Seq(S), q # <<>>
  PROVE  Head(q) \in S /\ Tail(q) \in Seq(S)
  OBVIOUS

LEMMA ElementOf ==
  ASSUME NEW S, NEW q \in Seq(S), NEW k \in 1 .. Len(q) PROVE q[k] \in S
  OBVIOUS

LEMMA ForkKeepsSmokersInv == SmokersInv /\ Fork => SmokersInv'
  <1> SUFFICES ASSUME SmokersInv, Fork PROVE SmokersInv'
    OBVIOUS
  <1> USE DEF SmokersInv, Fork, shared
  <1>1. Kinds'
    BY DEF Kinds, TypeOK, Smokers
  <1>2. Load' = 0
    <2>1. CASE n < 3
      <3>1. n \in Smokers /\ TypeOK
        BY <2>1 DEF Kinds, TypeOK, Smokers
      <3>2. PICK s \in Smokers : s = n
        BY <3>1
      <3>3. Busy(s) = 0
        BY LoadIsOneLetter DEF Posts, NobodyServes, Busy
      <3>4. smoker' = [smoker EXCEPT ![s] = "born"]
        BY <2>1, <3>2
      <3>5. /\ Busy(0)' \in 0 .. 1 /\ Busy(1)' \in 0 .. 1 /\ Busy(2)' \in 0 .. 1
            /\ Busy(0)' + Busy(1)' + Busy(2)' = Busy(0) + Busy(1) + Busy(2) - Busy(s)
                 + (IF "born" \in {"check", "print", "give"} THEN 1 ELSE 0)
        BY <3>1, <3>4, BusyAfterMove
      <3>6. Busy(0)' + Busy(1)' + Busy(2)' = Busy(0) + Busy(1) + Busy(2)
        BY <3>3, <3>5, BusyIsCount DEF Smokers
      <3>7. UNCHANGED <<take, give>> /\ Load = 0
        BY DEF Posts
      <3> QED BY <3>5, <3>6, <3>7, BusyIsCount, LoadType DEF Load, Smokers
    <2>2. CASE ~(n < 3)
      BY <2>2 DEF Load, Busy, Serves, Posts
    <2> QED BY <2>1, <2>2
  <1>3. Posts'
    BY <1>2 DEF Posts
  <1>4. Signals'
    BY DEF Signals
  <1>5. Lengths' /\ InOrder' /\ Extras'
    BY LengthTypes DEF Lengths, InOrder, Extras
  <1> QED BY <1>1, <1>3, <1>4, <1>5

LEMMA OfferKeepsSmokersInv == SmokersInv /\ Offer => SmokersInv'
  <1> SUFFICES ASSUME SmokersInv, Offer PROVE SmokersInv'
    OBVIOUS
  <1> USE DEF SmokersInv, Offer, children
  <1>1. /\ Head(input) \in 0 .. 255 /\ input' \in Seq(0 .. 255)
        /\ take = 0 /\ give = 0 /\ NobodyServes /\ Len(output) = Len(read)
    <2>1. input # <<>> /\ input \in Seq(0 .. 255)
      BY DEF AtEnd, Kinds, TypeOK
    <2>2. Head(input) \in 0 .. 255 /\ Tail(input) \in Seq(0 .. 255)
      BY <2>1, HeadAndTail
    <2>3. take = 0 /\ give = 0 /\ NobodyServes
      BY LoadIsOneLetter DEF Posts
    <2> QED BY <2>2, <2>3 DEF Lengths
  <1>2. CASE isalpha(Head(input))
    <2>1. toupper(Head(input)) \in 65 .. 90
      BY <1>1, <1>2 DEF isalpha, toupper
    <2>2. /\ item' = toupper(Head(input)) /\ read' = Append(read, item')
          /\ take' = take + 1 /\ barman' = "wait"
      BY <1>2
    <2>3. /\ Len(read) \in Nat /\ Len(read') = Len(read) + 1 /\ read'[Len(read')] = item'
          /\ \A k \in 1 .. Len(read) : read'[k] = read[k]
      BY <2>1, <2>2 DEF Kinds, TypeOK
    <2>4. Kinds'
      BY <1>1, <2>1, <2>2 DEF Kinds, TypeOK
    <2>5. Posts'
      BY <1>1, <2>2, BusyIsCount DEF Posts, Load, Busy, Serves, Smokers
    <2>6. Signals'
      BY <2>2 DEF Signals
    <2>7. ~Printed'
      BY <1>1 DEF Printed, NobodyServes, Serves
    <2>8. Lengths'
      BY <1>1, <2>2, <2>3, <2>7 DEF Lengths
    <2>9. InOrder' /\ Extras'
      BY <1>1, <2>3 DEF InOrder, Extras
    <2> QED BY <2>4, <2>5, <2>6, <2>8, <2>9
  <1>3. CASE ~isalpha(Head(input))
    <2>1. UNCHANGED <<item, read, take, give, barman, n, smoker, checker, pending, output>>
      BY <1>3
    <2>2. Kinds'
      BY <1>1, <2>1 DEF Kinds, TypeOK
    <2>3. Posts' /\ Signals'
      BY <2>1 DEF Posts, Load, Busy, Serves, Signals, Told
    <2>4. Lengths' /\ InOrder' /\ Extras'
      BY <2>1 DEF Lengths, Printed, InOrder, Extras
    <2> QED BY <2>2, <2>3, <2>4
  <1> QED BY <1>2, <1>3

LEMMA AwaitKeepsSmokersInv == SmokersInv /\ Await => SmokersInv'
  <1> SUFFICES ASSUME SmokersInv, Await PROVE SmokersInv'
    OBVIOUS
  <1> USE DEF SmokersInv, Await, children
  <1>1. Kinds'
    BY DEF Kinds, TypeOK
  <1>2. Load' = Load - 1
    BY LoadType, BusyIsCount DEF Load, Busy, Serves, Smokers
  <1>3. Posts'
    BY <1>2 DEF Posts
  <1>4. Signals'
    BY DEF Signals
  <1>5. Len(output) = Len(read)
    BY LoadType DEF Lengths, Printed
  <1>6. Lengths' /\ InOrder' /\ Extras'
    BY <1>5, LengthTypes DEF Lengths, InOrder, Extras
  <1> QED BY <1>1, <1>3, <1>4, <1>6

LEMMA EndOfInputKeepsSmokersInv == SmokersInv /\ EndOfInput => SmokersInv'
  <1> SUFFICES ASSUME SmokersInv, EndOfInput PROVE SmokersInv'
    OBVIOUS
  <1> USE DEF SmokersInv, EndOfInput, shared, children
  <1>1. Kinds'
    BY DEF Kinds, TypeOK
  <1>2. Posts'
    BY DEF Posts, Load, Busy, Serves
  <1>3. Signals'
    BY DEF Signals, Smokers, Kinds
  <1>4. Lengths' /\ InOrder' /\ Extras'
    BY DEF Lengths, InOrder, Extras
  <1> QED BY <1>1, <1>2, <1>3, <1>4

\* A kill tells one child and changes nothing else of it.
LEMMA SignalledIsTold ==
  ASSUME Kinds, NEW s \in Smokers, pending' = Signalled(s), UNCHANGED <<smoker, checker>>
  PROVE  /\ pending' \in [Smokers -> BOOLEAN]
         /\ Told(s)' /\ \A r \in Smokers : Told(r) => Told(r)'
  BY DEF Kinds, TypeOK, Signalled, Told

LEMMA KillKeepsSmokersInv == SmokersInv /\ (Kill \/ KillAgain) => SmokersInv'
  <1> SUFFICES ASSUME SmokersInv, Kill \/ KillAgain PROVE SmokersInv'
    OBVIOUS
  <1> USE DEF SmokersInv, shared
  <1>1. UNCHANGED <<input, read, item, take, give, smoker, checker, output>>
    BY DEF Kill, KillAgain
  <1>2. Load' = Load /\ InOrder' /\ Extras'
    BY <1>1 DEF Load, Busy, Serves, InOrder, Extras
  <1>3. CASE n < 3
    <2>1. n \in Smokers /\ n \in Nat
      BY <1>3 DEF Kinds, TypeOK, Smokers
    <2>2. /\ pending' = Signalled(n) /\ n' = n + 1
          /\ \/ barman = "kill" /\ barman' = "kill"
             \/ barman = "killAgain" /\ barman' = "post"
      BY <1>3 DEF Kill, KillAgain
    <2>3. PICK s \in Smokers : s = n /\ pending' = Signalled(s)
      BY <2>1, <2>2
    <2>30. pending' \in [Smokers -> BOOLEAN] /\ Told(s)' /\ \A r \in Smokers : Told(r) => Told(r)'
      BY <1>1, <2>3, SignalledIsTold
    <2>4. Kinds'
      BY <1>1, <2>1, <2>2, <2>30, <1>3 DEF Kinds, TypeOK
    <2>5. Posts'
      BY <1>2, <2>2 DEF Posts
    <2>6. Signals'
      BY <2>1, <2>2, <2>3, <2>30 DEF Signals, Smokers
    <2>7. Lengths'
      BY <1>1, <2>2, LengthTypes DEF Lengths
    <2> QED BY <1>2, <2>4, <2>5, <2>6, <2>7
  <1>4. CASE ~(n < 3)
    <2>1. n = 3 /\ barman = "kill" /\ barman' = "post" /\ n' = 0 /\ UNCHANGED pending
      BY <1>4 DEF Kill, KillAgain, Kinds, TypeOK
    <2>2. Kinds'
      BY <1>1, <2>1 DEF Kinds, TypeOK
    <2>3. Posts'
      BY <1>2, <2>1 DEF Posts
    <2>4. Signals'
      BY <1>1, <2>1 DEF Signals, Smokers, Told
    <2>5. Lengths'
      BY <1>1, <2>1, LengthTypes DEF Lengths
    <2> QED BY <1>2, <2>2, <2>3, <2>4, <2>5
  <1> QED BY <1>3, <1>4

LEMMA LastPostKeepsSmokersInv == SmokersInv /\ LastPost => SmokersInv'
  <1> SUFFICES ASSUME SmokersInv, LastPost PROVE SmokersInv'
    OBVIOUS
  <1> USE DEF SmokersInv, LastPost, children
  <1>1. Load <= n /\ n \in 0 .. 3 /\ take <= Load /\ take \in 0 .. 3 /\ Load \in Nat
    BY BusyIsCount, LoadType DEF Posts, Kinds, TypeOK, Load, Smokers
  <1>2. Kinds'
    BY <1>1 DEF Kinds, TypeOK
  <1>3. Load' = IF n < 3 THEN Load + 1 ELSE Load
    BY BusyIsCount, LoadType DEF Load, Busy, Serves, Smokers
  <1>4. Posts'
    BY <1>1, <1>3 DEF Posts
  <1>5. Signals'
    BY DEF Signals, Told
  <1>6. Lengths' /\ InOrder' /\ Extras'
    BY DEF Lengths, InOrder, Extras
  <1> QED BY <1>2, <1>4, <1>5, <1>6

LEMMA ReapKeepsSmokersInv == SmokersInv /\ Reap => SmokersInv'
  <1> SUFFICES ASSUME SmokersInv, Reap PROVE SmokersInv'
    OBVIOUS
  <1> USE DEF SmokersInv, Reap, shared, children
  <1>1. Kinds'
    BY DEF Kinds, TypeOK
  <1>2. Posts' /\ Signals'
    BY DEF Posts, Load, Busy, Serves, Signals, Told
  <1>3. Lengths' /\ InOrder' /\ Extras'
    BY DEF Lengths, InOrder, Extras
  <1> QED BY <1>1, <1>2, <1>3

-----------------------------------------------------------------------------
\* The steps of a child: what a move between places does to the posts ...
LEMMA LoadAfterMove ==
  ASSUME Kinds, NEW s \in Smokers, NEW x, smoker' = [smoker EXCEPT ![s] = x],
         take' \in Nat, give' \in Nat
  PROVE  Load' = (Load + take' + give' + (IF x \in {"check", "print", "give"} THEN 1 ELSE 0))
                   - (take + give + Busy(s))
  <1> DEFINE e == IF x \in {"check", "print", "give"} THEN 1 ELSE 0
  <1>1. TypeOK
    BY DEF Kinds
  <1>2. /\ Busy(0)' \in 0 .. 1 /\ Busy(1)' \in 0 .. 1 /\ Busy(2)' \in 0 .. 1
        /\ Busy(0)' + Busy(1)' + Busy(2)' = Busy(0) + Busy(1) + Busy(2) - Busy(s)
             + (IF x \in {"check", "print", "give"} THEN 1 ELSE 0)
    BY <1>1, BusyAfterMove
  <1>3. /\ Busy(0) \in 0 .. 1 /\ Busy(1) \in 0 .. 1 /\ Busy(2) \in 0 .. 1
        /\ Busy(s) \in 0 .. 1 /\ e \in 0 .. 1
    BY BusyIsCount DEF Smokers
  <1>4. take \in Nat /\ give \in Nat
    BY <1>1 DEF TypeOK
  <1>5. Load' = take' + give' + Busy(0)' + Busy(1)' + Busy(2)'
    BY DEF Load
  <1> QED BY <1>2, <1>3, <1>4, <1>5 DEF Load

LEMMA PostsKept ==
  ASSUME Kinds, Posts, UNCHANGED <<barman, n>>, Load' \in Int, Load' >= 0,
         Load' <= Load, barman = "wait" => Load' = Load
  PROVE  Posts'
  <1>1. Load \in Nat /\ n \in 0 .. 3
    BY LoadType DEF Kinds, TypeOK
  <1> HIDE DEF Load
  <1> QED BY <1>1 DEF Posts

\* ... and what the delivery of a signal does to the flags.
LEMMA LeaveKernelTells ==
  ASSUME Kinds, NEW s \in Smokers, LeaveKernel(s)
  PROVE  /\ checker' \in [Smokers -> BOOLEAN] /\ pending' \in [Smokers -> BOOLEAN]
         /\ \A r \in Smokers : checker[r] /\ ~pending[r] => checker'[r] /\ ~pending'[r]
         /\ \A r \in Smokers : ~checker[r] => ~checker'[r]
         /\ pending[s] \/ ~checker[s] => ~checker'[s]
         /\ \A r \in Smokers : r # s => checker'[r] = checker[r] /\ pending'[r] = pending[r]
  BY DEF Kinds, TypeOK, LeaveKernel

\* Steps that print nothing.
LEMMA OutputKept ==
  ASSUME SmokersInv, NEW s \in Smokers,
         UNCHANGED <<input, read, item, barman, n, output>>,
         \A r \in Smokers : r # s => smoker'[r] = smoker[r],
         \A r \in Smokers : ~checker[r] => ~checker'[r],
         barman = "wait" => (Printed' <=> Printed),
         smoker[s] \in {"give", "test", "returned"} /\ ~checker[s]
           => smoker'[s] \in {"give", "test", "returned"}
  PROVE  Lengths' /\ InOrder' /\ Extras'
  <1> USE DEF SmokersInv
  <1>1. Lengths' /\ InOrder'
    BY DEF Lengths, InOrder
  <1>2. \A k \in Len(read) + 1 .. Len(output) : output[k].by \in Smokers
    <2> SUFFICES ASSUME NEW k \in Len(read) + 1 .. Len(output) PROVE output[k].by \in Smokers
      OBVIOUS
    <2>1. k \in 1 .. Len(output)
      BY LengthTypes
    <2>2. output \in Seq([by : Smokers, item : 0 .. 255])
      BY DEF Kinds, TypeOK
    <2>3. output[k] \in [by : Smokers, item : 0 .. 255]
      BY <2>1, <2>2, ElementOf
    <2> QED BY <2>3
  <1>3. Extras'
    BY <1>2 DEF Extras
  <1> QED BY <1>1, <1>3

LEMMA SigactionKeepsSmokersInv ==
  ASSUME SmokersInv, NEW s \in Smokers, Sigaction(s) PROVE SmokersInv'
  <1> USE DEF SmokersInv, Sigaction, Goes, shared
  <1>1. /\ smoker'[s] = "test" /\ \A r \in Smokers : r # s => smoker'[r] = smoker[r]
        /\ LeaveKernel(s)
    BY BusyAfterMove DEF Kinds
  <1>2. Kinds'
    BY <1>1, LeaveKernelTells DEF Kinds, TypeOK
  <1>3. Load' = Load
    <2>1. take \in Nat /\ give \in Nat /\ Load \in Nat /\ Busy(s) = 0
      BY LoadType DEF Busy, Serves
    <2>2. take' \in Nat /\ give' \in Nat /\ smoker' = [smoker EXCEPT ![s] = "test"]
      BY <2>1
    <2>3. Load' = (Load + take' + give' + (IF "test" \in {"check", "print", "give"} THEN 1 ELSE 0))
                    - (take + give + Busy(s))
      BY <2>2, LoadAfterMove
    <2> QED BY <2>1, <2>2, <2>3
  <1>4. Posts'
    BY <1>3, LoadType, PostsKept
  <1>5. Signals'
    <2>1. \A r \in Smokers : Told(r) => Told(r)'
      BY <1>1, LeaveKernelTells DEF Told, Ended
    <2> QED BY <1>1, <2>1, LeaveKernelTells DEF Signals
  <1>6. Printed' <=> Printed
    BY <1>1 DEF Printed
  <1>7. Lengths' /\ InOrder' /\ Extras'
    BY <1>1, <1>6, LeaveKernelTells, OutputKept
  <1> QED BY <1>2, <1>4, <1>5, <1>7

LEMMA TestKeepsSmokersInv ==
  ASSUME SmokersInv, NEW s \in Smokers, Test(s) PROVE SmokersInv'
  <1> USE DEF SmokersInv, Test, Goes, shared
  <1> DEFINE x == IF checker[s] THEN "wait" ELSE "returned"
  <1>1. /\ smoker'[s] = x /\ \A r \in Smokers : r # s => smoker'[r] = smoker[r]
    BY BusyAfterMove DEF Kinds
  <1>2. Kinds'
    BY <1>1 DEF Kinds, TypeOK, Ended
  <1>3. Load' = Load
    <2>1. take \in Nat /\ give \in Nat /\ Load \in Nat /\ Busy(s) = 0
      BY LoadType DEF Busy, Serves
    <2>2. take' \in Nat /\ give' \in Nat /\ smoker' = [smoker EXCEPT ![s] = x]
      BY <2>1
    <2>3. Load' = (Load + take' + give' + (IF x \in {"check", "print", "give"} THEN 1 ELSE 0))
                    - (take + give + Busy(s))
      BY <2>2, LoadAfterMove
    <2> QED BY <2>1, <2>2, <2>3
  <1>4. Posts'
    BY <1>3, LoadType, PostsKept
  <1>5. Signals'
    BY <1>1 DEF Signals, Told, Ended
  <1>6. Printed' <=> Printed
    BY <1>1 DEF Printed
  <1>7. Lengths' /\ InOrder' /\ Extras'
    BY <1>1, <1>6, OutputKept
  <1> QED BY <1>2, <1>4, <1>5, <1>7

LEMMA TakeKeepsSmokersInv ==
  ASSUME SmokersInv, NEW s \in Smokers, Take(s) PROVE SmokersInv'
  <1> USE DEF SmokersInv, Take, Goes
  <1>1. /\ smoker'[s] = "check" /\ \A r \in Smokers : r # s => smoker'[r] = smoker[r]
    BY BusyAfterMove DEF Kinds
  <1>2. Kinds'
    BY <1>1 DEF Kinds, TypeOK
  <1>3. Load' = Load
    <2>1. take \in Nat /\ take' \in Nat /\ give \in Nat /\ Load \in Nat /\ Busy(s) = 0
      BY LoadType DEF Busy, Serves
    <2>2. take' \in Nat /\ give' \in Nat /\ smoker' = [smoker EXCEPT ![s] = "check"]
      BY <2>1
    <2>3. Load' = (Load + take' + give' + (IF "check" \in {"check", "print", "give"} THEN 1 ELSE 0))
                    - (take + give + Busy(s))
      BY <2>2, LoadAfterMove
    <2> QED BY <2>1, <2>2, <2>3
  <1>4. Posts'
    BY <1>3, LoadType, PostsKept
  <1>5. Signals'
    BY <1>1 DEF Signals, Told, Ended
  <1>6. Printed' <=> Printed
    BY <1>1 DEF Printed
  <1>7. Lengths' /\ InOrder' /\ Extras'
    BY <1>1, <1>6, OutputKept
  <1> QED BY <1>2, <1>4, <1>5, <1>7

LEMMA CheckKeepsSmokersInv ==
  ASSUME SmokersInv, NEW s \in Smokers, Check(s) PROVE SmokersInv'
  <1> USE DEF SmokersInv, Check, Goes, shared
  <1> DEFINE x == IF checker[s] THEN "print" ELSE "returned"
  <1>1. /\ smoker'[s] = x /\ \A r \in Smokers : r # s => smoker'[r] = smoker[r]
    BY BusyAfterMove DEF Kinds
  <1>2. Kinds'
    BY <1>1 DEF Kinds, TypeOK, Ended
  <1>3. Load' = IF checker[s] THEN Load ELSE Load - 1
    <2>1. take \in Nat /\ give \in Nat /\ Load \in Nat /\ Busy(s) = 1
      BY LoadType DEF Busy, Serves
    <2>2. take' \in Nat /\ give' \in Nat /\ smoker' = [smoker EXCEPT ![s] = x]
      BY <2>1
    <2>3. Load' = (Load + take' + give' + (IF x \in {"check", "print", "give"} THEN 1 ELSE 0))
                    - (take + give + Busy(s))
      BY <2>2, LoadAfterMove
    <2> QED BY <2>1, <2>2, <2>3
  <1>4. Posts'
    <2>1. Load >= 1
      BY BusyIsCount, LoadType DEF Load, Smokers, Serves
    <2>2. barman = "wait" => checker[s]
      BY DEF Signals
    <2> QED BY <1>3, <2>1, <2>2, LoadType, PostsKept
  <1>5. Signals'
    BY <1>1 DEF Signals, Told, Ended
  <1>6. Printed' <=> Printed
    BY <1>1 DEF Printed
  <1>7. Lengths' /\ InOrder' /\ Extras'
    BY <1>1, <1>6, OutputKept
  <1> QED BY <1>2, <1>4, <1>5, <1>7

LEMMA GiveKeepsSmokersInv ==
  ASSUME SmokersInv, NEW s \in Smokers, Give(s) PROVE SmokersInv'
  <1> USE DEF SmokersInv, Give, Goes
  <1>1. /\ smoker'[s] = "test" /\ \A r \in Smokers : r # s => smoker'[r] = smoker[r]
    BY BusyAfterMove DEF Kinds
  <1>2. Load \in 1 .. 3 /\ give < Load
    <2>1. \A r \in Smokers : Busy(r) \in 0 .. 1
      BY BusyIsCount
    <2>2. Busy(s) = 1 /\ take \in Nat /\ give \in Nat
      BY LoadType DEF Busy, Serves
    <2>3. Load >= give + 1
      BY <2>1, <2>2 DEF Load, Smokers
    <2>4. Load <= 3
      BY <2>3, <2>2, LoadType DEF Posts, Kinds, TypeOK
    <2> QED BY <2>2, <2>3, <2>4, LoadType
  <1>3. Kinds'
    BY <1>1, <1>2 DEF Kinds, TypeOK
  <1>4. Load' = Load
    <2>1. take \in Nat /\ give \in Nat /\ Load \in Nat /\ Busy(s) = 1
      BY LoadType DEF Busy, Serves
    <2>2. take' \in Nat /\ give' \in Nat /\ smoker' = [smoker EXCEPT ![s] = "test"]
      BY <2>1
    <2>3. Load' = (Load + take' + give' + (IF "test" \in {"check", "print", "give"} THEN 1 ELSE 0))
                    - (take + give + Busy(s))
      BY <2>2, LoadAfterMove
    <2> QED BY <2>1, <2>2, <2>3
  <1>5. Posts'
    BY <1>4, LoadType, PostsKept
  <1>6. Signals'
    BY <1>1 DEF Signals, Told, Ended
  <1>7. Printed' /\ Printed
    BY LoadType DEF Printed
  <1>8. Lengths' /\ InOrder' /\ Extras'
    BY <1>1, <1>7, OutputKept
  <1> QED BY <1>3, <1>5, <1>6, <1>8

LEMMA PrintItemKeepsSmokersInv ==
  ASSUME SmokersInv, NEW s \in Smokers, PrintItem(s) PROVE SmokersInv'
  <1> USE DEF SmokersInv, PrintItem, Goes, shared
  <1> DEFINE new == [by |-> s, item |-> item]
  <1>1. /\ smoker'[s] = "give" /\ \A r \in Smokers : r # s => smoker'[r] = smoker[r]
        /\ LeaveKernel(s)
    BY BusyAfterMove DEF Kinds
  <1>2. /\ Len(output) \in Nat /\ Len(output') = Len(output) + 1
        /\ output'[Len(output) + 1] = new
        /\ \A k \in 1 .. Len(output) : output'[k] = output[k]
        /\ output' \in Seq([by : Smokers, item : 0 .. 255])
    BY DEF Kinds, TypeOK
  <1>3. Kinds'
    BY <1>1, <1>2, LeaveKernelTells DEF Kinds, TypeOK
  <1>4. Load' = Load
    <2>1. take \in Nat /\ give \in Nat /\ Load \in Nat /\ Busy(s) = 1
      BY LoadType DEF Busy, Serves
    <2>2. take' \in Nat /\ give' \in Nat /\ smoker' = [smoker EXCEPT ![s] = "give"]
      BY <2>1
    <2>3. Load' = (Load + take' + give' + (IF "give" \in {"check", "print", "give"} THEN 1 ELSE 0))
                    - (take + give + Busy(s))
      BY <2>2, LoadAfterMove
    <2> QED BY <2>1, <2>2, <2>3
  <1>5. Posts'
    BY <1>4, LoadType, PostsKept
  <1>6. Signals'
    <2>1. \A r \in Smokers : Told(r) => Told(r)'
      BY <1>1, LeaveKernelTells DEF Told, Ended
    <2> QED BY <1>1, <2>1, LeaveKernelTells DEF Signals
  \* It is the letter on its way, or one more after the input.
  <1>7. barman \in {"wait", "post", "killAgain", "reap", "returned"}
    <2>1. Load # 0
      <3>1. ~NobodyServes
        BY DEF NobodyServes, Serves
      <3> QED BY <3>1, LoadIsOneLetter
    <2> QED BY <2>1 DEF Posts, Kinds, TypeOK
  <1>8. CASE barman = "wait"
    <2>1. take = 0 /\ give = 0 /\ OneServes
      BY <1>8, LoadIsOneLetter DEF Posts, NobodyServes, Serves
    <2>2. ~Printed
      BY <2>1 DEF Printed, OneServes, Serves
    <2>3. Printed'
      BY <1>1 DEF Printed
    <2>4. Len(output) = Len(read) - 1 /\ Len(read) \in Nat /\ item = read[Len(read)]
      BY <1>8, <2>2, LengthTypes DEF Lengths
    <2>5. Lengths'
      BY <1>2, <1>8, <2>3, <2>4 DEF Lengths
    <2>6. InOrder' /\ Extras'
      BY <1>2, <2>4 DEF InOrder, Extras
    <2> QED BY <1>3, <1>5, <1>6, <2>5, <2>6
  <1>9. CASE barman # "wait"
    <2>1. Len(output) >= Len(read) /\ Len(read) \in Nat
      BY <1>9, LengthTypes DEF Lengths
    <2>2. Lengths'
      BY <1>2, <1>7, <1>9, <2>1 DEF Lengths
    <2>3. InOrder'
      BY <1>2, <2>1 DEF InOrder
    <2>4. ~checker'[s]
      BY <1>1, <1>7, <1>9, LeaveKernelTells DEF Signals, Told, Ended
    <2>5. \A k \in Len(read) + 1 .. Len(output) :
             output[k].by \in Smokers /\ output[k].by # s /\ output'[k] = output[k]
      <3> SUFFICES ASSUME NEW k \in Len(read) + 1 .. Len(output)
                   PROVE output[k].by \in Smokers /\ output[k].by # s /\ output'[k] = output[k]
        OBVIOUS
      <3>1. k \in 1 .. Len(output)
        BY <1>2, <2>1
      <3>2. output \in Seq([by : Smokers, item : 0 .. 255])
        BY DEF Kinds, TypeOK
      <3>3. output[k] \in [by : Smokers, item : 0 .. 255]
        BY <3>1, <3>2, ElementOf
      <3>4. output[k].by # s
        BY DEF Extras
      <3> QED BY <1>2, <3>1, <3>3, <3>4
    <2>6. output'[Len(output) + 1].by = s /\ output'[Len(output) + 1].item = item
      BY <1>2
    <2>7. \A r \in Smokers : ~checker[r] => ~checker'[r]
      BY <1>1, LeaveKernelTells
    <2>8. \A k \in Len(read) + 1 .. Len(output') :
             k \in Len(read) + 1 .. Len(output) \/ k = Len(output) + 1
      BY <1>2, <2>1
    <2>9. Extras'
      BY <1>1, <2>4, <2>5, <2>6, <2>7, <2>8 DEF Extras
    <2> QED BY <1>3, <1>5, <1>6, <2>2, <2>3, <2>9
  <1> QED BY <1>8, <1>9

LEMMA DeliverKeepsSmokersInv ==
  ASSUME SmokersInv, NEW s \in Smokers, Deliver(s) PROVE SmokersInv'
  <1> USE DEF SmokersInv, Deliver, shared
  <1>1. CASE smoker[s] = "born"
    <2>1. smoker' = [smoker EXCEPT ![s] = "killed"] /\ UNCHANGED checker
      BY <1>1
    <2>2. smoker'[s] = "killed" /\ \A r \in Smokers : r # s => smoker'[r] = smoker[r]
      BY <2>1, BusyAfterMove DEF Kinds
    <2>3. Kinds'
      BY <2>1, <2>2 DEF Kinds, TypeOK, Ended
    <2>4. Load' = Load
      <3>1. take \in Nat /\ give \in Nat /\ Load \in Nat /\ Busy(s) = 0
        BY <1>1, LoadType DEF Busy, Serves
      <3>2. Load' = (Load + take' + give' + (IF "killed" \in {"check", "print", "give"} THEN 1 ELSE 0))
                      - (take + give + Busy(s))
        BY <2>1, <3>1, LoadAfterMove
      <3> QED BY <3>1, <3>2
    <2>5. Posts'
      BY <2>4, LoadType, PostsKept
    <2>6. Signals'
      <3>1. \A r \in Smokers : Told(r) => Told(r)'
        BY <2>1, <2>2 DEF Told, Ended, Kinds, TypeOK
      <3> QED BY <2>1, <3>1 DEF Signals
    <2>7. Printed' <=> Printed
      BY <1>1, <2>2 DEF Printed
    <2>8. Lengths' /\ InOrder' /\ Extras'
      BY <1>1, <2>1, <2>2, <2>7, OutputKept
    <2> QED BY <2>3, <2>5, <2>6, <2>8
  <1>2. CASE smoker[s] # "born"
    <2>1. checker' = [checker EXCEPT ![s] = FALSE] /\ UNCHANGED smoker
      BY <1>2
    <2>2. ~checker'[s] /\ \A r \in Smokers : r # s => checker'[r] = checker[r] /\ pending'[r] = pending[r]
      BY <2>1 DEF Kinds, TypeOK
    <2>3. Kinds'
      BY <2>1 DEF Kinds, TypeOK
    <2>4. Posts'
      BY <2>1 DEF Posts, Load, Busy, Serves
    <2>5. Signals'
      <3>1. \A r \in Smokers : Told(r) => Told(r)'
        BY <2>1, <2>2 DEF Told
      <3> QED BY <2>1, <3>1 DEF Signals
    <2>6. Printed' <=> Printed
      BY <2>1 DEF Printed
    <2>7. \A r \in Smokers : ~checker[r] => ~checker'[r]
      BY <2>2
    <2>8. Lengths' /\ InOrder' /\ Extras'
      BY <2>1, <2>6, <2>7, OutputKept
    <2> QED BY <2>3, <2>4, <2>5, <2>8
  <1> QED BY <1>1, <1>2

LEMMA NextKeepsSmokersInv == SmokersInv /\ [Next]_vars => SmokersInv'
  <1> SUFFICES ASSUME SmokersInv, [Next]_vars PROVE SmokersInv'
    OBVIOUS
  <1>1. CASE UNCHANGED vars
    <2> USE <1>1 DEF SmokersInv, vars, shared, children
    <2>1. Kinds' /\ Posts'
      BY DEF Kinds, TypeOK, Posts, Load, Busy, Serves
    <2>2. Signals' /\ Lengths' /\ InOrder' /\ Extras'
      BY DEF Signals, Told, Lengths, Printed, InOrder, Extras
    <2> QED BY <2>1, <2>2
  <1>2. CASE Barman
    BY <1>2, ForkKeepsSmokersInv, OfferKeepsSmokersInv, AwaitKeepsSmokersInv,
       EndOfInputKeepsSmokersInv, KillKeepsSmokersInv, LastPostKeepsSmokersInv,
       ReapKeepsSmokersInv DEF Barman
  <1>3. CASE \E s \in Smokers : Smoker(s) \/ Deliver(s)
    BY <1>3, SigactionKeepsSmokersInv, TestKeepsSmokersInv, TakeKeepsSmokersInv,
       CheckKeepsSmokersInv, PrintItemKeepsSmokersInv, GiveKeepsSmokersInv,
       DeliverKeepsSmokersInv DEF Smoker
  <1> QED BY <1>1, <1>2, <1>3 DEF Next, Finished

\* The posts, the signals and the output fit together in every state, for
\* every input.
THEOREM PostsAreCounted == Spec => []SmokersInv
  BY SmokersInvInit, NextKeepsSmokersInv, PTL DEF Spec

\* For every input of the barman (inf20-2.c): one letter is on its way at a
\* time, and the children print between them what was read, in order.
THEOREM LettersInOrder == Spec => []Inv
  BY PostsAreCounted, SmokersInvGivesInv, PTL

\* For every input: what a late SIGTERM makes a child print again is the last
\* letter, and no child does it twice.
THEOREM AtMostOneRepeatEach == Spec => []OnlyTheLastItemRepeats
  BY PostsAreCounted, SmokersInvGivesOnlyTheLastItemRepeats, PTL

-----------------------------------------------------------------------------
(***************************************************************************)
(* inf14-2.c.  A handler runs only in sigsuspend, because both signals are *)
(* blocked before the fork; so the parent decides once, and its verdict    *)
(* fits what has happened.                                                 *)
(***************************************************************************)
Before == {"block", "fork", "alarm"}

\* Where the parent is, and what has not happened before.
Stages ==
  /\ blocked = (IF parent = "block" THEN {} ELSE T!Signals)
  /\ parent \in {"block", "fork"} <=> child = "none"
  /\ parent = "returned" <=> child = "reaped"
  /\ parent \in Before => timer = "off"
  /\ parent \in {"block", "fork"} => waiting = {}
  /\ parent \in Before \cup {"suspend"} => ~alarm_checker /\ ~child_checker

\* The limit is only thought to be over when it is.
Alarms ==
  /\ "ALRM" \in waiting \/ alarm_checker => timer = "expired"
  /\ verdict = "timeout" => alarm_checker

\* There is a verdict once the parent has decided, and SIGTERM is sent for one only.
Verdicts ==
  /\ parent \in Before \cup {"suspend", "decide", "reap"} => verdict = "none"
  /\ parent \in {"kill", "reapTimeout"} => verdict = "timeout"
  /\ term => verdict = "timeout"
  /\ parent = "kill" => ~term
  /\ child \in {"ended", "reaped"} => status \in {"exited", "signaled"}

TimedInv == T!Inv /\ Stages /\ Alarms /\ Verdicts

LEMMA TimedInit == T!Init => TimedInv
BY DEF T!Init, TimedInv, T!Inv, T!TypeOK, T!WakeupPending, T!VerdictIsRight, Stages, Alarms,
       Verdicts, Before, T!Signals

LEMMA TimedStep == TimedInv /\ [T!Next]_(T!vars) => TimedInv'
<1> SUFFICES ASSUME TimedInv, [T!Next]_(T!vars) PROVE TimedInv'
  OBVIOUS
<1> USE DEF TimedInv, T!Inv, T!TypeOK, T!WakeupPending, T!VerdictIsRight, Stages, Alarms,
            Verdicts, Before, T!Signals, T!Goes, T!Parent, T!parentVars, T!childVars, T!flags
<1>1. CASE UNCHANGED T!vars
  BY <1>1 DEF T!vars
<1>2. CASE T!Block
  BY <1>2 DEF T!Block
<1>3. CASE T!Fork
  BY <1>3 DEF T!Fork
<1>4. CASE T!SetAlarm
  BY <1>4 DEF T!SetAlarm
<1>5. CASE T!Handle
  BY <1>5 DEF T!Handle, T!Deliverable
<1>6. CASE T!Decide
  BY <1>6 DEF T!Decide
<1>7. CASE T!Kill
  BY <1>7 DEF T!Kill
<1>8. CASE T!ReapAfterTimeout
  BY <1>8 DEF T!ReapAfterTimeout
<1>9. CASE T!Reap
  BY <1>9 DEF T!Reap
<1>10. CASE T!Expire
  BY <1>10 DEF T!Expire
<1>11. CASE T!Exec
  BY <1>11 DEF T!Exec, T!OutsideChild
<1>12. ASSUME NEW how \in {"exited", "signaled"}, T!Ends(how),
              child \in {"forked", "running", "stopped"}
       PROVE  TimedInv'
  BY <1>12 DEF T!Ends, T!OutsideChild
<1>13. CASE T!Exit \/ T!Crash
  BY <1>12, <1>13 DEF T!Exit, T!Crash
<1>14. CASE T!Terminate
  BY <1>12, <1>14 DEF T!Terminate
<1>15. CASE T!StopOrContinue
  BY <1>15 DEF T!StopOrContinue, T!OutsideChild
<1>16. QED
  BY <1>1, <1>2, <1>3, <1>4, <1>5, <1>6, <1>7, <1>8, <1>9, <1>10, <1>11, <1>13, <1>14, <1>15
     DEF T!Next, T!Main, T!Child, T!Finished

\* inf14-2.c: whatever the order of the alarm and of what happens to the child, no wakeup
\* is lost and the verdict is what happened.
THEOREM VerdictFitsTheRun == AllSpec => []VerdictIsRight
<1>1. AllInit => TimedInv
  <2>1. TimedOver => TimedInv
    BY DEF TimedOver, TimedInv, T!Inv, T!TypeOK, T!WakeupPending, T!VerdictIsRight, Stages,
           Alarms, Verdicts, Before, T!Signals
  <2>2. QED BY <2>1, TimedInit DEF AllInit
<1>2. TimedInv /\ [AllNext]_allVars => TimedInv'
  <2>1. UNCHANGED timed => UNCHANGED T!vars
    BY DEF timed, T!vars, T!parentVars, T!flags, T!childVars
  <2>2. [AllNext]_allVars => [T!Next]_(T!vars)
    BY <2>1 DEF AllNext, allVars
  <2>3. QED BY <2>2, TimedStep
<1>3. TimedInv => VerdictIsRight
  BY DEF TimedInv, VerdictIsRight
<1>4. QED BY <1>1, <1>2, <1>3, PTL DEF AllSpec

-----------------------------------------------------------------------------
(***************************************************************************)
(* inf13-0.c and inf13-1.c.  While no handler has been interrupted halfway *)
(* by one that does the same work, whatever a handler has loaded or        *)
(* formatted is still what the counter or the buffer holds.                *)
(***************************************************************************)
Known == IF program = "inf13_0" THEN {"INT", "TERM"} ELSE {"INT", "USR1", "USR2", "TERM"}

\* The signals whose handlers update the counter, and use the buffer.
Updaters == IF program = "inf13_0" THEN {"INT"} ELSE {"USR1", "USR2"}
Writers == IF program = "inf13_0" THEN {"TERM"} ELSE {"USR1", "USR2"}

\* What can be left of the handler of s.
Rests(s) ==
  IF program = "inf13_0"
  THEN IF s = "INT" THEN {<<"load", "store">>, <<"store">>, <<>>}
       ELSE {<<"flag", "format", "write">>, <<"format", "write">>, <<"write">>, <<>>}
  ELSE IF s \in {"INT", "TERM"} THEN {<<"flag">>, <<>>}
       ELSE {<<"load", "store", "format", "write">>, <<"store", "format", "write">>,
             <<"format", "write">>, <<"write">>, <<>>}

\* The next step of a handler.
Stage(rest) == IF rest = <<>> THEN "return" ELSE Head(rest)

\* The steps of handlers, the handlers entered, and the lines written.
Words == {"load", "store", "flag", "format", "write"}
Frames == [sig : {"INT", "USR1", "USR2", "TERM"}, rest : Seq(Words), reg : Int, size : Int, due : Int]
Lines == [text : Int, size : Int, due : Int]

\* An update that a signal stands for, pending or with its handler not so far.
Storing(s) ==
  \E i \in 1 .. Len(stack) : stack[i].sig = s /\ Stage(stack[i].rest) \in {"load", "store"}
Outstanding(s) == (IF s \in arriving THEN 1 ELSE 0) + (IF Storing(s) THEN 1 ELSE 0)

\* What the numbers can have reached: each update adds one at most.
Reach == 9 + sends - (Outstanding("INT") + Outstanding("USR1")
                        + Outstanding("USR2") + Outstanding("TERM"))

CountTypes ==
  /\ program \in {"inf13_0", "inf13_1"}
  /\ main \in {"read", "test", "sleep", "suspended", "exited"}
  /\ counter \in Int /\ buffer \in Int /\ expected \in Int
  /\ chk_exit \in BOOLEAN /\ torn \in BOOLEAN /\ sends \in 0 .. MaxSends
  /\ arriving \subseteq Known
  /\ stack \in Seq(Frames) /\ lines \in Seq(Lines)

\* Handlers run in sigsuspend only, one for a signal.
Stacked ==
  /\ main # "suspended" => stack = <<>>
  /\ \A i \in 1 .. Len(stack) :
       stack[i].sig \in Known /\ stack[i].rest \in Rests(stack[i].sig)
  /\ \A i, j \in 1 .. Len(stack) : stack[i].sig = stack[j].sig => i = j

\* So the counter and what has been loaded from it stay within two digits.
Bounded ==
  /\ Reach >= 9
  /\ {counter, buffer, expected} \subseteq -Reach .. Reach
  /\ \A i \in 1 .. Len(stack) : stack[i].reg \in -Reach .. Reach

\* A handler that is halfway has not been interrupted by one of the same kind, and what
\* it has loaded or formatted is up to date.
Untorn ==
  /\ \A i, j \in 1 .. Len(stack) :
       i < j /\ {stack[i].sig, stack[j].sig} = {"USR1", "USR2"} =>
         Stage(stack[j].rest) \notin {"store", "write"}
  /\ \A i \in 1 .. Len(stack) :
       /\ Stage(stack[i].rest) = "store" => stack[i].reg = counter
       /\ Stage(stack[i].rest) = "write" =>
            buffer = stack[i].due /\ stack[i].size = C!TextLength(stack[i].due)

CountInv == CountTypes /\ Stacked /\ Bounded /\ C!CountIsExact /\ (~torn => Untorn)

\* What the handler of s does next, when r is left of it.
Sound(s, r) ==
  /\ r \in Seq(Words)
  /\ Stage(r) \in {"load", "store", "flag", "format", "write", "return"}
  /\ Stage(r) = "load" => Stage(Tail(r)) = "store"
  /\ Stage(r) = "store" => Stage(Tail(r)) \in {"format", "return"}
  /\ Stage(r) = "flag" => Stage(Tail(r)) \in {"format", "return"}
  /\ Stage(r) = "format" => Stage(Tail(r)) = "write"
  /\ Stage(r) = "write" => Stage(Tail(r)) = "return"
  /\ Stage(r) \in {"load", "store"} => s \in Updaters
  /\ Stage(r) \in {"format", "write"} => s \in Writers
  /\ r # <<>> => Tail(r) \in Rests(s) /\ Stage(r) = Head(r)
  /\ r = <<>> => Stage(r) = "return"

LEMMA RestFacts ==
  ASSUME program \in {"inf13_0", "inf13_1"}, NEW s \in Known
  PROVE  /\ C!Body(s) \in Rests(s) /\ Stage(C!Body(s)) \in {"load", "flag"}
         /\ \A r \in Rests(s) : Sound(s, r)
<1>1. /\ Tail(<<"load", "store">>) = <<"store">> /\ Tail(<<"store">>) = <<>>
      /\ Tail(<<"flag", "format", "write">>) = <<"format", "write">>
      /\ Tail(<<"format", "write">>) = <<"write">> /\ Tail(<<"write">>) = <<>>
      /\ Tail(<<"flag">>) = <<>>
      /\ Tail(<<"load", "store", "format", "write">>) = <<"store", "format", "write">>
      /\ Tail(<<"store", "format", "write">>) = <<"format", "write">>
  OBVIOUS
<1>2. /\ Head(<<"load", "store">>) = "load" /\ Head(<<"store">>) = "store"
      /\ Head(<<"flag", "format", "write">>) = "flag"
      /\ Head(<<"format", "write">>) = "format" /\ Head(<<"write">>) = "write"
      /\ Head(<<"flag">>) = "flag"
      /\ Head(<<"load", "store", "format", "write">>) = "load"
      /\ Head(<<"store", "format", "write">>) = "store"
  OBVIOUS
<1>3. /\ <<"load", "store">> # <<>> /\ <<"store">> # <<>> /\ <<"flag", "format", "write">> # <<>>
      /\ <<"format", "write">> # <<>> /\ <<"write">> # <<>> /\ <<"flag">> # <<>>
      /\ <<"load", "store", "format", "write">> # <<>> /\ <<"store", "format", "write">> # <<>>
  OBVIOUS
<1>b. /\ <<"load", "store">> \in Seq(Words) /\ <<"store">> \in Seq(Words)
      /\ <<"flag", "format", "write">> \in Seq(Words) /\ <<"format", "write">> \in Seq(Words)
      /\ <<"write">> \in Seq(Words) /\ <<"flag">> \in Seq(Words)
      /\ <<"load", "store", "format", "write">> \in Seq(Words)
      /\ <<"store", "format", "write">> \in Seq(Words) /\ <<>> \in Seq(Words)
  <2>1. /\ <<"load", "store">> \in Seq(Words) /\ <<"store">> \in Seq(Words)
    BY DEF Words
  <2>2. <<"flag", "format", "write">> \in Seq(Words)
    BY DEF Words
  <2>3. /\ <<"format", "write">> \in Seq(Words)
        /\ <<"write">> \in Seq(Words) /\ <<"flag">> \in Seq(Words)
    BY DEF Words
  <2>4. <<"load", "store", "format", "write">> \in Seq(Words)
    BY DEF Words
  <2>5. <<"store", "format", "write">> \in Seq(Words)
    BY DEF Words
  <2>6. <<>> \in Seq(Words)
    BY DEF Words
  <2>7. QED BY <2>1, <2>2, <2>3, <2>4, <2>5, <2>6, Zenon
<1>a. /\ Stage(<<"load", "store">>) = "load" /\ Stage(<<"store">>) = "store"
      /\ Stage(<<"flag", "format", "write">>) = "flag"
      /\ Stage(<<"format", "write">>) = "format" /\ Stage(<<"write">>) = "write"
      /\ Stage(<<"flag">>) = "flag" /\ Stage(<<>>) = "return"
      /\ Stage(<<"load", "store", "format", "write">>) = "load"
      /\ Stage(<<"store", "format", "write">>) = "store"
  BY <1>2, <1>3 DEF Stage
<1>4. CASE program = "inf13_0" /\ s = "INT"
  <2>1. /\ Rests(s) = {<<"load", "store">>, <<"store">>, <<>>} /\ C!Body(s) = <<"load", "store">>
        /\ s \in Updaters
    BY <1>4 DEF C!Body, Rests, Updaters, Writers
  <2>2. Sound(s, <<"load", "store">>)
    BY <2>1, <1>1, <1>2, <1>3, <1>a, <1>b, ZenonT(30) DEF Sound
  <2>3. Sound(s, <<"store">>)
    BY <2>1, <1>1, <1>2, <1>3, <1>a, <1>b, ZenonT(30) DEF Sound
  <2>4. Sound(s, <<>>)
    BY <2>1, <1>1, <1>2, <1>3, <1>a, <1>b, ZenonT(30) DEF Sound
  <2>5. QED BY <2>1, <2>2, <2>3, <2>4, <1>a
<1>5. CASE program = "inf13_0" /\ s = "TERM"
  <2>1. /\ Rests(s) = {<<"flag", "format", "write">>, <<"format", "write">>, <<"write">>, <<>>} /\ C!Body(s) = <<"flag", "format", "write">>
        /\ s \in Writers
    BY <1>5 DEF C!Body, Rests, Updaters, Writers
  <2>2. Sound(s, <<"flag", "format", "write">>)
    BY <2>1, <1>1, <1>2, <1>3, <1>a, <1>b, ZenonT(30) DEF Sound
  <2>3. Sound(s, <<"format", "write">>)
    BY <2>1, <1>1, <1>2, <1>3, <1>a, <1>b, ZenonT(30) DEF Sound
  <2>4. Sound(s, <<"write">>)
    BY <2>1, <1>1, <1>2, <1>3, <1>a, <1>b, ZenonT(30) DEF Sound
  <2>5. Sound(s, <<>>)
    BY <2>1, <1>1, <1>2, <1>3, <1>a, <1>b, ZenonT(30) DEF Sound
  <2>6. QED BY <2>1, <2>2, <2>3, <2>4, <2>5, <1>a
<1>6. CASE program = "inf13_1" /\ s \in {"INT", "TERM"}
  <2>1. /\ Rests(s) = {<<"flag">>, <<>>} /\ C!Body(s) = <<"flag">>
    BY <1>6 DEF C!Body, Rests, Updaters, Writers
  <2>2. Sound(s, <<"flag">>)
    BY <2>1, <1>1, <1>2, <1>3, <1>a, <1>b, ZenonT(30) DEF Sound
  <2>3. Sound(s, <<>>)
    BY <2>1, <1>1, <1>2, <1>3, <1>a, <1>b, ZenonT(30) DEF Sound
  <2>4. QED BY <2>1, <2>2, <2>3, <1>a
<1>7. CASE program = "inf13_1" /\ s \in {"USR1", "USR2"}
  <2>1. /\ Rests(s) = {<<"load", "store", "format", "write">>, <<"store", "format", "write">>, <<"format", "write">>, <<"write">>, <<>>} /\ C!Body(s) = <<"load", "store", "format", "write">>
        /\ s \in Updaters /\ s \in Writers
    BY <1>7 DEF C!Body, Rests, Updaters, Writers
  <2>2. Sound(s, <<"load", "store", "format", "write">>)
    BY <2>1, <1>1, <1>2, <1>3, <1>a, <1>b, ZenonT(30) DEF Sound
  <2>3. Sound(s, <<"store", "format", "write">>)
    BY <2>1, <1>1, <1>2, <1>3, <1>a, <1>b, ZenonT(30) DEF Sound
  <2>4. Sound(s, <<"format", "write">>)
    BY <2>1, <1>1, <1>2, <1>3, <1>a, <1>b, ZenonT(30) DEF Sound
  <2>5. Sound(s, <<"write">>)
    BY <2>1, <1>1, <1>2, <1>3, <1>a, <1>b, ZenonT(30) DEF Sound
  <2>6. Sound(s, <<>>)
    BY <2>1, <1>1, <1>2, <1>3, <1>a, <1>b, ZenonT(30) DEF Sound
  <2>7. QED BY <2>1, <2>2, <2>3, <2>4, <2>5, <2>6, <1>a
<1>8. QED BY <1>4, <1>5, <1>6, <1>7 DEF Known

LEMMA TopReplaced ==
  ASSUME NEW S, NEW q \in Seq(S), q # <<>>, NEW f \in S
  PROVE  /\ Len(q) \in Nat \ {0} /\ q[1] \in S
         /\ <<f>> \o Tail(q) \in Seq(S) /\ Len(<<f>> \o Tail(q)) = Len(q)
         /\ (<<f>> \o Tail(q))[1] = f
         /\ \A i \in 1 .. Len(q) : i # 1 => (<<f>> \o Tail(q))[i] = q[i]
<1>1. Len(q) \in Nat \ {0} /\ q[1] \in S /\ Tail(q) \in Seq(S) /\ Len(Tail(q)) = Len(q) - 1
      /\ \A i \in 1 .. Len(q) - 1 : Tail(q)[i] = q[i + 1]
  BY EmptySeq, HeadTailProperties
<1>2. QED BY <1>1

LEMMA Pushed ==
  ASSUME NEW S, NEW q \in Seq(S), NEW f \in S
  PROVE  /\ <<f>> \o q \in Seq(S) /\ Len(<<f>> \o q) = Len(q) + 1 /\ Len(q) \in Nat
         /\ (<<f>> \o q)[1] = f
         /\ \A i \in 1 .. Len(q) + 1 : i # 1 => i - 1 \in 1 .. Len(q) /\ (<<f>> \o q)[i] = q[i - 1]
OBVIOUS

LEMMA Popped ==
  ASSUME NEW S, NEW q \in Seq(S), q # <<>>
  PROVE  /\ Tail(q) \in Seq(S) /\ Len(Tail(q)) = Len(q) - 1 /\ Len(q) \in Nat \ {0}
         /\ \A i \in 1 .. Len(Tail(q)) : i + 1 \in 1 .. Len(q) /\ Tail(q)[i] = q[i + 1]
BY EmptySeq, HeadTailProperties

Four == {"INT", "USR1", "USR2", "TERM"}

\* One signal's update is no longer outstanding, or none is new.
LEMMA ReachGrows ==
  ASSUME sends \in Int, sends' = sends, \A s \in Four : Outstanding(s)' <= Outstanding(s)
  PROVE  Reach \in Int /\ Reach' \in Int /\ Reach' >= Reach
<1>1. \A s \in Four : Outstanding(s) \in Int /\ Outstanding(s)' \in Int
  BY DEF Outstanding
<1>2. QED BY <1>1 DEF Reach, Four

LEMMA ReachGains ==
  ASSUME sends \in Int, sends' = sends, NEW t \in Four, Outstanding(t)' = Outstanding(t) - 1,
         \A s \in Four : s # t => Outstanding(s)' = Outstanding(s)
  PROVE  Reach \in Int /\ Reach' = Reach + 1
<1>1. \A s \in Four : Outstanding(s) \in Int /\ Outstanding(s)' \in Int
  BY DEF Outstanding
<1>2. QED BY <1>1 DEF Reach, Four

\* The handler on top goes on by one step.
LEMMA HandlerRuns ==
  ASSUME CountTypes, Stacked, NEW step \in Words, C!Runs(step),
         NEW f \in Frames, C!Becomes(f), f.sig = stack[1].sig, f.rest = Tail(stack[1].rest)
  PROVE  /\ Len(stack) \in Nat \ {0} /\ stack[1] \in Frames /\ stack[1].sig \in Known
         /\ Stage(stack[1].rest) = step /\ Sound(stack[1].sig, stack[1].rest)
         /\ stack' \in Seq(Frames) /\ Len(stack') = Len(stack) /\ stack'[1] = f
         /\ \A i \in 1 .. Len(stack) : i # 1 => stack'[i] = stack[i]
         /\ Stacked'
         /\ Reach \in Int /\ Reach' \in Int
         /\ Reach' >= Reach + (IF step = "store" THEN 1 ELSE 0)
<1> USE DEF C!Runs, C!Becomes
<1>1. /\ Len(stack) \in Nat \ {0} /\ stack[1] \in Frames
      /\ stack' \in Seq(Frames) /\ Len(stack') = Len(stack) /\ stack'[1] = f
      /\ \A i \in 1 .. Len(stack) : i # 1 => stack'[i] = stack[i]
  BY TopReplaced DEF CountTypes
<1>2. stack[1].sig \in Known /\ Sound(stack[1].sig, stack[1].rest)
  BY <1>1, RestFacts DEF Stacked, CountTypes
<1>3. Stage(stack[1].rest) = step /\ stack[1].rest # <<>>
  BY DEF Stage
<1>4. f.rest \in Rests(f.sig)
  BY <1>2, <1>3 DEF Sound
<1>5. Known' = Known /\ \A s : Rests(s)' = Rests(s)
  BY DEF Known, Rests
<1>6. Stacked'
  <2>1. \A i \in 1 .. Len(stack') : stack'[i].sig = stack[i].sig
    BY <1>1
  <2>2. \A i \in 1 .. Len(stack') : stack'[i].rest \in Rests(stack'[i].sig)
    BY <1>1, <1>4 DEF Stacked
  <2>3. main' # "suspended" => stack' = <<>>
    BY DEF Stacked
  <2>4. QED BY <1>1, <1>5, <2>1, <2>2, <2>3 DEF Stacked
<1>7. \A s : s # f.sig => (Storing(s)' <=> Storing(s))
  BY <1>1 DEF Storing
<1>8. /\ Storing(f.sig)' <=> Stage(f.rest) \in {"load", "store"}
      /\ Storing(f.sig) <=> step \in {"load", "store"}
  BY <1>1, <1>3, <1>6 DEF Storing, Stacked
<1>9. Stage(f.rest) \in {"load", "store"} <=> step = "load"
  BY <1>2, <1>3 DEF Sound, Words
<1>10. f.sig \in Four /\ sends \in Int /\ sends' = sends /\ arriving' = arriving
  BY DEF Frames, Four, CountTypes
<1>11. \A s \in Four : s # f.sig => Outstanding(s)' = Outstanding(s) /\ Outstanding(s) \in Int
  BY <1>7, <1>10 DEF Outstanding
<1>12. CASE step = "store"
  <2>1. Outstanding(f.sig)' = Outstanding(f.sig) - 1
    BY <1>8, <1>9, <1>10, <1>12 DEF Outstanding
  <2>2. QED BY <1>1, <1>2, <1>3, <1>6, <1>10, <1>11, <1>12, <2>1, ReachGains
<1>13. CASE step # "store"
  <2>1. Outstanding(f.sig)' = Outstanding(f.sig) /\ Outstanding(f.sig) \in Int
    BY <1>8, <1>9, <1>10, <1>13 DEF Outstanding
  <2>2. \A s \in Four : Outstanding(s)' <= Outstanding(s)
    BY <1>11, <2>1
  <2>3. QED BY <1>1, <1>2, <1>3, <1>6, <1>10, <1>13, <2>2, ReachGrows
<1>14. QED BY <1>12, <1>13

\* Below a handler that updates, or writes, none is halfway through the same.
LEMMA OthersRest ==
  ASSUME CountInv, ~torn, NEW i \in 1 .. Len(stack), i # 1
  PROVE  /\ Stage(stack[1].rest) \in {"load", "store"} => Stage(stack[i].rest) # "store"
         /\ Stage(stack[1].rest) \in {"format", "write"} => Stage(stack[i].rest) # "write"
<1>1. Len(stack) \in Nat /\ 1 \in 1 .. Len(stack) /\ 1 < i
  BY DEF CountInv, CountTypes
<1>2. stack[1].sig # stack[i].sig /\ stack[1].sig \in Known /\ stack[i].sig \in Known
  BY <1>1 DEF CountInv, Stacked
<1>3. Sound(stack[1].sig, stack[1].rest) /\ Sound(stack[i].sig, stack[i].rest)
  BY <1>1, <1>2, RestFacts DEF CountInv, Stacked, CountTypes
<1>4. {stack[1].sig, stack[i].sig} = {"USR1", "USR2"} => Stage(stack[i].rest) \notin {"store", "write"}
  BY <1>1 DEF CountInv, Untorn
<1>5. /\ stack[1].sig \in Updaters /\ stack[i].sig \in Updaters => {stack[1].sig, stack[i].sig} = {"USR1", "USR2"}
      /\ stack[1].sig \in Writers /\ stack[i].sig \in Writers => {stack[1].sig, stack[i].sig} = {"USR1", "USR2"}
  BY <1>2 DEF Updaters, Writers
<1>6. QED BY <1>3, <1>4, <1>5 DEF Sound

\* The numbers stay in what can have been reached.
LEMMA Grown ==
  ASSUME NEW a \in Int, NEW b \in Int, a <= b
  PROVE  \A x : x \in -a .. a => x \in -b .. b
OBVIOUS

LEMMA Ninefold ==
  ASSUME NEW b \in Int, b >= 9
  PROVE  0 \in -b .. b /\ \A x \in -9 .. 9 : x \in -b .. b
OBVIOUS

\* A frame whose first step is done, with what it has loaded, or formatted.
LEMMA FrameGoesOn ==
  ASSUME NEW g \in Frames, g.rest # <<>>
  PROVE  LET t == [g EXCEPT !.rest = Tail(@)] IN
           t \in Frames /\ t.sig = g.sig /\ t.rest = Tail(g.rest) /\ t.reg = g.reg
             /\ t.size = g.size /\ t.due = g.due
<1>1. Tail(g.rest) \in Seq(Words)
  BY EmptySeq, HeadTailProperties DEF Frames
<1>2. QED BY <1>1 DEF Frames

LEMMA FrameLoads ==
  ASSUME NEW t \in Frames, NEW num \in Int
  PROVE  LET f == [t EXCEPT !.reg = num] IN
           f \in Frames /\ f.sig = t.sig /\ f.rest = t.rest /\ f.reg = num
             /\ f.size = t.size /\ f.due = t.due
BY DEF Frames

\* What the step of the handler on top means for the other frames.
LEMMA PairsKept ==
  ASSUME CountTypes, Untorn, Len(stack') = Len(stack), Len(stack) \in Nat \ {0},
         stack'[1].sig = stack[1].sig,
         \A i \in 1 .. Len(stack) : i # 1 => stack'[i] = stack[i]
  PROVE  \A i, j \in 1 .. Len(stack') :
           i < j /\ {stack'[i].sig, stack'[j].sig} = {"USR1", "USR2"} =>
             Stage(stack'[j].rest) \notin {"store", "write"}
<1> SUFFICES ASSUME NEW i \in 1 .. Len(stack'), NEW j \in 1 .. Len(stack'), i < j,
                    {stack'[i].sig, stack'[j].sig} = {"USR1", "USR2"}
             PROVE  Stage(stack'[j].rest) \notin {"store", "write"}
  OBVIOUS
<1>1. i \in 1 .. Len(stack) /\ j \in 1 .. Len(stack) /\ stack'[i].sig = stack[i].sig
      /\ j # 1 /\ stack'[j] = stack[j]
  OBVIOUS
<1>2. {stack[i].sig, stack[j].sig} = {"USR1", "USR2"}
  BY <1>1
<1>3. Stage(stack[j].rest) \notin {"store", "write"}
  BY <1>1, <1>2 DEF Untorn
<1>4. QED BY <1>1, <1>3

\* A step that changes nothing but where the handler on top is, and the frame's numbers.
LEMMA StackBounded ==
  ASSUME CountInv, Len(stack') = Len(stack), Len(stack) \in Nat \ {0},
         Reach \in Int, Reach' \in Int, Reach' >= Reach,
         stack'[1].reg \in {stack[1].reg, counter},
         \A i \in 1 .. Len(stack) : i # 1 => stack'[i] = stack[i],
         {counter', buffer', expected'} \subseteq -Reach' .. Reach'
  PROVE  Bounded'
<1>1. \A x : x \in -Reach .. Reach => x \in -Reach' .. Reach'
  BY Grown
<1>2. \A i \in 1 .. Len(stack) : stack[i].reg \in -Reach .. Reach
  BY DEF CountInv, Bounded
<1>3. stack'[1].reg \in -Reach .. Reach
  BY <1>2 DEF CountInv, Bounded
<1>4. \A i \in 1 .. Len(stack') : stack'[i].reg \in -Reach' .. Reach'
  BY <1>1, <1>2, <1>3
<1>5. Reach' >= 9
  BY DEF CountInv, Bounded
<1>6. QED BY <1>4, <1>5 DEF Bounded

LEMMA TopGoesOn ==
  ASSUME CountInv, NEW step \in Words, C!Runs(step)
  PROVE  /\ stack # <<>> /\ stack[1] \in Frames
         /\ C!Top \in Frames /\ C!Top.sig = stack[1].sig /\ C!Top.rest = Tail(stack[1].rest)
         /\ C!Top.reg = stack[1].reg /\ C!Top.size = stack[1].size /\ C!Top.due = stack[1].due
         /\ counter \in Int /\ expected \in Int /\ buffer \in Int
<1>1. stack # <<>> /\ stack[1] \in Frames /\ stack[1].rest # <<>>
  BY TopReplaced DEF CountInv, CountTypes, C!Runs
<1>2. QED BY <1>1, FrameGoesOn DEF C!Top, CountInv, CountTypes

LEMMA LoadStep == CountInv /\ C!Load => CountInv'
<1> SUFFICES ASSUME CountInv, C!Load PROVE CountInv'
  OBVIOUS
<1>1. C!Runs("load") /\ "load" \in Words
  BY DEF C!Load, Words
<1>2. PICK f \in Frames : /\ C!Becomes(f) /\ f.sig = stack[1].sig
                          /\ f.rest = Tail(stack[1].rest) /\ f.reg = counter
                          /\ f.size = stack[1].size /\ f.due = stack[1].due
  <2> DEFINE g == [C!Top EXCEPT !.reg = counter]
  <2>1. C!Becomes(g)
    BY DEF C!Load
  <2>2. /\ g \in Frames /\ g.sig = C!Top.sig /\ g.rest = C!Top.rest /\ g.reg = counter
        /\ g.size = C!Top.size /\ g.due = C!Top.due
    BY <1>1, TopGoesOn, FrameLoads
  <2> HIDE DEF g
  <2>3. QED BY <1>1, <2>1, <2>2, TopGoesOn
<1>3. /\ Len(stack) \in Nat \ {0} /\ stack[1].sig \in Known
      /\ Stage(stack[1].rest) = "load" /\ Sound(stack[1].sig, stack[1].rest)
      /\ stack' \in Seq(Frames) /\ Len(stack') = Len(stack) /\ stack'[1] = f
      /\ \A i \in 1 .. Len(stack) : i # 1 => stack'[i] = stack[i]
      /\ Stacked'
      /\ Reach \in Int /\ Reach' \in Int
      /\ Reach' >= Reach + (IF "load" = "store" THEN 1 ELSE 0)
  BY <1>1, <1>2, HandlerRuns DEF CountInv
<1>4. Reach' >= Reach
  BY <1>3
<1>5. CountTypes'
  BY <1>3 DEF CountInv, CountTypes, C!Load, C!Runs, Known
<1>6. Bounded'
  <2>1. {counter', buffer', expected'} \subseteq -Reach' .. Reach'
    BY <1>3, <1>4, Grown DEF CountInv, Bounded, C!Load
  <2>2. QED BY <1>2, <1>3, <1>4, <2>1, StackBounded
<1>7. C!CountIsExact'
  BY DEF C!CountIsExact, CountInv, C!Load, C!Runs, C!TextLength
<1>8. ~torn' => Untorn'
  <2> SUFFICES ASSUME ~torn PROVE Untorn'
    BY DEF C!Load, C!Runs
  <2>1. Untorn
    BY DEF CountInv
  <2>2. \A i, j \in 1 .. Len(stack') :
          i < j /\ {stack'[i].sig, stack'[j].sig} = {"USR1", "USR2"} =>
            Stage(stack'[j].rest) \notin {"store", "write"}
    BY <1>2, <1>3, <2>1, PairsKept DEF CountInv
  <2>3. Stage(f.rest) = "store" /\ f.reg = counter'
    BY <1>2, <1>3 DEF Sound, C!Load
  <2>4. buffer' = buffer /\ counter' = counter
    BY DEF C!Load
  <2>5. \A i \in 1 .. Len(stack') :
          /\ Stage(stack'[i].rest) = "store" => stack'[i].reg = counter'
          /\ Stage(stack'[i].rest) = "write" =>
               buffer' = stack'[i].due /\ stack'[i].size = C!TextLength(stack'[i].due)
    BY <1>3, <2>1, <2>3, <2>4 DEF Untorn
  <2>6. QED BY <2>2, <2>5 DEF Untorn, Stage, C!TextLength
<1>9. QED BY <1>3, <1>5, <1>6, <1>7, <1>8 DEF CountInv

LEMMA FlagStep == CountInv /\ C!RaiseFlag => CountInv'
<1> SUFFICES ASSUME CountInv, C!RaiseFlag PROVE CountInv'
  OBVIOUS
<1>1. C!Runs("flag") /\ "flag" \in Words
  BY DEF C!RaiseFlag, Words
<1>2. PICK f \in Frames : /\ C!Becomes(f) /\ f.sig = stack[1].sig
                          /\ f.rest = Tail(stack[1].rest) /\ f.reg = stack[1].reg
                          /\ f.size = stack[1].size /\ f.due = stack[1].due
  BY <1>1, TopGoesOn DEF C!RaiseFlag
<1>3. /\ Len(stack) \in Nat \ {0} /\ stack[1].sig \in Known
      /\ Stage(stack[1].rest) = "flag" /\ Sound(stack[1].sig, stack[1].rest)
      /\ stack' \in Seq(Frames) /\ Len(stack') = Len(stack) /\ stack'[1] = f
      /\ \A i \in 1 .. Len(stack) : i # 1 => stack'[i] = stack[i]
      /\ Stacked'
      /\ Reach \in Int /\ Reach' \in Int
      /\ Reach' >= Reach + (IF "flag" = "store" THEN 1 ELSE 0)
  BY <1>1, <1>2, HandlerRuns DEF CountInv
<1>4. Reach' >= Reach
  BY <1>3
<1>5. CountTypes'
  BY <1>3 DEF CountInv, CountTypes, C!RaiseFlag, C!Runs, Known
<1>6. Bounded'
  <2>1. {counter', buffer', expected'} \subseteq -Reach' .. Reach'
    BY <1>3, <1>4, Grown DEF CountInv, Bounded, C!RaiseFlag
  <2>2. QED BY <1>2, <1>3, <1>4, <2>1, StackBounded
<1>7. C!CountIsExact'
  BY DEF C!CountIsExact, CountInv, C!RaiseFlag, C!Runs, C!TextLength
<1>8. ~torn' => Untorn'
  <2> SUFFICES ASSUME ~torn PROVE Untorn'
    BY DEF C!RaiseFlag, C!Runs
  <2>1. Untorn
    BY DEF CountInv
  <2>2. \A i, j \in 1 .. Len(stack') :
          i < j /\ {stack'[i].sig, stack'[j].sig} = {"USR1", "USR2"} =>
            Stage(stack'[j].rest) \notin {"store", "write"}
    BY <1>2, <1>3, <2>1, PairsKept DEF CountInv
  <2>3. Stage(f.rest) \notin {"store", "write"}
    BY <1>2, <1>3 DEF Sound
  <2>4. buffer' = buffer /\ counter' = counter
    BY DEF C!RaiseFlag
  <2>5. \A i \in 1 .. Len(stack') :
          /\ Stage(stack'[i].rest) = "store" => stack'[i].reg = counter'
          /\ Stage(stack'[i].rest) = "write" =>
               buffer' = stack'[i].due /\ stack'[i].size = C!TextLength(stack'[i].due)
    BY <1>3, <2>1, <2>3, <2>4 DEF Untorn
  <2>6. QED BY <2>2, <2>5 DEF Untorn, Stage, C!TextLength
<1>9. QED BY <1>3, <1>5, <1>6, <1>7, <1>8 DEF CountInv

LEMMA FormatStep == CountInv /\ C!Format => CountInv'
<1> SUFFICES ASSUME CountInv, C!Format PROVE CountInv'
  OBVIOUS
<1>1. C!Runs("format") /\ "format" \in Words
  BY DEF C!Format, Words
<1>2. PICK f \in Frames : /\ C!Becomes(f) /\ f.sig = stack[1].sig
                          /\ f.rest = Tail(stack[1].rest) /\ f.reg = stack[1].reg
                          /\ f.size = C!TextLength(counter) /\ f.due = expected
  <2> DEFINE t == C!Top
             num == C!TextLength(counter)
             g == [t EXCEPT !.size = num, !.due = expected]
  <2>1. C!Becomes(g)
    BY DEF C!Format
  <2>2. expected \in Int /\ num \in Int /\ t \in Frames
    BY <1>1, TopGoesOn DEF C!TextLength
  <2>3. t.sig = stack[1].sig /\ t.rest = Tail(stack[1].rest) /\ t.reg = stack[1].reg
    BY <1>1, TopGoesOn
  <2> HIDE DEF t, num
  <2>4. /\ g \in Frames /\ g.sig = t.sig /\ g.rest = t.rest /\ g.reg = t.reg
        /\ g.size = num /\ g.due = expected
    BY <2>2 DEF Frames
  <2> HIDE DEF g
  <2>5. QED BY <2>1, <2>3, <2>4 DEF num
<1>3. /\ Len(stack) \in Nat \ {0} /\ stack[1].sig \in Known
      /\ Stage(stack[1].rest) = "format" /\ Sound(stack[1].sig, stack[1].rest)
      /\ stack' \in Seq(Frames) /\ Len(stack') = Len(stack) /\ stack'[1] = f
      /\ \A i \in 1 .. Len(stack) : i # 1 => stack'[i] = stack[i]
      /\ Stacked'
      /\ Reach \in Int /\ Reach' \in Int
      /\ Reach' >= Reach + (IF "format" = "store" THEN 1 ELSE 0)
  BY <1>1, <1>2, HandlerRuns DEF CountInv
<1>4. Reach' >= Reach
  BY <1>3
<1>5. CountTypes'
  BY <1>3 DEF CountInv, CountTypes, C!Format, C!Runs, Known
<1>6. Bounded'
  <2>1. {counter', buffer', expected'} \subseteq -Reach' .. Reach'
    BY <1>3, <1>4, Grown DEF CountInv, Bounded, C!Format
  <2>2. QED BY <1>2, <1>3, <1>4, <2>1, StackBounded
<1>7. C!CountIsExact'
  BY DEF C!CountIsExact, CountInv, C!Format, C!Runs, C!TextLength
<1>8. ~torn' => Untorn'
  <2> SUFFICES ASSUME ~torn PROVE Untorn'
    BY DEF C!Format, C!Runs
  <2>1. Untorn
    BY DEF CountInv
  <2>2. \A i, j \in 1 .. Len(stack') :
          i < j /\ {stack'[i].sig, stack'[j].sig} = {"USR1", "USR2"} =>
            Stage(stack'[j].rest) \notin {"store", "write"}
    BY <1>2, <1>3, <2>1, PairsKept DEF CountInv
  <2>3. Stage(f.rest) = "write" /\ buffer' = f.due /\ f.size = C!TextLength(f.due)
    BY <1>2, <1>3 DEF Sound, C!Format, CountInv, C!CountIsExact
  <2>4. \A i \in 1 .. Len(stack) : i # 1 => Stage(stack[i].rest) # "write"
    BY <1>3, OthersRest
  <2>5. \A i \in 1 .. Len(stack') :
          /\ Stage(stack'[i].rest) = "store" => stack'[i].reg = counter'
          /\ Stage(stack'[i].rest) = "write" =>
               buffer' = stack'[i].due /\ stack'[i].size = C!TextLength(stack'[i].due)
    BY <1>3, <2>1, <2>3, <2>4 DEF Untorn, C!Format
  <2>6. QED BY <2>2, <2>5 DEF Untorn, Stage, C!TextLength
<1>9. QED BY <1>3, <1>5, <1>6, <1>7, <1>8 DEF CountInv

LEMMA StoreStep == CountInv /\ C!Store => CountInv'
<1> SUFFICES ASSUME CountInv, C!Store PROVE CountInv'
  OBVIOUS
<1>1. C!Runs("store") /\ "store" \in Words
  BY DEF C!Store, Words
<1>2. PICK f \in Frames : /\ C!Becomes(f) /\ f.sig = stack[1].sig
                          /\ f.rest = Tail(stack[1].rest) /\ f.reg = stack[1].reg
                          /\ f.size = stack[1].size /\ f.due = stack[1].due
  BY <1>1, TopGoesOn DEF C!Store
<1>3. /\ Len(stack) \in Nat \ {0} /\ stack[1].sig \in Known
      /\ Stage(stack[1].rest) = "store" /\ Sound(stack[1].sig, stack[1].rest)
      /\ stack' \in Seq(Frames) /\ Len(stack') = Len(stack) /\ stack'[1] = f
      /\ \A i \in 1 .. Len(stack) : i # 1 => stack'[i] = stack[i]
      /\ Stacked'
      /\ Reach \in Int /\ Reach' \in Int
      /\ Reach' >= Reach + (IF "store" = "store" THEN 1 ELSE 0)
  BY <1>1, <1>2, HandlerRuns DEF CountInv
<1>4. Reach' >= Reach + 1 /\ Reach' >= Reach
  BY <1>3
<1>a. /\ counter' = C!Updated(stack[1].sig, stack[1].reg)
      /\ expected' = C!Updated(stack[1].sig, expected)
  BY <1>1, TopGoesOn DEF C!Store
<1>b. stack[1].reg \in -Reach .. Reach /\ expected \in -Reach .. Reach
  BY <1>3 DEF CountInv, Bounded
<1>c. counter' \in -Reach' .. Reach' /\ expected' \in -Reach' .. Reach'
  <2>1. \A r, num : r \in Int /\ num \in -r .. r => num + 1 \in -(r + 1) .. r + 1 /\ -num \in -(r + 1) .. r + 1
    OBVIOUS
  <2>2. \A num : num \in -Reach .. Reach =>
                 C!Updated(stack[1].sig, num) \in -(Reach + 1) .. Reach + 1
    BY <1>3, <2>1 DEF C!Updated
  <2>3. Reach + 1 \in Int /\ Reach' \in Int /\ Reach + 1 <= Reach'
    BY <1>3, <1>4
  <2>4. QED BY <1>a, <1>b, <2>2, <2>3, Grown
<1>5. CountTypes'
  BY <1>3, <1>c DEF CountInv, CountTypes, C!Store, C!Runs, Known
<1>6. Bounded'
  <2>1. {counter', buffer', expected'} \subseteq -Reach' .. Reach'
    BY <1>3, <1>4, <1>c, Grown DEF CountInv, Bounded, C!Store
  <2>2. QED BY <1>2, <1>3, <1>4, <2>1, StackBounded
<1>7. C!CountIsExact'
  <2>1. ~torn => counter' = expected'
    BY <1>3, <1>a DEF CountInv, Untorn, C!CountIsExact
  <2>2. QED BY <2>1 DEF C!CountIsExact, CountInv, C!Store, C!Runs, C!TextLength
<1>8. ~torn' => Untorn'
  <2> SUFFICES ASSUME ~torn PROVE Untorn'
    BY DEF C!Store, C!Runs
  <2>1. Untorn
    BY DEF CountInv
  <2>2. \A i, j \in 1 .. Len(stack') :
          i < j /\ {stack'[i].sig, stack'[j].sig} = {"USR1", "USR2"} =>
            Stage(stack'[j].rest) \notin {"store", "write"}
    BY <1>2, <1>3, <2>1, PairsKept DEF CountInv
  <2>3. Stage(f.rest) \notin {"store", "write"}
    BY <1>2, <1>3 DEF Sound
  <2>4. \A i \in 1 .. Len(stack) : i # 1 => Stage(stack[i].rest) # "store"
    BY <1>3, OthersRest
  <2>5. \A i \in 1 .. Len(stack') :
          /\ Stage(stack'[i].rest) = "store" => stack'[i].reg = counter'
          /\ Stage(stack'[i].rest) = "write" =>
               buffer' = stack'[i].due /\ stack'[i].size = C!TextLength(stack'[i].due)
    BY <1>3, <2>1, <2>3, <2>4 DEF Untorn, C!Store
  <2>6. QED BY <2>2, <2>5 DEF Untorn, Stage, C!TextLength
<1>9. QED BY <1>3, <1>5, <1>6, <1>7, <1>8 DEF CountInv

LEMMA WriteStep == CountInv /\ C!Write => CountInv'
<1> SUFFICES ASSUME CountInv, C!Write PROVE CountInv'
  OBVIOUS
<1>1. C!Runs("write") /\ "write" \in Words
  BY DEF C!Write, Words
<1>2. PICK f \in Frames : /\ C!Becomes(f) /\ f.sig = stack[1].sig
                          /\ f.rest = Tail(stack[1].rest) /\ f.reg = stack[1].reg
                          /\ f.size = stack[1].size /\ f.due = stack[1].due
  BY <1>1, TopGoesOn DEF C!Write
<1>3. /\ Len(stack) \in Nat \ {0} /\ stack[1].sig \in Known
      /\ Stage(stack[1].rest) = "write" /\ Sound(stack[1].sig, stack[1].rest)
      /\ stack' \in Seq(Frames) /\ Len(stack') = Len(stack) /\ stack'[1] = f
      /\ \A i \in 1 .. Len(stack) : i # 1 => stack'[i] = stack[i]
      /\ Stacked'
      /\ Reach \in Int /\ Reach' \in Int
      /\ Reach' >= Reach + (IF "write" = "store" THEN 1 ELSE 0)
  BY <1>1, <1>2, HandlerRuns DEF CountInv
<1>4. Reach' >= Reach
  BY <1>3
<1>a. /\ lines' = Append(lines, [text |-> buffer, size |-> stack[1].size, due |-> stack[1].due])
      /\ buffer \in Int /\ stack[1].size \in Int /\ stack[1].due \in Int
  <2>1. stack[1] \in Frames
    BY <1>1, TopGoesOn
  <2>2. QED BY <1>1, <2>1, TopGoesOn DEF C!Write, Frames
<1>5. CountTypes'
  <2>1. lines' \in Seq(Lines)
    BY <1>a DEF CountInv, CountTypes, Lines
  <2>2. QED BY <1>3, <2>1 DEF CountInv, CountTypes, C!Write, C!Runs, Known
<1>6. Bounded'
  <2>1. {counter', buffer', expected'} \subseteq -Reach' .. Reach'
    BY <1>3, <1>4, Grown DEF CountInv, Bounded, C!Write
  <2>2. QED BY <1>2, <1>3, <1>4, <2>1, StackBounded
<1>7. C!CountIsExact'
  <2> SUFFICES ASSUME ~torn
               PROVE  /\ counter' = expected'
                      /\ \A i \in DOMAIN lines' : /\ lines'[i].text = lines'[i].due
                                                  /\ lines'[i].size = C!TextLength(lines'[i].due)
    BY DEF C!CountIsExact, C!Write, C!Runs, C!TextLength
  <2>1. C!CountIsExact /\ Untorn
    BY DEF CountInv
  <2>2. buffer = stack[1].due /\ stack[1].size = C!TextLength(stack[1].due)
    BY <1>3, <2>1 DEF Untorn
  <2>3. lines \in Seq(Lines)
    BY DEF CountInv, CountTypes
  <2>4. /\ DOMAIN lines' = 1 .. Len(lines) + 1 /\ Len(lines) \in Nat /\ DOMAIN lines = 1 .. Len(lines)
        /\ \A i \in 1 .. Len(lines) : lines'[i] = lines[i]
        /\ lines'[Len(lines) + 1] = [text |-> buffer, size |-> stack[1].size, due |-> stack[1].due]
    BY <1>a, <2>3
  <2>5. \A i \in DOMAIN lines : lines[i].text = lines[i].due
                                /\ lines[i].size = C!TextLength(lines[i].due)
    BY <2>1 DEF C!CountIsExact
  <2>6. ASSUME NEW i \in DOMAIN lines'
        PROVE  lines'[i].text = lines'[i].due /\ lines'[i].size = C!TextLength(lines'[i].due)
    <3>1. CASE i = Len(lines) + 1
      BY <2>2, <2>4, <3>1
    <3>2. CASE i \in 1 .. Len(lines)
      BY <2>4, <2>5, <3>2
    <3>3. QED BY <2>4, <3>1, <3>2
  <2>7. QED BY <2>1, <2>6 DEF C!CountIsExact, C!Write
<1>8. ~torn' => Untorn'
  <2> SUFFICES ASSUME ~torn PROVE Untorn'
    BY DEF C!Write, C!Runs
  <2>1. Untorn
    BY DEF CountInv
  <2>2. \A i, j \in 1 .. Len(stack') :
          i < j /\ {stack'[i].sig, stack'[j].sig} = {"USR1", "USR2"} =>
            Stage(stack'[j].rest) \notin {"store", "write"}
    BY <1>2, <1>3, <2>1, PairsKept DEF CountInv
  <2>3. Stage(f.rest) \notin {"store", "write"}
    BY <1>2, <1>3 DEF Sound
  <2>4. buffer' = buffer /\ counter' = counter
    BY DEF C!Write
  <2>5. \A i \in 1 .. Len(stack') :
          /\ Stage(stack'[i].rest) = "store" => stack'[i].reg = counter'
          /\ Stage(stack'[i].rest) = "write" =>
               buffer' = stack'[i].due /\ stack'[i].size = C!TextLength(stack'[i].due)
    BY <1>3, <2>1, <2>3, <2>4 DEF Untorn
  <2>6. QED BY <2>2, <2>5 DEF Untorn, Stage, C!TextLength
<1>9. QED BY <1>3, <1>5, <1>6, <1>7, <1>8 DEF CountInv

\* No number and no handler changes, and no update is new, except by a signal sent.
LEMMA NumbersKept ==
  ASSUME CountInv, Reach \in Int, Reach' \in Int, Reach' >= Reach, stack' = stack,
         {counter', buffer', expected'} \subseteq -Reach' .. Reach'
  PROVE  Bounded'
<1>1. \A x : x \in -Reach .. Reach => x \in -Reach' .. Reach'
  BY Grown
<1>2. \A i \in 1 .. Len(stack') : stack'[i].reg \in -Reach' .. Reach'
  BY <1>1 DEF CountInv, Bounded
<1>3. QED BY <1>2 DEF CountInv, Bounded

LEMMA MainStep ==
  CountInv /\ (C!ReadNumber \/ C!Test \/ C!Suspend \/ C!Rest \/ UNCHANGED counters) => CountInv'
<1> SUFFICES ASSUME CountInv, C!ReadNumber \/ C!Test \/ C!Suspend \/ C!Rest \/ UNCHANGED counters
             PROVE  CountInv'
  OBVIOUS
<1>1. /\ stack' = stack /\ arriving' = arriving /\ sends' = sends /\ program' = program
      /\ torn' = torn /\ lines' = lines /\ buffer' = buffer /\ chk_exit' = chk_exit
      /\ main' \in {"read", "test", "sleep", "suspended", "exited"}
      /\ (main' = main \/ stack = <<>>)
  BY DEF C!ReadNumber, C!Test, C!Suspend, C!Rest, C!vars, counters, CountInv, CountTypes, Stacked
<1>2. \/ counter' = counter /\ expected' = expected
      \/ \E num \in StartNumbers : counter' = num /\ expected' = num /\ stack = <<>>
  BY DEF C!ReadNumber, C!Test, C!Suspend, C!Rest, C!vars, counters, CountInv, Stacked
<1>3. StartNumbers \subseteq -9 .. 9
  BY NumbersAssumption
<1>4. \A s \in Four : Outstanding(s)' = Outstanding(s) /\ Outstanding(s) \in Int
  BY <1>1 DEF Outstanding, Storing, Stage
<1>5. Reach \in Int /\ Reach' \in Int /\ Reach' >= Reach
  BY <1>1, <1>4, ReachGrows DEF CountInv, CountTypes
<1>6. CountTypes'
  BY <1>1, <1>2, <1>3 DEF CountInv, CountTypes, Known
<1>7. Stacked'
  BY <1>1 DEF CountInv, Stacked, Known, Rests
<1>8. Bounded'
  <2>1. \A x : x \in -Reach .. Reach => x \in -Reach' .. Reach'
    BY <1>5, Grown
  <2>2. \A x \in -9 .. 9 : x \in -Reach' .. Reach'
    <3>1. Reach' >= 9
      BY <1>5 DEF CountInv, Bounded
    <3>2. QED BY <1>5, <3>1, Ninefold
  <2>3. {counter', buffer', expected'} \subseteq -Reach' .. Reach'
    BY <1>1, <1>2, <1>3, <2>1, <2>2 DEF CountInv, Bounded
  <2>4. QED BY <1>1, <1>5, <2>3, NumbersKept
<1>9. C!CountIsExact'
  BY <1>1, <1>2 DEF CountInv, C!CountIsExact, C!TextLength
<1>10. ~torn' => Untorn'
  <2>1. ASSUME counter' = counter, ~torn' PROVE Untorn'
    <3>1. Untorn
      BY <1>1, <2>1 DEF CountInv
    <3>2. stack' = stack /\ counter' = counter /\ buffer' = buffer
      BY <1>1, <2>1
    <3>3. QED BY <3>1, <3>2 DEF Untorn, Stage, C!TextLength
  <2>2. CASE stack = <<>>
    BY <1>1, <2>2 DEF Untorn
  <2>3. QED BY <1>2, <2>1, <2>2
<1>11. QED BY <1>6, <1>7, <1>8, <1>9, <1>10 DEF CountInv

\* The signals are numbered, and known.
LEMMA SignalsKnown ==
  ASSUME program \in {"inf13_0", "inf13_1"}
  PROVE  /\ \A i \in DOMAIN C!Signals : C!Signals[i] \in Known
         /\ Known \subseteq C!ToSet(C!Signals) /\ Known \subseteq Four
BY DEF C!Signals, Known, C!ToSet, Four

LEMMA SendStep == CountInv /\ C!Send => CountInv'
<1> SUFFICES ASSUME CountInv, C!Send PROVE CountInv'
  OBVIOUS
<1>1. PICK i \in DOMAIN C!Signals : arriving' = arriving \cup {C!Signals[i]}
  BY DEF C!Send
<1>2. C!Signals[i] \in Known /\ Known \subseteq Four
  BY SignalsKnown DEF CountInv, CountTypes
<1>3. PICK t \in Known : t \in Four /\ arriving' = arriving \cup {t}
  BY <1>1, <1>2
<1>4. /\ stack' = stack /\ program' = program /\ main' = main /\ counter' = counter
      /\ torn' = torn /\ lines' = lines /\ buffer' = buffer /\ chk_exit' = chk_exit
      /\ expected' = expected /\ sends' = sends + 1 /\ sends' \in 0 .. MaxSends
      /\ sends \in Int
  BY NumbersAssumption DEF C!Send, CountInv, CountTypes
<1>5. \A s \in Four : /\ Outstanding(s) \in Int /\ Outstanding(s)' \in Int
                      /\ s # t => Outstanding(s)' = Outstanding(s)
                      /\ Outstanding(s)' <= Outstanding(s) + 1
  <2>1. \A s : Storing(s)' <=> Storing(s)
    BY <1>4 DEF Storing, Stage
  <2>2. QED BY <1>3, <2>1 DEF Outstanding
<1>6. Reach \in Int /\ Reach' \in Int /\ Reach' >= Reach
  BY <1>3, <1>4, <1>5 DEF Reach, Four
<1>7. CountTypes'
  BY <1>3, <1>4 DEF CountInv, CountTypes, Known
<1>8. Stacked'
  BY <1>4 DEF CountInv, Stacked, Known, Rests
<1>9. Bounded'
  BY <1>4, <1>6, Grown, NumbersKept DEF CountInv, Bounded
<1>10. C!CountIsExact'
  BY <1>4 DEF CountInv, C!CountIsExact, C!TextLength
<1>11. ~torn' => Untorn'
  BY <1>4 DEF CountInv, Untorn, Stage, C!TextLength
<1>12. QED BY <1>7, <1>8, <1>9, <1>10, <1>11 DEF CountInv

LEMMA ReturnStep == CountInv /\ C!Return => CountInv'
<1> SUFFICES ASSUME CountInv, C!Return PROVE CountInv'
  OBVIOUS
<1>1. /\ stack' \in Seq(Frames) /\ Len(stack') = Len(stack) - 1 /\ Len(stack) \in Nat \ {0}
      /\ \A i \in 1 .. Len(stack') : i + 1 \in 1 .. Len(stack) /\ stack'[i] = stack[i + 1]
  BY Popped DEF C!Return, CountInv, CountTypes
<1>2. Stage(stack[1].rest) = "return"
  BY DEF C!Return, Stage
<1>3. /\ program' = program /\ counter' = counter /\ torn' = torn /\ lines' = lines
      /\ buffer' = buffer /\ chk_exit' = chk_exit /\ expected' = expected /\ sends' = sends
      /\ arriving' = arriving /\ sends \in Int
      /\ main' = (IF Len(stack) = 1 /\ main = "suspended" THEN "test" ELSE main)
  BY DEF C!Return, CountInv, CountTypes
<1>4. \A s : Storing(s)' <=> Storing(s)
  <2>1. ASSUME NEW s, Storing(s) PROVE Storing(s)'
    <3>1. PICK i \in 1 .. Len(stack) : stack[i].sig = s /\ Stage(stack[i].rest) \in {"load", "store"}
      BY <2>1 DEF Storing
    <3>2. i # 1 /\ i - 1 \in 1 .. Len(stack') /\ stack'[i - 1] = stack[i]
      BY <1>1, <1>2, <3>1
    <3>3. QED BY <3>1, <3>2 DEF Storing, Stage
  <2>2. ASSUME NEW s, Storing(s)' PROVE Storing(s)
    BY <1>1, <2>2 DEF Storing, Stage
  <2>3. QED BY <2>1, <2>2
<1>5. \A s \in Four : Outstanding(s)' = Outstanding(s) /\ Outstanding(s) \in Int
  BY <1>3, <1>4 DEF Outstanding
<1>6. Reach \in Int /\ Reach' \in Int /\ Reach' = Reach
  BY <1>3, <1>5 DEF Reach, Four
<1>7. CountTypes'
  BY <1>1, <1>3 DEF CountInv, CountTypes, Known
<1>8. Stacked'
  <2>1. Stacked
    BY DEF CountInv
  <2>2. main' # "suspended" => stack' = <<>>
    <3>1. main' # "suspended" => Len(stack) = 1
      BY <1>1, <1>3, <2>1 DEF Stacked
    <3>2. Len(stack') = 0 => stack' = <<>>
      BY <1>1, EmptySeq
    <3>3. QED BY <1>1, <3>1, <3>2
  <2>3. \A i \in 1 .. Len(stack') :
          stack'[i].sig \in Known /\ stack'[i].rest \in Rests(stack'[i].sig)
    BY <1>1, <2>1 DEF Stacked
  <2>4. \A i, j \in 1 .. Len(stack') : stack'[i].sig = stack'[j].sig => i = j
    <3>1. ASSUME NEW i \in 1 .. Len(stack'), NEW j \in 1 .. Len(stack'),
                 stack'[i].sig = stack'[j].sig
          PROVE  i = j
      <4>1. i + 1 = j + 1
        BY <1>1, <2>1, <3>1 DEF Stacked
      <4>2. QED BY <4>1
    <3>2. QED BY <3>1
  <2>5. Known' = Known /\ \A s : Rests(s)' = Rests(s)
    BY <1>3 DEF Known, Rests
  <2>6. QED BY <2>2, <2>3, <2>4, <2>5 DEF Stacked
<1>9. Bounded'
  BY <1>1, <1>3, <1>6 DEF CountInv, Bounded
<1>10. C!CountIsExact'
  BY <1>3 DEF CountInv, C!CountIsExact, C!TextLength
<1>11. ~torn' => Untorn'
  <2> SUFFICES ASSUME Untorn PROVE Untorn'
    BY <1>3 DEF CountInv
  <2>1. \A i, j \in 1 .. Len(stack') :
          i < j /\ {stack'[i].sig, stack'[j].sig} = {"USR1", "USR2"} =>
            Stage(stack'[j].rest) \notin {"store", "write"}
    <3>1. ASSUME NEW i \in 1 .. Len(stack'), NEW j \in 1 .. Len(stack'), i < j,
                 {stack'[i].sig, stack'[j].sig} = {"USR1", "USR2"}
          PROVE  Stage(stack'[j].rest) \notin {"store", "write"}
      <4>1. /\ i + 1 \in 1 .. Len(stack) /\ j + 1 \in 1 .. Len(stack) /\ i + 1 < j + 1
            /\ stack'[i] = stack[i + 1] /\ stack'[j] = stack[j + 1]
        BY <1>1, <3>1
      <4>2. QED BY <3>1, <4>1 DEF Untorn
    <3>2. QED BY <3>1
  <2>2. \A i \in 1 .. Len(stack') :
          /\ Stage(stack'[i].rest) = "store" => stack'[i].reg = counter'
          /\ Stage(stack'[i].rest) = "write" =>
               buffer' = stack'[i].due /\ stack'[i].size = C!TextLength(stack'[i].due)
    BY <1>1, <1>3 DEF Untorn
  <2>3. QED BY <2>1, <2>2 DEF Untorn, Stage, C!TextLength
<1>12. QED BY <1>7, <1>8, <1>9, <1>10, <1>11 DEF CountInv

LEMMA DeliverStep == CountInv /\ C!Deliver => CountInv'
<1> SUFFICES ASSUME CountInv, C!Deliver PROVE CountInv'
  OBVIOUS
<1>1. PICK k \in DOMAIN C!Signals :
        LET s == C!Signals[k] IN
          /\ s \in C!Deliverable
          /\ arriving' = arriving \ {s}
          /\ stack' = <<[sig |-> s, rest |-> C!Body(s), reg |-> 0, size |-> 0, due |-> 0]>>
                        \o stack
          /\ torn' = (torn \/ \E i \in DOMAIN stack :
                                {s, stack[i].sig} = {"USR1", "USR2"} /\ C!Halfway(stack[i]))
  BY DEF C!Deliver
<1>2. PICK s \in Known :
        /\ s \in C!Deliverable /\ s \in Four
        /\ arriving' = arriving \ {s}
        /\ stack' = <<[sig |-> s, rest |-> C!Body(s), reg |-> 0, size |-> 0, due |-> 0]>>
                      \o stack
        /\ torn' = (torn \/ \E i \in DOMAIN stack :
                              {s, stack[i].sig} = {"USR1", "USR2"} /\ C!Halfway(stack[i]))
  BY <1>1, SignalsKnown DEF CountInv, CountTypes
<1>3. /\ program' = program /\ main' = main /\ counter' = counter /\ lines' = lines
      /\ buffer' = buffer /\ chk_exit' = chk_exit /\ expected' = expected /\ sends' = sends
      /\ sends \in Int
  BY DEF C!Deliver, CountInv, CountTypes
<1>4. /\ main = "suspended" /\ s \in arriving
      /\ \A i \in 1 .. Len(stack) : stack[i].sig # s
  BY <1>2 DEF C!Deliverable, C!Receptive, CountInv, CountTypes
<1>5. C!Body(s) \in Rests(s) /\ Stage(C!Body(s)) \in {"load", "flag"} /\ C!Body(s) \in Seq(Words)
  BY <1>2, RestFacts DEF Sound, CountInv, CountTypes
<1>6. PICK f \in Frames : /\ f.sig = s /\ f.rest = C!Body(s) /\ f.reg = 0
                          /\ stack' = <<f>> \o stack
  <2> DEFINE g == [sig |-> s, rest |-> C!Body(s), reg |-> 0, size |-> 0, due |-> 0]
  <2>1. g \in Frames /\ g.sig = s /\ g.rest = C!Body(s) /\ g.reg = 0
    BY <1>2, <1>5 DEF Frames, Four
  <2>2. stack' = <<g>> \o stack
    BY <1>2
  <2> HIDE DEF g
  <2>3. QED BY <2>1, <2>2
<1>7. /\ stack' \in Seq(Frames) /\ Len(stack') = Len(stack) + 1 /\ Len(stack) \in Nat
      /\ stack'[1] = f
      /\ \A i \in 1 .. Len(stack') : i # 1 => i - 1 \in 1 .. Len(stack) /\ stack'[i] = stack[i - 1]
  BY <1>6, Pushed DEF CountInv, CountTypes
<1>8. Reach \in Int /\ Reach' \in Int /\ Reach' >= Reach
  <2>1. \A t : t # s => (Storing(t)' <=> Storing(t))
    <3>1. ASSUME NEW t, t # s, Storing(t)' PROVE Storing(t)
      BY <1>6, <1>7, <3>1 DEF Storing, Stage
    <3>2. ASSUME NEW t, t # s, Storing(t) PROVE Storing(t)'
      <4>1. PICK i \in 1 .. Len(stack) :
              stack[i].sig = t /\ Stage(stack[i].rest) \in {"load", "store"}
        BY <3>2 DEF Storing
      <4>2. i + 1 \in 1 .. Len(stack') /\ stack'[i + 1] = stack[i]
        BY <1>7
      <4>3. QED BY <4>1, <4>2 DEF Storing, Stage
    <3>3. QED BY <3>1, <3>2
  <2>2. ~Storing(s)
    BY <1>4 DEF Storing
  <2>3. Outstanding(s) = 1 /\ Outstanding(s)' <= 1
    BY <1>2, <1>4, <2>2 DEF Outstanding
  <2>4. \A t \in Four : Outstanding(t)' <= Outstanding(t)
    BY <1>2, <2>1, <2>3 DEF Outstanding
  <2>5. QED BY <1>3, <2>4, ReachGrows
<1>9. torn' \in BOOLEAN
  BY <1>2 DEF CountInv, CountTypes
<1>10. CountTypes'
  BY <1>2, <1>3, <1>7, <1>9 DEF CountInv, CountTypes, Known
<1>11. Stacked'
  <2>1. Known' = Known /\ \A t : Rests(t)' = Rests(t)
    BY <1>3 DEF Known, Rests
  <2>2. \A i \in 1 .. Len(stack') :
          stack'[i].sig \in Known /\ stack'[i].rest \in Rests(stack'[i].sig)
    BY <1>5, <1>6, <1>7 DEF CountInv, Stacked
  <2>3. ASSUME NEW i \in 1 .. Len(stack'), NEW j \in 1 .. Len(stack'),
               stack'[i].sig = stack'[j].sig
        PROVE  i = j
    <3>1. CASE i = 1 /\ j = 1
      BY <3>1
    <3>2. CASE i = 1 /\ j # 1
      BY <1>4, <1>6, <1>7, <2>3, <3>2
    <3>3. CASE i # 1 /\ j = 1
      BY <1>4, <1>6, <1>7, <2>3, <3>3
    <3>4. CASE i # 1 /\ j # 1
      <4>1. i - 1 = j - 1
        BY <1>7, <2>3, <3>4 DEF CountInv, Stacked
      <4>2. QED BY <4>1
    <3>5. QED BY <3>1, <3>2, <3>3, <3>4
  <2>4. main' = "suspended"
    BY <1>3, <1>4
  <2>5. QED BY <2>1, <2>2, <2>3, <2>4 DEF Stacked
<1>12. Bounded'
  <2>1. \A x : x \in -Reach .. Reach => x \in -Reach' .. Reach'
    BY <1>8, Grown
  <2>2. \A i \in 1 .. Len(stack) : stack[i].reg \in -Reach .. Reach
    BY DEF CountInv, Bounded
  <2>3. 0 \in -Reach' .. Reach' /\ Reach' >= 9
    <3>1. Reach' >= 9
      BY <1>8 DEF CountInv, Bounded
    <3>2. QED BY <1>8, <3>1, Ninefold
  <2>4. \A i \in 1 .. Len(stack') : stack'[i].reg \in -Reach' .. Reach'
    BY <1>6, <1>7, <2>1, <2>2, <2>3
  <2>5. {counter', buffer', expected'} \subseteq -Reach' .. Reach'
    BY <1>3, <2>1 DEF CountInv, Bounded
  <2>6. QED BY <2>3, <2>4, <2>5 DEF Bounded
<1>13. C!CountIsExact'
  BY <1>2, <1>3 DEF CountInv, C!CountIsExact, C!TextLength
<1>14. ~torn' => Untorn'
  <2> SUFFICES ASSUME ~torn' PROVE Untorn'
    OBVIOUS
  <2>1. ~torn /\ \A i \in 1 .. Len(stack) :
                   {s, stack[i].sig} = {"USR1", "USR2"} => ~C!Halfway(stack[i])
    <3>1. DOMAIN stack = 1 .. Len(stack)
      BY DEF CountInv, CountTypes
    <3>2. ~(torn \/ \E i \in DOMAIN stack :
                     {s, stack[i].sig} = {"USR1", "USR2"} /\ C!Halfway(stack[i]))
      BY <1>2
    <3>3. QED BY <3>1, <3>2
  <2>2. Untorn
    BY <2>1 DEF CountInv
  <2>3. \A i \in 1 .. Len(stack) : Stage(stack[i].rest) \in {"store", "write"} => C!Halfway(stack[i])
    BY DEF Stage, C!Halfway
  <2>4. ASSUME NEW i \in 1 .. Len(stack'), NEW j \in 1 .. Len(stack'), i < j,
               {stack'[i].sig, stack'[j].sig} = {"USR1", "USR2"}
        PROVE  Stage(stack'[j].rest) \notin {"store", "write"}
    <3>1. j # 1 /\ j - 1 \in 1 .. Len(stack) /\ stack'[j] = stack[j - 1]
      BY <1>7, <2>4
    <3>2. CASE i = 1
      BY <1>6, <1>7, <2>1, <2>3, <2>4, <3>1, <3>2
    <3>3. CASE i # 1
      <4>1. i - 1 \in 1 .. Len(stack) /\ stack'[i] = stack[i - 1] /\ i - 1 < j - 1
        BY <1>7, <2>4, <3>3
      <4>2. QED BY <2>2, <2>4, <3>1, <4>1 DEF Untorn
    <3>4. QED BY <3>2, <3>3
  <2>5. Stage(f.rest) \in {"load", "flag"}
    BY <1>5, <1>6
  <2>6. \A i \in 1 .. Len(stack') :
          /\ Stage(stack'[i].rest) = "store" => stack'[i].reg = counter'
          /\ Stage(stack'[i].rest) = "write" =>
               buffer' = stack'[i].due /\ stack'[i].size = C!TextLength(stack'[i].due)
    BY <1>3, <1>7, <2>2, <2>5 DEF Untorn
  <2>7. QED BY <2>4, <2>6 DEF Untorn, Stage, C!TextLength
<1>15. QED BY <1>10, <1>11, <1>12, <1>13, <1>14 DEF CountInv

LEMMA CountInitially ==
  C!Init \/ CountingOver => CountInv
<1> SUFFICES ASSUME C!Init \/ CountingOver PROVE CountInv
  OBVIOUS
<1>1. /\ program \in {"inf13_0", "inf13_1"} /\ main \in {"read", "test", "exited"}
      /\ counter = 0 /\ chk_exit \in BOOLEAN /\ buffer = 0 /\ arriving = {} /\ stack = <<>>
      /\ lines = <<>> /\ sends = 0 /\ expected = 0 /\ torn = FALSE
  BY DEF C!Init, CountingOver
<1>2. MaxSends \in Nat
  BY NumbersAssumption
<1>3. Len(stack) = 0 /\ stack \in Seq(Frames) /\ lines \in Seq(Lines)
  BY <1>1
<1>4. CountTypes
  <2>1. counter \in Int /\ buffer \in Int /\ expected \in Int /\ sends \in 0 .. MaxSends
    BY <1>1, <1>2
  <2>2. /\ main \in {"read", "test", "sleep", "suspended", "exited"}
        /\ torn \in BOOLEAN /\ arriving \subseteq Known
    BY <1>1
  <2>3. QED BY <1>1, <1>3, <2>1, <2>2 DEF CountTypes
<1>5. Stacked /\ Untorn
  BY <1>1, <1>3 DEF Stacked, Untorn
<1>6. \A s \in Four : Outstanding(s) = 0
  BY <1>1, <1>3 DEF Outstanding, Storing
<1>7. Reach = 9
  BY <1>1, <1>6 DEF Reach, Four
<1>8. Bounded
  BY <1>1, <1>3, <1>7 DEF Bounded
<1>9. C!CountIsExact
  BY <1>1 DEF C!CountIsExact
<1>10. QED BY <1>4, <1>5, <1>8, <1>9 DEF CountInv

LEMMA CountExact == CountInv => CountIsExact
<1> SUFFICES ASSUME CountInv PROVE CountIsExact
  OBVIOUS
<1>1. \A s \in Four : Outstanding(s) \in Nat
  BY DEF Outstanding
<1>2. Reach \in Int /\ Reach <= 9 + MaxSends /\ MaxSends \in Int
  BY <1>1, NumbersAssumption DEF Reach, Four, CountInv, CountTypes
<1>3. {counter, buffer, expected} \subseteq C!Numbers
  <2>1. \A x : x \in -Reach .. Reach => x \in -(9 + MaxSends) .. 9 + MaxSends
    BY <1>2
  <2>2. QED BY <2>1 DEF C!Numbers, CountInv, Bounded
<1>4. Known \subseteq C!ToSet(C!Signals)
  BY SignalsKnown DEF CountInv, CountTypes
<1>5. C!TypeOK
  BY <1>3, <1>4 DEF C!TypeOK, CountInv, CountTypes, Stacked
<1>6. QED BY <1>5 DEF CountIsExact, C!Inv, CountInv

\* inf13-0.c, inf13-1.c: for every sequence of signals, the count is exact and written in
\* full unless a handler is interrupted halfway by one that does the same work.
THEOREM CountsTheSignals == AllSpec => []CountIsExact
<1>1. AllInit => CountInv
  BY CountInitially DEF AllInit
<1>2. CountInv /\ [AllNext]_allVars => CountInv'
  <2>1. CountInv /\ C!Next => CountInv'
    BY MainStep, SendStep, DeliverStep, LoadStep, StoreStep, FlagStep, FormatStep, WriteStep,
       ReturnStep DEF C!Next, C!Process
  <2>2. CountInv /\ UNCHANGED counters => CountInv'
    BY MainStep
  <2>3. QED BY <2>1, <2>2 DEF AllNext, allVars
<1>3. CountInv => CountIsExact
  BY CountExact
<1>4. QED BY <1>1, <1>2, <1>3, PTL DEF AllSpec

-----------------------------------------------------------------------------
(***************************************************************************)
(* inf14-0.c, inf14-1.c and inf-14-1-tester.c.  First, what the operators  *)
(* of RealtimeSignals compute: counting the signals of a number, taking    *)
(* one out of a queue, and which one sigwaitinfo takes.                    *)
(***************************************************************************)

\* A set of numbers has a least one: of the sets 0 .. x one is contained in all others.
LEMMA LeastElement ==
  ASSUME NEW X \in SUBSET Nat, X # {}
  PROVE  \E x \in X : \A y \in X : x <= y
<1> DEFINE U == {0 .. x : x \in X}
<1>1. U \subseteq FiniteSubsetsOf(Nat) /\ U # {}
  <2>1. ASSUME NEW x \in Nat PROVE IsFiniteSet(0 .. x) /\ 0 .. x \subseteq Nat
    BY FS_Interval
  <2>2. QED BY <2>1 DEF FiniteSubsetsOf
<1>2. PICK u \in U : \A v \in U : ~ (<<v, u>> \in StrictSubsetOrdering(Nat))
  BY <1>1, FS_StrictSubsetOrderingWellFounded, WFMin
<1>3. PICK x \in X : u = 0 .. x
  OBVIOUS
<1>4. ASSUME NEW y \in X, y < x PROVE FALSE
  <2>1. 0 .. y \in U /\ 0 .. y \subseteq 0 .. x /\ x \in 0 .. x /\ x \notin 0 .. y
    BY <1>4
  <2>2. 0 .. y \in SUBSET Nat /\ 0 .. x \in SUBSET Nat
    OBVIOUS
  <2>3. <<0 .. y, 0 .. x>> \in StrictSubsetOrdering(Nat)
    BY <2>1, <2>2 DEF StrictSubsetOrdering
  <2>4. QED BY <1>2, <1>3, <2>1, <2>3
<1>5. QED BY <1>4

\* The indices at which q has signals of number k.
Places(q, i, k) == {j \in 1 .. i : q[j].number = k}

LEMMA RankIsSize ==
  ASSUME NEW q, NEW i \in Nat, NEW k
  PROVE  /\ IsFiniteSet(Places(q, i, k)) /\ R!Rank(q, i, k) = Cardinality(Places(q, i, k))
         /\ R!Rank(q, i, k) \in Nat
<1>1. IsFiniteSet(1 .. i) /\ Places(q, i, k) \in SUBSET (1 .. i)
  BY FS_Interval DEF Places
<1>2. IsFiniteSet(Places(q, i, k))
  BY <1>1, FS_Subset
<1>3. R!Rank(q, i, k) = Cardinality(Places(q, i, k))
  BY DEF R!Rank, Places, R!Cardinality, R!IsFiniteSet, Cardinality, IsFiniteSet
<1>4. QED BY <1>2, <1>3, FS_CardinalityType

LEMMA RankSteps ==
  ASSUME NEW q, NEW i \in Nat, NEW k
  PROVE  R!Rank(q, i + 1, k) = R!Rank(q, i, k) + (IF q[i + 1].number = k THEN 1 ELSE 0)
<1>1. CASE q[i + 1].number = k
  <2>1. Places(q, i + 1, k) = Places(q, i, k) \cup {i + 1} /\ i + 1 \notin Places(q, i, k)
    BY <1>1 DEF Places
  <2>2. QED BY <1>1, <2>1, RankIsSize, FS_AddElement
<1>2. CASE q[i + 1].number # k
  <2>1. Places(q, i + 1, k) = Places(q, i, k)
    BY <1>2 DEF Places
  <2>2. QED BY <1>2, <2>1, RankIsSize
<1>3. QED BY <1>1, <1>2

LEMMA RankStarts ==
  ASSUME NEW q, NEW k
  PROVE  R!Rank(q, 0, k) = 0 /\ R!Rank(q, 1, k) = IF q[1].number = k THEN 1 ELSE 0
<1>1. Places(q, 0, k) = {} /\ 0 \in Nat /\ 0 + 1 = 1
  BY DEF Places
<1>2. R!Rank(q, 0, k) = 0
  BY <1>1, RankIsSize, FS_EmptySet
<1>3. R!Rank(q, 0 + 1, k) = R!Rank(q, 0, k) + (IF q[0 + 1].number = k THEN 1 ELSE 0)
  BY <1>1, RankSteps
<1>4. QED BY <1>1, <1>2, <1>3

LEMMA RankStepsBack ==
  ASSUME NEW q, NEW i \in Nat \ {0}, NEW k
  PROVE  /\ R!Rank(q, i - 1, k) \in Nat
         /\ R!Rank(q, i, k) = R!Rank(q, i - 1, k) + (IF q[i].number = k THEN 1 ELSE 0)
<1>1. PICK m \in Nat : i = m + 1 /\ i - 1 = m
  <2>1. i - 1 \in Nat /\ i = (i - 1) + 1
    OBVIOUS
  <2>2. QED BY <2>1
<1>2. QED BY <1>1, RankSteps, RankIsSize

\* Only the signals counted matter.
LEMMA RankSame ==
  ASSUME NEW q, NEW r, NEW i \in Nat, NEW k, \A j \in 1 .. i : q[j].number = r[j].number
  PROVE  R!Rank(q, i, k) = R!Rank(r, i, k)
<1>1. Places(q, i, k) = Places(r, i, k)
  BY DEF Places
<1>2. QED BY <1>1, RankIsSize

LEMMA RemoveAtFacts ==
  ASSUME NEW S, NEW q \in Seq(S), NEW p \in 1 .. Len(q)
  PROVE  /\ R!RemoveAt(q, p) \in Seq(S) /\ Len(R!RemoveAt(q, p)) = Len(q) - 1 /\ Len(q) \in Nat
         /\ \A i \in 1 .. Len(q) - 1 :
              R!RemoveAt(q, p)[i] = q[IF i < p THEN i ELSE i + 1]
<1> DEFINE a == SubSeq(q, 1, p - 1)
           b == SubSeq(q, p + 1, Len(q))
<1>1. a \in Seq(S) /\ Len(a) = p - 1 /\ \A i \in 1 .. p - 1 : a[i] = q[i]
  BY SubSeqProperties
<1>2. b \in Seq(S) /\ Len(b) = Len(q) - p /\ \A i \in 1 .. Len(q) - p : b[i] = q[p + i]
  BY SubSeqProperties
<1>3. R!RemoveAt(q, p) = a \o b
  BY DEF R!RemoveAt
<1> HIDE DEF a, b
<1>4. /\ a \o b \in Seq(S) /\ Len(a \o b) = Len(q) - 1
      /\ \A i \in 1 .. Len(a) + Len(b) :
           (a \o b)[i] = IF i <= Len(a) THEN a[i] ELSE b[i - Len(a)]
  <2>1. a \in Seq(S) /\ b \in Seq(S) /\ Len(a) = p - 1 /\ Len(b) = Len(q) - p /\ Len(q) \in Nat
    BY <1>1, <1>2
  <2>2. QED BY <2>1
<1>5. ASSUME NEW i \in 1 .. Len(q) - 1
      PROVE  (a \o b)[i] = q[IF i < p THEN i ELSE i + 1]
  <2>1. CASE i < p
    BY <1>1, <1>2, <1>4, <2>1
  <2>2. CASE ~(i < p)
    <3>1. i - (p - 1) \in 1 .. Len(q) - p /\ p + (i - (p - 1)) = i + 1
      BY <2>2
    <3>2. b[i - (p - 1)] = q[i + 1]
      BY <1>2, <3>1
    <3>3. QED BY <1>1, <1>2, <1>4, <2>2, <3>2
  <2>3. QED BY <2>1, <2>2
<1>6. QED BY <1>3, <1>4, <1>5

\* Without the signal at p, those after it move up one place.
LEMMA RankRemoved ==
  ASSUME NEW S, NEW q \in Seq(S), NEW p \in 1 .. Len(q), NEW k, NEW i \in 0 .. Len(q) - 1
  PROVE  R!Rank(R!RemoveAt(q, p), i, k) =
           IF i < p THEN R!Rank(q, i, k)
           ELSE R!Rank(q, i + 1, k) - (IF q[p].number = k THEN 1 ELSE 0)
<1> DEFINE r == R!RemoveAt(q, p)
<1>1. \A j \in 1 .. Len(q) - 1 : r[j] = q[IF j < p THEN j ELSE j + 1]
  BY RemoveAtFacts
<1> HIDE DEF r
<1>2. CASE i < p
  <2>1. \A j \in 1 .. i : r[j].number = q[j].number
    BY <1>1, <1>2
  <2>2. R!Rank(r, i, k) = R!Rank(q, i, k)
    BY <2>1, RankSame
  <2>3. QED BY <1>2, <2>2 DEF r
<1>3. CASE ~(i < p)
  <2> DEFINE A == Places(r, i, k)
             B == Places(q, i + 1, k) \ {p}
             f == [j \in A |-> IF j < p THEN j ELSE j + 1]
  <2>1. \A j \in 1 .. i : r[j].number = k <=> q[IF j < p THEN j ELSE j + 1].number = k
    BY <1>1
  <2>2. \A j \in A : f[j] \in B
    BY <1>3, <2>1 DEF Places
  <2>3. f \in [A -> B]
    BY <2>2
  <2>4. \A j, m \in A : f[j] = f[m] => j = m
    BY DEF Places
  <2>5. \A m \in B : \E j \in A : f[j] = m
    <3>1. ASSUME NEW m \in B PROVE \E j \in A : f[j] = m
      <4>1. m \in 1 .. i + 1 /\ m # p /\ q[m].number = k
        BY DEF Places
      <4>2. CASE m < p
        <5>1. m \in A /\ f[m] = m
          BY <1>3, <2>1, <4>1, <4>2 DEF Places
        <5>2. QED BY <5>1
      <4>3. CASE m > p
        <5>1. m - 1 \in 1 .. i /\ ~(m - 1 < p) /\ (m - 1) + 1 = m
          BY <4>1, <4>3
        <5>2. r[m - 1].number = k
          BY <2>1, <4>1, <5>1
        <5>3. m - 1 \in A
          BY <5>1, <5>2 DEF Places
        <5>4. f[m - 1] = m
          BY <5>1, <5>3
        <5>5. QED BY <5>3, <5>4
      <4>4. QED BY <4>1, <4>2, <4>3
    <3>2. QED BY <3>1
  <2>6. f \in Bijection(A, B)
    <3> HIDE DEF f, A, B
    <3>1. QED BY <2>3, <2>4, <2>5, Fun_IsBij
  <2>7. IsFiniteSet(A) /\ R!Rank(r, i, k) = Cardinality(A)
    BY RankIsSize
  <2>8. Cardinality(B) = Cardinality(A)
    <3> HIDE DEF f, A, B
    <3>1. QED BY <2>6, <2>7, FS_Bijection DEF ExistsBijection
  <2>9. /\ IsFiniteSet(Places(q, i + 1, k))
        /\ R!Rank(q, i + 1, k) = Cardinality(Places(q, i + 1, k))
        /\ p \in Places(q, i + 1, k) <=> q[p].number = k
    <3>1. i + 1 \in Nat /\ p \in 1 .. i + 1
      BY <1>3
    <3>2. /\ IsFiniteSet(Places(q, i + 1, k))
          /\ R!Rank(q, i + 1, k) = Cardinality(Places(q, i + 1, k))
      <4> HIDE DEF A, B, f
      <4>1. QED BY <3>1, RankIsSize
    <3>3. p \in Places(q, i + 1, k) <=> q[p].number = k
      BY <3>1 DEF Places
    <3>4. QED BY <3>2, <3>3
  <2>10. Cardinality(B) = R!Rank(q, i + 1, k) - (IF q[p].number = k THEN 1 ELSE 0)
    <3>1. R!Rank(q, i + 1, k) \in Nat
      <4>1. i + 1 \in Nat
        OBVIOUS
      <4> HIDE DEF A, B, f
      <4>2. QED BY <4>1, RankIsSize
    <3> DEFINE P == Places(q, i + 1, k)
    <3> HIDE DEF P
    <3>2. Cardinality(P \ {p}) = IF p \in P THEN Cardinality(P) - 1 ELSE Cardinality(P)
      BY <2>9, FS_RemoveElement DEF P
    <3>3. QED BY <2>9, <3>1, <3>2 DEF P
  <2>11. QED BY <1>3, <2>7, <2>8, <2>10 DEF r
<1>4. QED BY <1>2, <1>3

\* sigwaitinfo takes a pending signal, one with the lowest number and of these the first.
LEMMA ChosenFacts ==
  ASSUME NEW q \in Seq(R!Signals), q # <<>>
  PROVE  LET c == R!Chosen(q) IN
           /\ c \in 1 .. Len(q)
           /\ \A j \in 1 .. Len(q) : \/ q[c].number < q[j].number
                                     \/ (q[c].number = q[j].number /\ c <= j)
<1>1. DOMAIN q = 1 .. Len(q) /\ Len(q) \in Nat \ {0}
  BY EmptySeq
<1>2. \A j \in 1 .. Len(q) : q[j].number \in Int /\ q[j].number + 1 \in Nat
  <2>1. FileCount \in Nat
    BY NumbersAssumption
  <2>2. \A j \in 1 .. Len(q) : q[j] \in R!Signals
    BY <1>1
  <2>3. QED BY <2>1, <2>2 DEF R!Signals
<1> DEFINE N == {q[j].number + 1 : j \in 1 .. Len(q)}
<1>3. N \in SUBSET Nat /\ N # {}
  <2>1. q[1].number + 1 \in N
    BY <1>1
  <2>2. QED BY <1>2, <2>1
<1>4. PICK num \in N : \A m \in N : num <= m
  BY <1>3, LeastElement
<1> DEFINE P == {j \in 1 .. Len(q) : q[j].number + 1 = num}
<1>5. P \in SUBSET Nat /\ P # {}
  BY <1>4
<1>6. PICK c \in P : \A j \in P : c <= j
  BY <1>5, LeastElement
<1>7. ASSUME NEW j \in 1 .. Len(q)
      PROVE  q[c].number < q[j].number \/ (q[c].number = q[j].number /\ c <= j)
  <2>1. q[j].number + 1 \in N /\ num <= q[j].number + 1
    BY <1>4
  <2>2. q[c].number + 1 = num /\ c \in 1 .. Len(q)
    BY <1>6
  <2>3. q[j].number = q[c].number => j \in P
    BY <2>2
  <2>4. QED BY <1>2, <1>6, <2>1, <2>2, <2>3
<1>8. \E i \in DOMAIN q : \A j \in DOMAIN q :
        q[i].number < q[j].number \/ (q[i].number = q[j].number /\ i <= j)
  BY <1>1, <1>6, <1>7
<1> HIDE DEF N, P
<1>9. QED BY <1>1, <1>8 DEF R!Chosen

-----------------------------------------------------------------------------
(***************************************************************************)
(* Questions and answers.  The signals of number 0 in q are due to the     *)
(* questions that follow the first off ones, less as much as has been      *)
(* taken from them.                                                        *)
(***************************************************************************)
DueTo(q, off, a, less) ==
  \A i \in 1 .. Len(q) : q[i].number = 0 =>
    off + R!Rank(q, i, 0) <= Len(a) /\ q[i].value = a[off + R!Rank(q, i, 0)] - less

LEMMA CountAppended ==
  ASSUME NEW S, NEW q \in Seq(S), NEW e \in S, NEW k
  PROVE  /\ Append(q, e) \in Seq(S) /\ Len(q) \in Nat /\ Len(Append(q, e)) = Len(q) + 1
         /\ Append(q, e)[Len(q) + 1] = e /\ \A i \in 1 .. Len(q) : Append(q, e)[i] = q[i]
         /\ \A i \in 0 .. Len(q) : R!Rank(Append(q, e), i, k) = R!Rank(q, i, k)
         /\ R!CountOf(q, k) \in Nat
         /\ R!CountOf(Append(q, e), k) = R!CountOf(q, k) + (IF e.number = k THEN 1 ELSE 0)
<1>1. /\ Append(q, e) \in Seq(S) /\ Len(q) \in Nat /\ Len(Append(q, e)) = Len(q) + 1
      /\ Append(q, e)[Len(q) + 1] = e /\ \A i \in 1 .. Len(q) : Append(q, e)[i] = q[i]
  OBVIOUS
<1> DEFINE r == Append(q, e)
<1> HIDE DEF r
<1>2. ASSUME NEW i \in 0 .. Len(q) PROVE R!Rank(r, i, k) = R!Rank(q, i, k)
  <2>1. i \in Nat /\ \A j \in 1 .. i : r[j].number = q[j].number
    BY <1>1 DEF r
  <2>2. QED BY <2>1, RankSame
<1>3. R!Rank(r, Len(q) + 1, k) = R!Rank(r, Len(q), k) + (IF r[Len(q) + 1].number = k THEN 1 ELSE 0)
  BY <1>1, RankSteps
<1>4. R!CountOf(r, k) = R!CountOf(q, k) + (IF e.number = k THEN 1 ELSE 0)
  BY <1>1, <1>2, <1>3 DEF R!CountOf, r
<1>5. R!CountOf(q, k) \in Nat
  BY <1>1, RankIsSize DEF R!CountOf
<1>6. QED BY <1>1, <1>2, <1>4, <1>5 DEF r

LEMMA DueAppended ==
  ASSUME NEW S, NEW q \in Seq(S), NEW e \in S, NEW a, NEW off \in Nat, NEW less,
         DueTo(q, off, a, less),
         e.number = 0 => /\ off + (R!CountOf(q, 0) + 1) <= Len(a)
                         /\ e.value = a[off + (R!CountOf(q, 0) + 1)] - less
  PROVE  DueTo(Append(q, e), off, a, less)
<1> DEFINE r == Append(q, e)
<1> HIDE DEF r
<1>1. /\ Len(q) \in Nat /\ Len(r) = Len(q) + 1
      /\ r[Len(q) + 1] = e /\ \A i \in 1 .. Len(q) : r[i] = q[i]
      /\ \A i \in 0 .. Len(q) : R!Rank(r, i, 0) = R!Rank(q, i, 0)
      /\ R!CountOf(q, 0) \in Nat
      /\ R!CountOf(r, 0) = R!CountOf(q, 0) + (IF e.number = 0 THEN 1 ELSE 0)
  BY CountAppended DEF r
<1>2. ASSUME NEW i \in 1 .. Len(r), r[i].number = 0
      PROVE  off + R!Rank(r, i, 0) <= Len(a) /\ r[i].value = a[off + R!Rank(r, i, 0)] - less
  <2>1. CASE i \in 1 .. Len(q)
    BY <1>1, <1>2, <2>1 DEF DueTo
  <2>2. CASE i = Len(q) + 1
    <3>1. R!Rank(r, i, 0) = R!CountOf(q, 0) + 1
      BY <1>1, <1>2, <2>2 DEF R!CountOf
    <3>2. QED BY <1>1, <1>2, <2>2, <3>1
  <2>3. QED BY <1>1, <2>1, <2>2
<1>3. DueTo(r, off, a, less)
  BY <1>2 DEF DueTo
<1>4. QED BY <1>3 DEF r

\* The signal taken is due to the next question, if it is one of those that are.
LEMMA DueRemoved ==
  ASSUME NEW q \in Seq(R!Signals), q # <<>>, NEW a, NEW off \in Nat, NEW less,
         DueTo(q, off, a, less), \A i \in 1 .. Len(q) : q[i].number \in {-1, 0}
  PROVE  LET e == q[R!Chosen(q)]
             one == IF e.number = 0 THEN 1 ELSE 0
             r == R!RemoveAt(q, R!Chosen(q))
         IN /\ e \in R!Signals /\ r \in Seq(R!Signals)
            /\ R!CountOf(r, 0) = R!CountOf(q, 0) - one
            /\ e.number = 0 => off + 1 <= Len(a) /\ e.value = a[off + 1] - less
            /\ DueTo(r, off + one, a, less)
<1> DEFINE c == R!Chosen(q)
           e == q[c]
           one == IF e.number = 0 THEN 1 ELSE 0
           r == R!RemoveAt(q, c)
<1>1. c \in 1 .. Len(q) /\ \A j \in 1 .. Len(q) : \/ q[c].number < q[j].number
                                                  \/ q[c].number = q[j].number /\ c <= j
  BY ChosenFacts
<1> HIDE DEF c
<1>2. /\ r \in Seq(R!Signals) /\ Len(r) = Len(q) - 1 /\ Len(q) \in Nat
      /\ \A i \in 1 .. Len(q) - 1 : r[i] = q[IF i < c THEN i ELSE i + 1]
  BY <1>1, RemoveAtFacts
<1>3. \A i \in 0 .. Len(q) - 1 :
        R!Rank(r, i, 0) = IF i < c THEN R!Rank(q, i, 0)
                          ELSE R!Rank(q, i + 1, 0) - one
  BY <1>1, RankRemoved
<1>4. e \in R!Signals
  BY <1>1
<1>5. e.number = 0 => c = 1
  BY <1>1, <1>2
<1> HIDE DEF r
<1>6. R!CountOf(r, 0) = R!CountOf(q, 0) - one
  <2>1. Len(q) - 1 \in 0 .. Len(q) - 1 /\ (~(Len(q) - 1 < c) \/ c = Len(q))
    BY <1>1, <1>2
  <2>2. CASE ~(Len(q) - 1 < c)
    BY <1>2, <1>3, <2>1, <2>2 DEF R!CountOf
  <2>3. CASE c = Len(q)
    <3>1. R!Rank(q, Len(q), 0) = R!Rank(q, Len(q) - 1, 0) + one
      BY <1>1, <1>2, <2>3, RankStepsBack
    <3>2. R!Rank(r, Len(q) - 1, 0) = R!Rank(q, Len(q) - 1, 0)
      BY <1>1, <1>2, <1>3, <2>3
    <3>3. R!Rank(q, Len(q) - 1, 0) \in Nat
      BY <1>1, <1>2, RankIsSize
    <3>4. QED BY <1>2, <3>1, <3>2, <3>3 DEF R!CountOf
  <2>4. QED BY <1>1, <1>2, <2>2, <2>3
<1>7. ASSUME e.number = 0
      PROVE  off + 1 <= Len(a) /\ e.value = a[off + 1] - less
  <2>1. R!Rank(q, c, 0) = 1
    BY <1>5, <1>7, RankStarts
  <2>2. QED BY <1>1, <1>7, <2>1 DEF DueTo
<1>8. ASSUME NEW i \in 1 .. Len(r), r[i].number = 0
      PROVE  /\ off + one + R!Rank(r, i, 0) <= Len(a)
             /\ r[i].value = a[off + one + R!Rank(r, i, 0)] - less
  <2>1. CASE i < c
    <3>1. i \in 1 .. Len(q) /\ r[i] = q[i] /\ R!Rank(r, i, 0) = R!Rank(q, i, 0) /\ one = 0
      BY <1>1, <1>2, <1>3, <1>5, <2>1
    <3>2. R!Rank(q, i, 0) \in Nat
      BY RankIsSize
    <3>3. off + R!Rank(q, i, 0) <= Len(a) /\ q[i].value = a[off + R!Rank(q, i, 0)] - less
      BY <1>8, <3>1 DEF DueTo
    <3>4. off + one + R!Rank(r, i, 0) = off + R!Rank(q, i, 0)
      BY <3>1, <3>2
    <3>5. QED BY <3>1, <3>3, <3>4
  <2>2. CASE ~(i < c)
    <3>1. i + 1 \in 1 .. Len(q) /\ r[i] = q[i + 1] /\ R!Rank(r, i, 0) = R!Rank(q, i + 1, 0) - one
      <4>1. i \in 0 .. Len(q) - 1 /\ i \in 1 .. Len(q) - 1 /\ i + 1 \in 1 .. Len(q)
        BY <1>1, <1>2
      <4>2. r[i] = q[i + 1]
        BY <1>2, <2>2, <4>1
      <4> HIDE DEF one
      <4>3. R!Rank(r, i, 0) = R!Rank(q, i + 1, 0) - one
        BY <1>3, <2>2, <4>1
      <4>4. QED BY <4>1, <4>2, <4>3
    <3>2. R!Rank(q, i + 1, 0) \in Nat /\ one \in Nat
      BY RankIsSize
    <3>3. off + R!Rank(q, i + 1, 0) <= Len(a) /\ q[i + 1].value = a[off + R!Rank(q, i + 1, 0)] - less
      BY <1>8, <3>1 DEF DueTo
    <3> HIDE DEF one
    <3>4. off + one + R!Rank(r, i, 0) = off + R!Rank(q, i + 1, 0)
      BY <3>1, <3>2
    <3>5. QED BY <3>1, <3>3, <3>4
  <2>3. QED BY <2>1, <2>2
<1>9. DueTo(r, off + one, a, less)
  BY <1>8 DEF DueTo
<1>10. QED BY <1>2, <1>4, <1>6, <1>7, <1>9 DEF r, c

\* One question more takes nothing from those before.
LEMMA DueStays ==
  ASSUME NEW q, NEW a \in Seq(Int), NEW v \in Int, NEW off \in Nat, NEW less, Len(q) \in Nat,
         DueTo(q, off, a, less)
  PROVE  DueTo(q, off, Append(a, v), less)
<1>1. /\ Len(a) \in Nat /\ Len(Append(a, v)) = Len(a) + 1
      /\ \A num \in 1 .. Len(a) : Append(a, v)[num] = a[num]
  OBVIOUS
<1> DEFINE b == Append(a, v)
<1> HIDE DEF b
<1>2. ASSUME NEW i \in 1 .. Len(q), q[i].number = 0
      PROVE  off + R!Rank(q, i, 0) <= Len(b) /\ q[i].value = b[off + R!Rank(q, i, 0)] - less
  <2>2. R!Rank(q, i, 0) = R!Rank(q, i - 1, 0) + 1 /\ R!Rank(q, i - 1, 0) \in Nat
    <3>1. i \in Nat \ {0}
      OBVIOUS
    <3>2. QED BY <1>2, <3>1, RankStepsBack
  <2>3. off + R!Rank(q, i, 0) <= Len(a) /\ q[i].value = a[off + R!Rank(q, i, 0)] - less
    BY <1>2 DEF DueTo
  <2>4. off + R!Rank(q, i, 0) \in 1 .. Len(a)
    BY <1>1, <2>2, <2>3
  <2>5. QED BY <1>1, <2>3, <2>4 DEF b
<1>3. QED BY <1>2 DEF DueTo, b

\* What is told, under way to the tester, worked on and pending for the server.
Items(t, b, c, d) == R!CountOf(t, 0) + R!CountOf(b, 0) + R!CountOf(c, 0) + R!CountOf(d, 0)

\* In this order, each is due to the numbers that those before it have left.
Talk(t, b, c, d, a) ==
  /\ DueTo(b, R!CountOf(t, 0), a, 1)
  /\ DueTo(c, R!CountOf(t, 0) + R!CountOf(b, 0), a, 0)
  /\ DueTo(d, R!CountOf(t, 0) + R!CountOf(b, 0) + R!CountOf(c, 0), a, 0)

Boxes == Seq(R!Signals)

LEMMA BoxCounts ==
  ASSUME NEW q \in Boxes
  PROVE  Len(q) \in Nat /\ R!CountOf(q, 0) \in Nat
<1>1. Len(q) \in Nat
  BY DEF Boxes
<1>2. QED BY <1>1, RankIsSize DEF R!CountOf

LEMMA OneSignal ==
  ASSUME NEW e \in R!Signals
  PROVE  /\ <<>> \in Boxes /\ <<e>> \in Boxes /\ R!CountOf(<<>>, 0) = 0
         /\ R!CountOf(<<e>>, 0) = IF e.number = 0 THEN 1 ELSE 0
         /\ R!Rank(<<e>>, 1, 0) = IF e.number = 0 THEN 1 ELSE 0
         /\ Len(<<e>>) = 1 /\ <<e>>[1] = e
<1>1. /\ <<>> \in Boxes /\ <<e>> \in Boxes /\ Len(<<>>) = 0 /\ Len(<<e>>) = 1 /\ <<e>>[1] = e
  BY DEF Boxes
<1> DEFINE q == <<e>>
<1> HIDE DEF q
<1>2. R!Rank(<<>>, 0, 0) = 0
  BY RankStarts
<1>3. R!Rank(q, 1, 0) = IF q[1].number = 0 THEN 1 ELSE 0
  BY RankStarts
<1>4. QED BY <1>1, <1>2, <1>3 DEF R!CountOf, q

LEMMA OneDue ==
  ASSUME NEW e \in R!Signals, NEW off \in Nat, NEW a, NEW less
  PROVE  /\ DueTo(<<>>, off, a, less)
         /\ DueTo(<<e>>, off, a, less) <=>
              (e.number = 0 => off + 1 <= Len(a) /\ e.value = a[off + 1] - less)
<1>1. DueTo(<<>>, off, a, less)
  BY DEF DueTo
<1> DEFINE q == <<e>>
<1> HIDE DEF q
<1>2. /\ Len(q) = 1 /\ q[1] = e /\ R!Rank(q, 1, 0) = IF e.number = 0 THEN 1 ELSE 0
  BY OneSignal DEF q
<1>3. DueTo(q, off, a, less) <=>
        (e.number = 0 => off + 1 <= Len(a) /\ e.value = a[off + 1] - less)
  BY <1>2 DEF DueTo
<1>4. QED BY <1>1, <1>3 DEF q

LEMMA TalkTakes ==
  ASSUME NEW t \in Boxes, NEW b \in Boxes, NEW d \in Boxes, NEW a, Talk(t, b, <<>>, d, a),
         d # <<>>, \A i \in 1 .. Len(d) : d[i].number \in {-1, 0}
  PROVE  LET e == d[R!Chosen(d)]
             r == R!RemoveAt(d, R!Chosen(d))
         IN Talk(t, b, <<e>>, r, a) /\ Items(t, b, <<e>>, r) = Items(t, b, <<>>, d)
<1> DEFINE e == d[R!Chosen(d)]
           one == IF e.number = 0 THEN 1 ELSE 0
           r == R!RemoveAt(d, R!Chosen(d))
           off == R!CountOf(t, 0) + R!CountOf(b, 0)
<1>1. R!CountOf(t, 0) \in Nat /\ R!CountOf(b, 0) \in Nat /\ R!CountOf(d, 0) \in Nat /\ off \in Nat
  BY BoxCounts
<1>2. R!CountOf(<<>>, 0) = 0
  BY RankStarts DEF R!CountOf
<1>3. DueTo(d, off, a, 0) /\ DueTo(b, R!CountOf(t, 0), a, 1)
  BY <1>1, <1>2 DEF Talk
<1>4. /\ e \in R!Signals /\ r \in Seq(R!Signals)
      /\ R!CountOf(r, 0) = R!CountOf(d, 0) - one
      /\ e.number = 0 => off + 1 <= Len(a) /\ e.value = a[off + 1] - 0
      /\ DueTo(r, off + one, a, 0)
  <2> HIDE DEF off
  <2>1. QED BY <1>1, <1>3, DueRemoved DEF Boxes
<1>5. R!CountOf(<<e>>, 0) = one
  <2> HIDE DEF e
  <2>1. QED BY <1>4, OneSignal
<1>6. DueTo(<<e>>, off, a, 0)
  <2> HIDE DEF e, off
  <2>1. QED BY <1>1, <1>4, OneDue
<1> HIDE DEF e, r, one
<1>7. Talk(t, b, <<e>>, r, a)
  BY <1>3, <1>4, <1>5, <1>6 DEF Talk
<1>8. one \in {0, 1}
  BY DEF one
<1>9. Items(t, b, <<e>>, r) = Items(t, b, <<>>, d)
  BY <1>1, <1>2, <1>4, <1>5, <1>8 DEF Items
<1>10. QED BY <1>7, <1>9 DEF e, r

LEMMA TalkReplies ==
  ASSUME NEW t \in Boxes, NEW b \in Boxes, NEW d \in Boxes, NEW a \in Seq(Int),
         NEW e \in R!Signals, Talk(t, b, <<e>>, d, a)
  PROVE  /\ e.number # 0 =>
              Talk(t, b, <<>>, d, a) /\ Items(t, b, <<>>, d) = Items(t, b, <<e>>, d)
         /\ \A m \in R!Signals : e.number = 0 /\ m.number = 0 /\ m.value = e.value - 1 =>
              /\ Talk(t, Append(b, m), <<>>, d, a)
              /\ Items(t, Append(b, m), <<>>, d) = Items(t, b, <<e>>, d)
<1>1. R!CountOf(t, 0) \in Nat /\ R!CountOf(b, 0) \in Nat /\ R!CountOf(d, 0) \in Nat
  BY BoxCounts
<1>2. /\ R!CountOf(<<>>, 0) = 0 /\ R!CountOf(<<e>>, 0) = IF e.number = 0 THEN 1 ELSE 0
  BY OneSignal
<1> DEFINE off == R!CountOf(t, 0) + R!CountOf(b, 0)
<1>3. off \in Nat
  BY <1>1
<1>4. /\ DueTo(b, R!CountOf(t, 0), a, 1) /\ DueTo(<<e>>, off, a, 0)
      /\ DueTo(d, off + R!CountOf(<<e>>, 0), a, 0)
  BY DEF Talk
<1>5. CASE e.number # 0
  <2>1. DueTo(<<>>, off, a, 0) /\ R!CountOf(<<e>>, 0) = 0
    BY <1>2, <1>3, <1>5, OneDue
  <2>2. QED BY <1>1, <1>2, <1>4, <1>5, <2>1 DEF Talk, Items
<1>6. ASSUME NEW m \in R!Signals, e.number = 0, m.number = 0, m.value = e.value - 1
      PROVE  /\ Talk(t, Append(b, m), <<>>, d, a)
             /\ Items(t, Append(b, m), <<>>, d) = Items(t, b, <<e>>, d)
  <2>1. off + 1 <= Len(a) /\ e.value = a[off + 1] - 0
    <3> HIDE DEF off
    <3>1. QED BY <1>3, <1>4, <1>6, OneDue
  <2> DEFINE r == Append(b, m)
  <2>2. R!CountOf(r, 0) = R!CountOf(b, 0) + 1
    BY <1>6, CountAppended DEF Boxes
  <2>4. R!CountOf(t, 0) + (R!CountOf(b, 0) + 1) = off + 1
    BY <1>1
  <2>5. m.value = a[off + 1] - 1
    <3>1. off + 1 \in 1 .. Len(a)
      BY <1>3, <2>1
    <3>2. a[off + 1] \in Int
      BY <3>1
    <3>3. QED BY <1>6, <2>1, <3>2
  <2>6. DueTo(r, R!CountOf(t, 0), a, 1)
    <3>1. /\ R!CountOf(t, 0) + (R!CountOf(b, 0) + 1) <= Len(a)
          /\ m.value = a[R!CountOf(t, 0) + (R!CountOf(b, 0) + 1)] - 1
      BY <2>1, <2>4, <2>5
    <3>2. b \in Seq(R!Signals)
      BY DEF Boxes
    <3>3. QED BY <1>1, <1>4, <3>1, <3>2, DueAppended
  <2>7. DueTo(<<>>, R!CountOf(t, 0) + R!CountOf(r, 0), a, 0)
    BY DEF DueTo
  <2> HIDE DEF r
  <2>8. R!CountOf(t, 0) + R!CountOf(r, 0) + R!CountOf(<<>>, 0) = off + R!CountOf(<<e>>, 0)
    BY <1>1, <1>2, <1>6, <2>2
  <2>9. Talk(t, r, <<>>, d, a)
    BY <1>4, <2>6, <2>7, <2>8 DEF Talk
  <2>10. Items(t, r, <<>>, d) = Items(t, b, <<e>>, d)
    BY <1>1, <2>8 DEF Items
  <2>11. QED BY <2>9, <2>10 DEF r
<1>7. QED BY <1>5, <1>6

LEMMA TalkAsks ==
  ASSUME NEW t \in Boxes, NEW b \in Boxes, NEW c \in Boxes, NEW d \in Boxes,
         NEW a \in Seq(Int), NEW v \in Int, Talk(t, b, c, d, a)
  PROVE  /\ Talk(t, b, c, d, Append(a, v)) /\ Len(Append(a, v)) = Len(a) + 1
         /\ \A m \in R!Signals :
              m.number = 0 /\ m.value = v /\ Items(t, b, c, d) = Len(a) =>
                /\ Talk(t, b, c, Append(d, m), Append(a, v))
                /\ Items(t, b, c, Append(d, m)) = Len(Append(a, v))
<1>1. /\ R!CountOf(t, 0) \in Nat /\ R!CountOf(b, 0) \in Nat /\ R!CountOf(c, 0) \in Nat
      /\ R!CountOf(d, 0) \in Nat /\ Len(b) \in Nat /\ Len(c) \in Nat /\ Len(d) \in Nat
  BY BoxCounts
<1> DEFINE w == Append(a, v)
<1>2. Len(a) \in Nat /\ Len(w) = Len(a) + 1 /\ w[Len(a) + 1] = v
  OBVIOUS
<1> DEFINE off == R!CountOf(t, 0) + R!CountOf(b, 0)
           end == R!CountOf(t, 0) + R!CountOf(b, 0) + R!CountOf(c, 0)
<1>3. off \in Nat /\ end \in Nat
  BY <1>1
<1>4. DueTo(b, R!CountOf(t, 0), a, 1) /\ DueTo(c, off, a, 0) /\ DueTo(d, end, a, 0)
  BY DEF Talk
<1> HIDE DEF off, end
<1>5. DueTo(b, R!CountOf(t, 0), w, 1) /\ DueTo(c, off, w, 0) /\ DueTo(d, end, w, 0)
  BY <1>1, <1>3, <1>4, DueStays
<1> HIDE DEF w
<1>6. Talk(t, b, c, d, w)
  BY <1>5 DEF Talk, off, end
<1>7. ASSUME NEW m \in R!Signals, m.number = 0, m.value = v, Items(t, b, c, d) = Len(a)
      PROVE  Talk(t, b, c, Append(d, m), w) /\ Items(t, b, c, Append(d, m)) = Len(w)
  <2>1. end + R!CountOf(d, 0) = Len(a)
    BY <1>7 DEF Items, end
  <2>2. end + (R!CountOf(d, 0) + 1) = Len(a) + 1
    BY <1>1, <1>3, <2>1
  <2>3. /\ end + (R!CountOf(d, 0) + 1) <= Len(w)
        /\ m.value = w[end + (R!CountOf(d, 0) + 1)] - 0
    BY <1>2, <1>7, <2>2
  <2>4. d \in Seq(R!Signals)
    BY DEF Boxes
  <2>5. DueTo(Append(d, m), end, w, 0)
    BY <1>3, <1>5, <2>3, <2>4, DueAppended
  <2>6. R!CountOf(Append(d, m), 0) = R!CountOf(d, 0) + 1
    BY <1>7, <2>4, CountAppended
  <2>7. Talk(t, b, c, Append(d, m), w)
    BY <1>5, <2>5 DEF Talk, off, end
  <2>8. Items(t, b, c, Append(d, m)) = Len(w)
    BY <1>2, <2>2, <2>6 DEF Items, end
  <2>9. QED BY <2>7, <2>8
<1>8. QED BY <1>2, <1>6, <1>7 DEF w

LEMMA TalkHears ==
  ASSUME NEW t \in Boxes, NEW b \in Boxes, NEW c \in Boxes, NEW d \in Boxes,
         NEW a \in Seq(Int), Talk(t, b, c, d, a), DueTo(t, 0, a, 1),
         b # <<>>, \A i \in 1 .. Len(b) : b[i].number \in {-1, 0}
  PROVE  LET e == b[R!Chosen(b)]
             r == R!RemoveAt(b, R!Chosen(b))
         IN /\ Talk(Append(t, e), r, c, d, a) /\ DueTo(Append(t, e), 0, a, 1)
            /\ Items(Append(t, e), r, c, d) = Items(t, b, c, d)
<1> DEFINE e == b[R!Chosen(b)]
           one == IF e.number = 0 THEN 1 ELSE 0
           r == R!RemoveAt(b, R!Chosen(b))
           off == R!CountOf(t, 0)
<1>1. /\ R!CountOf(t, 0) \in Nat /\ R!CountOf(b, 0) \in Nat /\ R!CountOf(c, 0) \in Nat
      /\ R!CountOf(d, 0) \in Nat
  BY BoxCounts
<1>2. DueTo(b, off, a, 1)
  BY DEF Talk
<1>3. /\ e \in R!Signals /\ r \in Seq(R!Signals)
      /\ R!CountOf(r, 0) = R!CountOf(b, 0) - one
      /\ e.number = 0 => off + 1 <= Len(a) /\ e.value = a[off + 1] - 1
      /\ DueTo(r, off + one, a, 1)
  <2> HIDE DEF off
  <2>1. off \in Nat
    BY <1>1 DEF off
  <2>2. QED BY <1>2, <2>1, DueRemoved DEF Boxes
<1>4. one \in {0, 1}
  OBVIOUS
<1> DEFINE u == Append(t, e)
<1> HIDE DEF e, r
<1>5. R!CountOf(u, 0) = off + one
  <2>1. t \in Seq(R!Signals)
    BY DEF Boxes
  <2>2. QED BY <1>3, <2>1, CountAppended
<1>6. DueTo(u, 0, a, 1)
  <2>1. t \in Seq(R!Signals) /\ 0 \in Nat
    BY DEF Boxes
  <2>2. e.number = 0 => /\ 0 + (R!CountOf(t, 0) + 1) <= Len(a)
                        /\ e.value = a[0 + (R!CountOf(t, 0) + 1)] - 1
    BY <1>1, <1>3
  <2>3. QED BY <1>3, <2>1, <2>2, DueAppended
<1> HIDE DEF u, one
<1>7. R!CountOf(u, 0) + R!CountOf(r, 0) = R!CountOf(t, 0) + R!CountOf(b, 0)
  BY <1>1, <1>3, <1>4, <1>5
<1>8. Talk(u, r, c, d, a)
  <2>1. DueTo(r, R!CountOf(u, 0), a, 1)
    BY <1>3, <1>5
  <2>2. QED BY <1>7, <2>1 DEF Talk
<1>9. Items(u, r, c, d) = Items(t, b, c, d)
  BY <1>7 DEF Items
<1>10. QED BY <1>6, <1>8, <1>9 DEF u, e, r

LEMMA TalkStrays ==
  ASSUME NEW t \in Boxes, NEW b \in Boxes, NEW c \in Boxes, NEW d \in Boxes,
         NEW a, NEW m \in R!Signals, m.number # 0, Talk(t, b, c, d, a)
  PROVE  /\ Talk(t, Append(b, m), c, d, a) /\ Talk(t, b, c, Append(d, m), a)
         /\ Items(t, Append(b, m), c, d) = Items(t, b, c, d)
         /\ Items(t, b, c, Append(d, m)) = Items(t, b, c, d)
<1>1. /\ R!CountOf(t, 0) \in Nat /\ R!CountOf(b, 0) \in Nat /\ R!CountOf(c, 0) \in Nat
      /\ R!CountOf(d, 0) \in Nat
  BY BoxCounts
<1>2. R!CountOf(Append(b, m), 0) = R!CountOf(b, 0) /\ R!CountOf(Append(d, m), 0) = R!CountOf(d, 0)
  BY <1>1, CountAppended DEF Boxes
<1> DEFINE end == R!CountOf(t, 0) + R!CountOf(b, 0) + R!CountOf(c, 0)
<1>3. end \in Nat
  BY <1>1
<1>4. DueTo(b, R!CountOf(t, 0), a, 1) /\ DueTo(d, end, a, 0)
  BY DEF Talk
<1>5. DueTo(Append(b, m), R!CountOf(t, 0), a, 1) /\ DueTo(Append(d, m), end, a, 0)
  <2> HIDE DEF end
  <2>1. b \in Seq(R!Signals) /\ d \in Seq(R!Signals)
    BY DEF Boxes
  <2>2. QED BY <1>1, <1>3, <1>4, <2>1, DueAppended
<1>6. QED BY <1>2, <1>5 DEF Talk, Items

-----------------------------------------------------------------------------
(***************************************************************************)
(* inf14-0.c, inf14-1.c and the tester.                                    *)
(***************************************************************************)
InHand == IF server = "working" THEN <<current>> ELSE <<>>

\* A signal for the server is there for a request, a number typed, or a stray signal.
FromAsked(m) ==
  IF service = "inf14_0"
  THEN m.number >= 0 => \E j \in 1 .. Len(asked) : asked[j] = m.number
  ELSE /\ m.number \in {-1, 0}
       /\ m.number = 0 => \E j \in 1 .. Len(asked) : asked[j] = m.value
       /\ m.number = -1 => strays > 0

MailTypes ==
  /\ R!TypeOK
  /\ service \in {"inf14_0", "inf14_1"} /\ asked \in Seq(Int)
  /\ service = "inf14_0" => told \in Seq([number : Int, clean : BOOLEAN]) /\ tester = "absent"
  /\ service = "inf14_1" => told \in Seq(R!Signals)

\* The server has m, or will take it.
Held(m) ==
  \/ \E i \in 1 .. Len(inbox["server"]) : inbox["server"][i] = m
  \/ server = "working" /\ current = m

Causes == \A m \in R!Signals : Held(m) => FromAsked(m)

\* What is told, under way to the tester, worked on and pending for the server: in this
\* order it is due to the numbers sent.
Conversation ==
  service = "inf14_1" =>
    /\ \A i \in 1 .. Len(inbox["tester"]) : inbox["tester"][i].number \in {-1, 0}
    /\ DueTo(told, 0, asked, 1)
    /\ tester # "killed" =>
         /\ Talk(told, inbox["tester"], InHand, inbox["server"], asked)
         /\ server \in {"starting", "waiting", "working"} =>
              Items(told, inbox["tester"], InHand, inbox["server"]) = Len(asked)

MailInv == MailTypes /\ Causes /\ R!EndsForCause /\ R!EachRequestOnce /\ Conversation

LEMMA BoxTypes ==
  ASSUME R!TypeOK
  PROVE  /\ inbox["server"] \in Seq(R!Signals) /\ inbox["tester"] \in Seq(R!Signals)
         /\ DOMAIN inbox = R!Processes
BY DEF R!TypeOK, R!Processes

LEMMA PostFacts ==
  ASSUME R!TypeOK, NEW p \in R!Processes, NEW m \in R!Signals, R!Post(p, m)
  PROVE  /\ inbox' \in [R!Processes -> Seq(R!Signals)]
         /\ \A r \in R!Processes : r # p => inbox'[r] = inbox[r]
         /\ inbox'[p] = inbox[p] \/ inbox'[p] = Append(inbox[p], m)
         /\ inbox'[p] = inbox[p] => m = R!Nothing
<1>1. inbox \in [R!Processes -> Seq(R!Signals)] /\ inbox[p] \in Seq(R!Signals)
  BY DEF R!TypeOK
<1>2. Append(inbox[p], m) \in Seq(R!Signals) /\ Append(inbox[p], m) # inbox[p]
  <2>1. Len(Append(inbox[p], m)) = Len(inbox[p]) + 1 /\ Len(inbox[p]) \in Nat
    BY <1>1
  <2>2. Append(inbox[p], m) \in Seq(R!Signals)
    BY <1>1
  <2>3. QED BY <2>1, <2>2
<1>3. CASE inbox' = inbox /\ m = R!Nothing
  BY <1>1, <1>3
<1>4. CASE inbox' = [inbox EXCEPT ![p] = Append(inbox[p], m)]
  BY <1>1, <1>2, <1>4
<1>5. QED BY <1>3, <1>4 DEF R!Post

LEMMA DropFacts ==
  ASSUME R!TypeOK, NEW p \in R!Processes, inbox[p] # <<>>, R!Drop(p)
  PROVE  /\ inbox' \in [R!Processes -> Seq(R!Signals)]
         /\ \A r \in R!Processes : r # p => inbox'[r] = inbox[r]
         /\ inbox'[p] = R!RemoveAt(inbox[p], R!Chosen(inbox[p]))
         /\ R!Chosen(inbox[p]) \in 1 .. Len(inbox[p])
         /\ inbox[p] \in Seq(R!Signals)
         /\ R!Taken(p) = inbox[p][R!Chosen(inbox[p])] /\ R!Taken(p) \in R!Signals
<1>1. inbox \in [R!Processes -> Seq(R!Signals)] /\ inbox[p] \in Seq(R!Signals)
  BY DEF R!TypeOK
<1>2. R!Chosen(inbox[p]) \in 1 .. Len(inbox[p])
  BY <1>1, ChosenFacts
<1>3. R!RemoveAt(inbox[p], R!Chosen(inbox[p])) \in Seq(R!Signals)
  BY <1>1, <1>2, RemoveAtFacts
<1>4. inbox[p][R!Chosen(inbox[p])] \in R!Signals
  BY <1>1, <1>2
<1>5. QED BY <1>1, <1>2, <1>3, <1>4 DEF R!Drop, R!Taken

LEMMA SignalTypes ==
  /\ R!Nothing \in R!Signals /\ R!Nothing.number = -1
  /\ \A v \in Int : \A k \in 0 .. FileCount + 1 :
       /\ R!Signal(k, v) \in R!Signals /\ R!Signal(k, v).number = k /\ R!Signal(k, v).value = v
       /\ R!Signal(k, v) # R!Nothing
<1>1. FileCount \in Nat
  BY NumbersAssumption
<1>2. R!Nothing \in R!Signals /\ R!Nothing.number = -1
  BY <1>1 DEF R!Nothing, R!Signal, R!Standard, R!Signals
<1>3. ASSUME NEW v \in Int, NEW k \in 0 .. FileCount + 1
      PROVE  R!Signal(k, v) \in R!Signals /\ R!Signal(k, v).number = k /\ R!Signal(k, v).value = v
  BY <1>1 DEF R!Signal, R!Signals
<1>4. QED BY <1>1, <1>2, <1>3

\* The types.
LEMMA MailTypesStep == MailTypes /\ R!Next => MailTypes'
<1> SUFFICES ASSUME MailTypes, R!Next PROVE MailTypes'
  OBVIOUS
<1>0. FileCount \in Nat /\ Typed \subseteq Int /\ MaxStrays \in Nat
  BY NumbersAssumption
<1>1. R!TypeOK /\ "server" \in R!Processes /\ "tester" \in R!Processes
  BY DEF MailTypes, R!Processes
<1>2. R!Signals' = R!Signals
  BY DEF R!Signals
<1>3. CASE R!SetMask
  BY <1>3 DEF R!SetMask, MailTypes, R!TypeOK, R!Signals, R!Processes
<1>4. CASE R!Take
  <2>1. inbox' \in [R!Processes -> Seq(R!Signals)] /\ current' \in R!Signals
    BY <1>1, <1>4, DropFacts DEF R!Take
  <2>2. QED BY <1>4, <2>1 DEF R!Take, MailTypes, R!TypeOK, R!Signals, R!Processes
<1>5. CASE R!Skip
  BY <1>5 DEF R!Skip, MailTypes, R!TypeOK, R!Signals, R!Processes
<1>6. CASE R!WriteLine
  <2>1. current.number \in Int
    BY <1>0 DEF MailTypes, R!TypeOK, R!Signals
  <2>2. told' \in Seq([number : Int, clean : BOOLEAN])
    <3>1. told \in Seq([number : Int, clean : BOOLEAN])
      BY <1>6 DEF R!WriteLine, MailTypes
    <3>2. told' = told \/ \E c \in BOOLEAN : told' = Append(told, [number |-> current.number, clean |-> c])
      BY <1>6 DEF R!WriteLine
    <3> DEFINE S == [number : Int, clean : BOOLEAN]
    <3>3. \A c \in BOOLEAN : [number |-> current.number, clean |-> c] \in S
      BY <2>1
    <3>4. \A e \in S : told \in Seq(S) => Append(told, e) \in Seq(S)
      <4> HIDE DEF S
      <4>1. QED OBVIOUS
    <3>5. QED BY <3>1, <3>2, <3>3, <3>4
  <2>3. QED BY <1>6, <2>2 DEF R!WriteLine, MailTypes, R!TypeOK, R!Signals, R!Processes
<1>7. CASE R!Reply
  <2>1. current.value - 1 \in Int
    BY DEF MailTypes, R!TypeOK, R!Signals
  <2>2. R!Signal(0, current.value - 1) \in R!Signals
    BY <1>0, <2>1, SignalTypes
  <2>3. inbox' \in [R!Processes -> Seq(R!Signals)]
    BY <1>1, <1>7, <2>2, PostFacts DEF R!Reply, R!TypeOK
  <2>4. QED BY <1>7, <2>3 DEF R!Reply, MailTypes, R!TypeOK, R!Signals, R!Processes
<1>8. CASE R!Ask
  <2>1. PICK v \in Typed : /\ asked' = Append(asked, v)
                           /\ IF server \in {"waiting", "working"} THEN R!Post("server", R!Signal(0, v))
                              ELSE UNCHANGED inbox
    BY <1>8 DEF R!Ask
  <2>2. R!Signal(0, v) \in R!Signals /\ v \in Int
    BY <1>0, SignalTypes
  <2>3. inbox' \in [R!Processes -> Seq(R!Signals)]
    BY <1>1, <2>1, <2>2, PostFacts DEF R!TypeOK
  <2>4. asked' \in Seq(Int)
    BY <2>1, <2>2 DEF MailTypes
  <2>5. QED BY <1>8, <2>3, <2>4 DEF R!Ask, MailTypes, R!TypeOK, R!Signals, R!Processes
<1>9. CASE R!Hear
  <2>1. inbox' \in [R!Processes -> Seq(R!Signals)] /\ R!Taken("tester") \in R!Signals
    BY <1>1, <1>9, DropFacts DEF R!Hear
  <2>2. service = "inf14_1" /\ told' \in Seq(R!Signals)
    BY <1>9, <2>1 DEF R!Hear, MailTypes
  <2>3. QED BY <1>9, <2>1, <2>2 DEF R!Hear, MailTypes, R!TypeOK, R!Signals, R!Processes
<1>10. CASE R!Interrupt
  BY <1>10 DEF R!Interrupt, MailTypes, R!TypeOK, R!Signals, R!Processes
<1>11. CASE R!Request
  <2>1. PICK k \in 0 .. FileCount + 1 : asked' = Append(asked, k) /\ R!Post("server", R!Signal(k, 0))
    BY <1>11 DEF R!Request
  <2>2. R!Signal(k, 0) \in R!Signals /\ k \in Int
    BY <1>0, SignalTypes
  <2>3. inbox' \in [R!Processes -> Seq(R!Signals)]
    BY <1>1, <2>1, <2>2, PostFacts
  <2>4. asked' \in Seq(Int)
    BY <2>1, <2>2 DEF MailTypes
  <2>5. QED BY <1>11, <2>3, <2>4 DEF R!Request, MailTypes, R!TypeOK, R!Signals, R!Processes
<1>12. CASE R!Stray
  <2>1. inbox' \in [R!Processes -> Seq(R!Signals)]
    BY <1>1, <1>12, SignalTypes, PostFacts DEF R!Stray
  <2>2. strays' \in 0 .. MaxStrays
    BY <1>0, <1>12 DEF R!Stray, MailTypes, R!TypeOK
  <2>3. QED BY <1>12, <2>1, <2>2 DEF R!Stray, MailTypes, R!TypeOK, R!Signals, R!Processes
<1>13. CASE R!Rest
  BY <1>13 DEF R!Rest, R!vars, MailTypes, R!TypeOK, R!Signals, R!Processes
<1>14. QED BY <1>3, <1>4, <1>5, <1>6, <1>7, <1>8, <1>9, <1>10, <1>11, <1>12, <1>13
           DEF R!Next, R!Server

\* What has been asked stays asked.
LEMMA AskedGrows ==
  ASSUME MailTypes, R!Next
  PROVE  /\ service' = service /\ file' = file /\ strays \in Nat /\ strays' >= strays
         /\ strays' \in Nat
         /\ Len(asked) \in Nat /\ Len(asked') \in Nat /\ Len(asked') >= Len(asked)
         /\ \A j \in 1 .. Len(asked) : asked'[j] = asked[j]
         /\ asked' = asked \/ \E v \in Int : asked' = Append(asked, v)
<1>0. FileCount \in Nat /\ Typed \subseteq Int /\ MaxStrays \in Nat
  BY NumbersAssumption
<1>1. asked' = asked \/ \E v \in Int : asked' = Append(asked, v)
  <2>1. \A k \in 0 .. FileCount + 1 : k \in Int
    BY <1>0
  <2>2. CASE R!Ask
    BY <1>0, <2>2 DEF R!Ask
  <2>3. CASE R!Request
    BY <2>1, <2>3 DEF R!Request
  <2>4. QED BY <2>2, <2>3 DEF R!Next, R!Server, R!SetMask, R!Take, R!Skip, R!WriteLine, R!Reply,
                              R!Hear, R!Interrupt, R!Stray, R!Rest, R!vars
<1>2. asked \in Seq(Int)
  BY DEF MailTypes
<1>3. service' = service /\ file' = file /\ (strays' = strays \/ strays' = strays + 1)
  BY DEF R!Next, R!Server, R!SetMask, R!Take, R!Skip, R!WriteLine, R!Reply, R!Ask, R!Request,
         R!Hear, R!Interrupt, R!Stray, R!Rest, R!vars
<1>4. strays \in Nat
  BY <1>0 DEF MailTypes, R!TypeOK
<1>5. Len(asked) \in Nat /\ Len(asked') \in Nat /\ Len(asked') >= Len(asked)
      /\ \A j \in 1 .. Len(asked) : asked'[j] = asked[j]
  BY <1>1, <1>2
<1>6. QED BY <1>1, <1>3, <1>4, <1>5

LEMMA StillAsked ==
  ASSUME MailTypes, R!Next, NEW m, FromAsked(m)
  PROVE  FromAsked(m)'
BY AskedGrows DEF FromAsked

\* The server has been sent what it holds, and takes it from its signals.
LEMMA HeldOn ==
  ASSUME MailTypes, R!Next, NEW m \in R!Signals, Held(m)'
  PROVE  Held(m) \/ FromAsked(m)'
<1>0. FileCount \in Nat /\ Typed \subseteq Int
  BY NumbersAssumption
<1>1. R!TypeOK /\ "server" \in R!Processes /\ "tester" \in R!Processes
  BY DEF MailTypes, R!Processes
<1>2. inbox["server"] \in Seq(R!Signals)
  BY <1>1, BoxTypes
<1>3. CASE inbox'["server"] = inbox["server"] /\ (server' = "working" => server = "working" /\ current' = current)
  BY <1>3 DEF Held
<1>4. ASSUME NEW e \in R!Signals, inbox'["server"] = Append(inbox["server"], e),
             server' = "working" => server = "working" /\ current' = current, FromAsked(e)'
      PROVE  Held(m) \/ FromAsked(m)'
  <2>1. ASSUME NEW i \in 1 .. Len(inbox'["server"]), inbox'["server"][i] = m
        PROVE  m = e \/ \E j \in 1 .. Len(inbox["server"]) : inbox["server"][j] = m
    BY <1>2, <1>4, <2>1
  <2>2. QED BY <1>4, <2>1 DEF Held
<1>5. CASE R!Take
  <2>1. /\ R!Chosen(inbox["server"]) \in 1 .. Len(inbox["server"])
        /\ current' = inbox["server"][R!Chosen(inbox["server"])]
        /\ inbox'["server"] = R!RemoveAt(inbox["server"], R!Chosen(inbox["server"]))
    BY <1>1, <1>5, DropFacts DEF R!Take
  <2> DEFINE c == R!Chosen(inbox["server"])
  <2>2. \A i \in 1 .. Len(inbox'["server"]) :
          \E j \in 1 .. Len(inbox["server"]) : inbox'["server"][i] = inbox["server"][j]
    <3>1. /\ Len(inbox'["server"]) = Len(inbox["server"]) - 1 /\ Len(inbox["server"]) \in Nat
          /\ \A i \in 1 .. Len(inbox["server"]) - 1 :
               inbox'["server"][i] = inbox["server"][IF i < c THEN i ELSE i + 1]
      BY <1>2, <2>1, RemoveAtFacts
    <3>2. ASSUME NEW i \in 1 .. Len(inbox'["server"])
          PROVE  \E j \in 1 .. Len(inbox["server"]) : inbox'["server"][i] = inbox["server"][j]
      <4>1. (IF i < c THEN i ELSE i + 1) \in 1 .. Len(inbox["server"])
        BY <2>1, <3>1
      <4>2. QED BY <3>1, <4>1
    <3>3. QED BY <3>2
  <2>3. QED BY <2>1, <2>2 DEF Held
<1>6. CASE R!Ask
  <2>1. PICK v \in Typed : /\ asked' = Append(asked, v)
                           /\ IF server \in {"waiting", "working"} THEN R!Post("server", R!Signal(0, v))
                              ELSE UNCHANGED inbox
    BY <1>6 DEF R!Ask
  <2>2. v \in Int /\ R!Signal(0, v) \in R!Signals /\ R!Signal(0, v).number = 0
        /\ R!Signal(0, v).value = v
    BY <1>0, SignalTypes
  <2>3. server' = "working" => server = "working" /\ current' = current
    BY <1>6 DEF R!Ask
  <2>4. service # "inf14_0"
    BY <1>6 DEF R!Ask, MailTypes
  <2>5. FromAsked(R!Signal(0, v))'
    <3>1. Len(asked') \in 1 .. Len(asked') /\ asked'[Len(asked')] = v
      BY <2>1, <2>2 DEF MailTypes
    <3>2. service' = service
      BY AskedGrows
    <3> DEFINE e == R!Signal(0, v)
    <3>3. e.number = 0 /\ e.value = v
      BY <2>2
    <3> HIDE DEF e
    <3>4. FromAsked(e)'
      BY <2>4, <3>1, <3>2, <3>3 DEF FromAsked, e, R!Signal
    <3>5. QED BY <3>4 DEF e
  <2>6. CASE server \in {"waiting", "working"}
    <3>1. inbox'["server"] = inbox["server"] \/ inbox'["server"] = Append(inbox["server"], R!Signal(0, v))
      BY <1>1, <2>1, <2>2, <2>6, PostFacts
    <3>2. QED BY <1>3, <1>4, <2>2, <2>3, <2>5, <3>1
  <2>7. CASE server \notin {"waiting", "working"}
    BY <1>3, <2>1, <2>3, <2>7
  <2>8. QED BY <2>6, <2>7
<1>7. CASE R!Request
  <2>1. PICK k \in 0 .. FileCount + 1 : asked' = Append(asked, k) /\ R!Post("server", R!Signal(k, 0))
    BY <1>7 DEF R!Request
  <2>2. k \in Int /\ R!Signal(k, 0) \in R!Signals /\ R!Signal(k, 0).number = k
    BY <1>0, SignalTypes
  <2>3. server' = "working" => server = "working" /\ current' = current
    BY <1>7 DEF R!Request
  <2>4. FromAsked(R!Signal(k, 0))'
    <3>1. Len(asked') \in 1 .. Len(asked') /\ asked'[Len(asked')] = k
      BY <2>1, <2>2 DEF MailTypes
    <3>2. service' = "inf14_0"
      BY <1>7 DEF R!Request
    <3>3. QED BY <2>2, <3>1, <3>2 DEF FromAsked, R!Signal
  <2>5. inbox'["server"] = inbox["server"] \/ inbox'["server"] = Append(inbox["server"], R!Signal(k, 0))
    BY <1>1, <2>1, <2>2, PostFacts
  <2>6. QED BY <1>3, <1>4, <2>2, <2>3, <2>4, <2>5
<1>8. CASE R!Stray
  <2>1. server' = "working" => server = "working" /\ current' = current
    BY <1>8 DEF R!Stray
  <2>2. FromAsked(R!Nothing)'
    <3>1. strays' > 0
      BY <1>8, AskedGrows DEF R!Stray
    <3>2. QED BY <3>1 DEF FromAsked, R!Nothing, R!Signal, R!Standard
  <2>3. inbox'["server"] = inbox["server"] \/ inbox'["server"] = Append(inbox["server"], R!Nothing)
    BY <1>1, <1>8, SignalTypes, PostFacts DEF R!Stray
  <2>4. QED BY <1>3, <1>4, <2>1, <2>2, <2>3, SignalTypes
<1>9. CASE R!Reply
  <2>1. current.value - 1 \in Int
    BY <1>1 DEF R!TypeOK, R!Signals
  <2>2. R!Signal(0, current.value - 1) \in R!Signals
    BY <1>0, <2>1, SignalTypes
  <2>3. inbox'["server"] = inbox["server"]
    BY <1>1, <1>9, <2>2, PostFacts DEF R!Reply
  <2>4. QED BY <1>3, <1>9, <2>3 DEF R!Reply
<1>10. CASE R!Hear
  <2>1. inbox'["server"] = inbox["server"]
    BY <1>1, <1>10, DropFacts DEF R!Hear
  <2>2. QED BY <1>3, <1>10, <2>1 DEF R!Hear
<1>11. CASE R!Interrupt
  <2>1. inbox'["server"] = inbox["server"]
    BY <1>1, <1>11, BoxTypes DEF R!Interrupt, R!Processes
  <2>2. QED BY <1>3, <1>11, <2>1 DEF R!Interrupt
<1>12. CASE R!SetMask \/ R!Skip \/ R!WriteLine \/ R!Rest
  BY <1>3, <1>12 DEF R!SetMask, R!Skip, R!WriteLine, R!Rest, R!vars
<1>13. QED BY <1>5, <1>6, <1>7, <1>8, <1>9, <1>10, <1>11, <1>12 DEF R!Next, R!Server

\* What ends the server, or brings it down.
EndCause ==
  IF service = "inf14_0" THEN \E j \in 1 .. Len(asked) : asked[j] = 0
  ELSE strays > 0 \/ \E j \in 1 .. Len(asked) : asked[j] <= 0

CrashCause ==
  IF service = "inf14_0"
  THEN \E j \in 1 .. Len(asked) : asked[j] \notin R!Files \/ file[asked[j]] # "line"
  ELSE asked # <<>>

LEMMA CausesStay ==
  ASSUME MailTypes, R!Next
  PROVE  (EndCause => EndCause') /\ (CrashCause => CrashCause')
<1>1. /\ service' = service /\ file' = file /\ strays \in Nat /\ strays' >= strays
      /\ strays' \in Nat
      /\ Len(asked) \in Nat /\ Len(asked') \in Nat /\ Len(asked') >= Len(asked)
      /\ \A j \in 1 .. Len(asked) : asked'[j] = asked[j]
  BY AskedGrows
<1>2. \A j \in 1 .. Len(asked) : j \in 1 .. Len(asked')
  BY <1>1
<1>3. asked # <<>> => asked' # <<>>
  <2>1. asked \in Seq(Int) /\ Len(<<>>) = 0
    BY DEF MailTypes
  <2>2. asked # <<>> => Len(asked) > 0
    BY <1>1, <2>1, EmptySeq
  <2>3. QED BY <1>1, <2>1, <2>2
<1>4. EndCause => EndCause'
  <2>1. CASE service = "inf14_0"
    BY <1>1, <1>2, <2>1 DEF EndCause
  <2>2. CASE service # "inf14_0"
    BY <1>1, <1>2, <2>2 DEF EndCause
  <2>3. QED BY <2>1, <2>2
<1>5. CrashCause => CrashCause'
  <2>1. R!Files' = R!Files
    BY DEF R!Files
  <2>2. CASE service = "inf14_0"
    BY <1>1, <1>2, <2>1, <2>2 DEF CrashCause
  <2>3. CASE service # "inf14_0"
    BY <1>1, <1>3, <2>3 DEF CrashCause
  <2>4. QED BY <2>2, <2>3
<1>6. QED BY <1>4, <1>5

LEMMA CausesStep == MailTypes /\ Causes /\ R!EndsForCause /\ R!Next => Causes' /\ R!EndsForCause'
<1> SUFFICES ASSUME MailTypes, Causes, R!EndsForCause, R!Next PROVE Causes' /\ R!EndsForCause'
  OBVIOUS
<1>0. FileCount \in Nat /\ Typed \subseteq Int
  BY NumbersAssumption
<1>1. Causes'
  BY HeldOn, StillAsked DEF Causes, R!Signals
<1> SUFFICES R!EndsForCause'
  BY <1>1
<1>2. asked \in Seq(Int) /\ current \in R!Signals /\ DOMAIN asked = 1 .. Len(asked)
  BY DEF MailTypes, R!TypeOK
<1>3. DOMAIN asked' = 1 .. Len(asked')
  BY <1>2, AskedGrows
<1>4. server = "working" => FromAsked(current)
  BY <1>2 DEF Causes, Held
<1>5. (server = "ended" => EndCause) /\ (server = "crashed" => CrashCause)
  BY <1>2 DEF R!EndsForCause, R!ToSet, EndCause, CrashCause
<1>6. ASSUME (server' = "ended" => EndCause') /\ (server' = "crashed" => CrashCause')
      PROVE  R!EndsForCause'
  BY <1>3, <1>6 DEF R!EndsForCause, R!ToSet, EndCause, CrashCause
<1>7. (EndCause => EndCause') /\ (CrashCause => CrashCause')
  BY CausesStay
<1>8. CASE server' = server
  BY <1>5, <1>6, <1>7, <1>8
<1>9. CASE server' \notin {"ended", "crashed"}
  BY <1>6, <1>9
<1>10. CASE R!Skip /\ server' = "ended"
  <2>1. EndCause
    BY <1>4, <1>10 DEF R!Skip, FromAsked, EndCause
  <2>2. QED BY <1>6, <1>7, <1>10, <2>1
<1>11. CASE R!WriteLine /\ server' = "crashed"
  <2>1. current.number \in Int /\ current.number > 0 /\ service = "inf14_0" /\ server = "working"
    BY <1>0, <1>2, <1>11 DEF R!WriteLine, R!Signals
  <2>2. PICK j \in 1 .. Len(asked) : asked[j] = current.number
    BY <1>4, <2>1 DEF FromAsked
  <2>3. current.number \notin R!Files \/ file[current.number] # "line"
    BY <1>11 DEF R!WriteLine
  <2>4. CrashCause
    BY <2>1, <2>2, <2>3 DEF CrashCause
  <2>5. QED BY <1>6, <1>7, <1>11, <2>4
<1>12. CASE R!Reply /\ server' = "ended"
  <2>1. ~(current.value > 0) /\ current.value \in Int /\ service = "inf14_1" /\ server = "working"
    BY <1>2, <1>12 DEF R!Reply, R!Signals
  <2>2. EndCause
    BY <1>4, <2>1 DEF FromAsked, EndCause
  <2>3. QED BY <1>6, <1>7, <1>12, <2>2
<1>13. CASE R!Ask /\ server' = "crashed"
  <2>1. service' = "inf14_1"
    BY <1>13 DEF R!Ask, MailTypes
  <2>2. asked' # <<>>
    BY <1>0, <1>2, <1>13 DEF R!Ask
  <2>3. CrashCause'
    BY <2>1, <2>2 DEF CrashCause
  <2>4. QED BY <1>6, <1>13, <2>3
<1>14. \/ server' = server \/ server' \notin {"ended", "crashed"}
       \/ (R!Skip /\ server' = "ended") \/ (R!WriteLine /\ server' = "crashed")
       \/ (R!Reply /\ server' = "ended") \/ (R!Ask /\ server' = "crashed")
  BY DEF R!Next, R!Server, R!SetMask, R!Take, R!Skip, R!WriteLine, R!Reply, R!Ask, R!Request,
         R!Hear, R!Interrupt, R!Stray, R!Rest, R!vars
<1>15. QED BY <1>8, <1>9, <1>10, <1>11, <1>12, <1>13, <1>14

LEMMA InHandTypes ==
  ASSUME current \in R!Signals
  PROVE  InHand \in Boxes
BY OneSignal DEF InHand

LEMMA TalkStep == MailTypes /\ Causes /\ Conversation /\ R!Next => Conversation'
<1> SUFFICES ASSUME MailTypes, Causes, Conversation, R!Next, service = "inf14_1"
             PROVE  Conversation'
  BY AskedGrows DEF Conversation
<1>0. FileCount \in Nat /\ Typed \subseteq Int
  BY NumbersAssumption
<1> DEFINE b == inbox["tester"]
           d == inbox["server"]
           On == {"starting", "waiting", "working"}
<1>1. /\ R!TypeOK /\ "server" \in R!Processes /\ "tester" \in R!Processes /\ "tester" # "server"
      /\ b \in Boxes /\ d \in Boxes /\ b \in Seq(R!Signals) /\ d \in Seq(R!Signals)
      /\ told \in Boxes /\ asked \in Seq(Int)
      /\ current \in R!Signals /\ InHand \in Boxes
  BY BoxTypes, InHandTypes DEF MailTypes, R!TypeOK, R!Processes, Boxes
<1>2. \A i \in 1 .. Len(b) : b[i].number \in {-1, 0}
  BY DEF Conversation
<1>3. DueTo(told, 0, asked, 1)
  BY DEF Conversation
<1>4. tester # "killed" =>
        /\ Talk(told, b, InHand, d, asked)
        /\ server \in On => Items(told, b, InHand, d) = Len(asked)
  BY DEF Conversation
<1>5. \A i \in 1 .. Len(d) : d[i].number \in {-1, 0}
  <2>1. \A i \in 1 .. Len(d) : d[i] \in R!Signals /\ Held(d[i])
    BY <1>1 DEF Held
  <2>2. \A i \in 1 .. Len(d) : FromAsked(d[i])
    BY <2>1 DEF Causes
  <2>3. QED BY <2>2 DEF FromAsked
<1>6. ASSUME /\ \A i \in 1 .. Len(inbox'["tester"]) : inbox'["tester"][i].number \in {-1, 0}
             /\ DueTo(told', 0, asked', 1)
             /\ tester' # "killed" =>
                  /\ Talk(told', inbox'["tester"], InHand', inbox'["server"], asked')
                  /\ server' \in On =>
                       Items(told', inbox'["tester"], InHand', inbox'["server"]) = Len(asked')
      PROVE  Conversation'
  BY <1>6 DEF Conversation, DueTo, Talk, Items, R!CountOf, R!Rank
<1> SUFFICES /\ \A i \in 1 .. Len(inbox'["tester"]) : inbox'["tester"][i].number \in {-1, 0}
             /\ DueTo(told', 0, asked', 1)
             /\ tester' # "killed" =>
                  /\ Talk(told', inbox'["tester"], InHand', inbox'["server"], asked')
                  /\ server' \in On =>
                       Items(told', inbox'["tester"], InHand', inbox'["server"]) = Len(asked')
  BY <1>6
<1> HIDE DEF b, d
<1>7. CASE R!SetMask \/ R!Rest
  <2>1. /\ told' = told /\ inbox' = inbox /\ asked' = asked /\ tester' = tester
        /\ InHand' = InHand /\ (server' \in On => server \in On)
    BY <1>7 DEF R!SetMask, R!Rest, R!vars, InHand
  <2>2. QED BY <1>2, <1>3, <1>4, <2>1 DEF b, d
<1>8. CASE R!Take
  <2> DEFINE e == d[R!Chosen(d)]
             r == R!RemoveAt(d, R!Chosen(d))
  <2>1. /\ d # <<>> /\ inbox'["tester"] = b /\ inbox'["server"] = r /\ current' = e
        /\ told' = told /\ asked' = asked /\ tester' = tester /\ server = "waiting"
        /\ server' = "working"
    BY <1>1, <1>8, DropFacts DEF R!Take, b, d
  <2>2. InHand = <<>> /\ InHand' = <<e>>
    BY <2>1 DEF InHand
  <2>3. tester # "killed" =>
          Talk(told, b, <<e>>, r, asked) /\ Items(told, b, <<e>>, r) = Items(told, b, <<>>, d)
    BY <1>1, <1>4, <1>5, <2>1, <2>2, TalkTakes
  <2> HIDE DEF e, r
  <2>4. QED BY <1>2, <1>3, <1>4, <2>1, <2>2, <2>3
<1>9. CASE R!Reply
  <2> DEFINE m == R!Signal(0, current.value - 1)
  <2>1. /\ m \in R!Signals /\ m.number = 0 /\ m.value = current.value - 1 /\ m # R!Nothing
    <3>1. current.value - 1 \in Int
      BY <1>1 DEF R!Signals
    <3>2. 0 \in 0 .. FileCount + 1
      BY <1>0
    <3>3. QED BY <3>1, <3>2, SignalTypes
  <2> HIDE DEF m
  <2>2. /\ told' = told /\ asked' = asked /\ tester' = tester /\ server = "working"
        /\ server' \in {"waiting", "ended"}
    BY <1>9 DEF R!Reply
  <2>3. InHand = <<current>> /\ InHand' = <<>>
    BY <2>2 DEF InHand
  <2>4. CASE current.number = 0 /\ tester # "killed"
    <3>1. R!Post("tester", m)
      BY <1>9, <2>4 DEF R!Reply, m
    <3>2. inbox'["tester"] = Append(b, m) /\ inbox'["server"] = d
      BY <1>1, <2>1, <3>1, PostFacts DEF b, d
    <3>3. /\ Talk(told, Append(b, m), <<>>, d, asked)
          /\ Items(told, Append(b, m), <<>>, d) = Items(told, b, InHand, d)
      BY <1>1, <1>4, <2>1, <2>3, <2>4, TalkReplies
    <3>4. \A i \in 1 .. Len(Append(b, m)) : Append(b, m)[i].number \in {-1, 0}
      BY <1>1, <1>2, <2>1
    <3>5. QED BY <1>3, <1>4, <2>2, <2>3, <2>4, <3>2, <3>3, <3>4
  <2>5. CASE ~(current.number = 0 /\ tester # "killed")
    <3>1. inbox' = inbox
      BY <1>9, <2>5 DEF R!Reply
    <3>2. tester # "killed" =>
            Talk(told, b, <<>>, d, asked) /\ Items(told, b, <<>>, d) = Items(told, b, InHand, d)
      BY <1>1, <1>4, <2>3, <2>5, TalkReplies
    <3>3. QED BY <1>2, <1>3, <1>4, <2>2, <2>3, <3>1, <3>2 DEF b, d
  <2>6. QED BY <2>4, <2>5
<1>10. CASE R!Ask
  <2>1. PICK v \in Typed : /\ asked' = Append(asked, v)
                           /\ IF server \in {"waiting", "working"} THEN R!Post("server", R!Signal(0, v))
                              ELSE UNCHANGED inbox
    BY <1>10 DEF R!Ask
  <2> DEFINE m == R!Signal(0, v)
  <2>2. /\ v \in Int /\ m \in R!Signals /\ m.number = 0 /\ m.value = v /\ m # R!Nothing
    <3>1. v \in Int /\ 0 \in 0 .. FileCount + 1
      BY <1>0
    <3>2. QED BY <3>1, SignalTypes
  <2>3. server \in {"waiting", "working"} => R!Post("server", m)
    BY <2>1
  <2> HIDE DEF m
  <2>4. /\ told' = told /\ tester = "asking" /\ current' = current
        /\ server' = IF server = "starting" THEN "crashed" ELSE server
    BY <1>10 DEF R!Ask
  <2>5. InHand' = InHand
    BY <2>4 DEF InHand
  <2>6. DueTo(told, 0, Append(asked, v), 1)
    <3>1. Len(told) \in Nat /\ 0 \in Nat
      BY <1>1, BoxCounts
    <3>2. QED BY <1>1, <1>3, <2>2, <3>1, DueStays
  <2>7. CASE server \in {"waiting", "working"}
    <3>1. inbox'["tester"] = b /\ inbox'["server"] = Append(d, m)
      BY <1>1, <2>2, <2>3, <2>7, PostFacts DEF b, d
    <3>2. Items(told, b, InHand, d) = Len(asked) /\ Talk(told, b, InHand, d, asked)
      BY <1>4, <2>4, <2>7
    <3>3. /\ Talk(told, b, InHand, Append(d, m), Append(asked, v))
          /\ Items(told, b, InHand, Append(d, m)) = Len(Append(asked, v))
      BY <1>1, <2>2, <3>2, TalkAsks
    <3>4. QED BY <1>2, <2>1, <2>4, <2>5, <2>6, <3>1, <3>3
  <2>8. CASE server \notin {"waiting", "working"}
    <3>1. inbox' = inbox /\ server' \notin On
      BY <2>1, <2>4, <2>8
    <3>2. Talk(told, b, InHand, d, Append(asked, v))
      BY <1>1, <1>4, <2>2, <2>4, TalkAsks
    <3>3. QED BY <1>2, <2>1, <2>4, <2>5, <2>6, <3>1, <3>2 DEF b, d
  <2>9. QED BY <2>7, <2>8
<1>11. CASE R!Hear
  <2> DEFINE e == b[R!Chosen(b)]
             r == R!RemoveAt(b, R!Chosen(b))
  <2>1. /\ b # <<>> /\ inbox'["server"] = d /\ inbox'["tester"] = r /\ told' = Append(told, e)
        /\ asked' = asked /\ tester = "listening" /\ server' = server /\ current' = current
        /\ R!Chosen(b) \in 1 .. Len(b)
    BY <1>1, <1>11, DropFacts DEF R!Hear, b, d
  <2>2. InHand' = InHand
    BY <2>1 DEF InHand
  <2>3. Talk(told, b, InHand, d, asked)
    BY <1>4, <2>1
  <2>4. /\ Talk(Append(told, e), r, InHand, d, asked) /\ DueTo(Append(told, e), 0, asked, 1)
        /\ Items(Append(told, e), r, InHand, d) = Items(told, b, InHand, d)
    BY <1>1, <1>2, <1>3, <2>1, <2>3, TalkHears
  <2>5. \A i \in 1 .. Len(r) : r[i].number \in {-1, 0}
    <3> DEFINE c == R!Chosen(b)
    <3>1. c \in 1 .. Len(b)
      BY <2>1
    <3> HIDE DEF c
    <3>2. LET q == R!RemoveAt(b, c) IN
            Len(q) = Len(b) - 1 /\ Len(b) \in Nat
              /\ \A i \in 1 .. Len(b) - 1 : q[i] = b[IF i < c THEN i ELSE i + 1]
      BY <1>1, <3>1, RemoveAtFacts
    <3>3. r = R!RemoveAt(b, c)
      BY DEF c
    <3> HIDE DEF r
    <3>4. ASSUME NEW i \in 1 .. Len(r) PROVE r[i].number \in {-1, 0}
      <4>1. (IF i < c THEN i ELSE i + 1) \in 1 .. Len(b)
        BY <3>1, <3>2, <3>3
      <4>2. QED BY <1>2, <3>2, <3>3, <4>1
    <3>5. QED BY <3>4
  <2> HIDE DEF e, r
  <2>6. QED BY <1>4, <2>1, <2>2, <2>4, <2>5
<1>12. CASE R!Interrupt
  <2>1. /\ told' = told /\ asked' = asked /\ tester' = "killed"
        /\ inbox'["tester"] = <<>>
    BY <1>1, <1>12, BoxTypes DEF R!Interrupt
  <2>2. QED BY <1>3, <2>1
<1>13. CASE R!Stray
  <2> DEFINE m == R!Nothing
  <2>1. m \in R!Signals /\ m.number = -1 /\ m.number # 0
    BY SignalTypes
  <2> HIDE DEF m
  <2>2. /\ told' = told /\ asked' = asked /\ tester' = tester /\ server' = server
        /\ current' = current
        /\ R!Post("server", m) \/ R!Post("tester", m)
    BY <1>13 DEF R!Stray, m
  <2>3. InHand' = InHand
    BY <2>2 DEF InHand
  <2>4. CASE inbox'["server"] = Append(d, m) /\ inbox'["tester"] = b
    <3>1. ASSUME tester # "killed"
          PROVE  /\ Talk(told, b, InHand, Append(d, m), asked)
                 /\ Items(told, b, InHand, Append(d, m)) = Items(told, b, InHand, d)
      <4>1. Talk(told, b, InHand, d, asked)
        BY <1>4, <3>1
      <4>2. QED BY <1>1, <2>1, <4>1, TalkStrays
    <3>2. QED BY <1>2, <1>3, <1>4, <2>2, <2>3, <2>4, <3>1
  <2>5. CASE inbox'["server"] = d /\ inbox'["tester"] = Append(b, m)
    <3>1. ASSUME tester # "killed"
          PROVE  /\ Talk(told, Append(b, m), InHand, d, asked)
                 /\ Items(told, Append(b, m), InHand, d) = Items(told, b, InHand, d)
      <4>1. Talk(told, b, InHand, d, asked)
        BY <1>4, <3>1
      <4>2. QED BY <1>1, <2>1, <4>1, TalkStrays
    <3>2. \A i \in 1 .. Len(Append(b, m)) : Append(b, m)[i].number \in {-1, 0}
      BY <1>1, <1>2, <2>1
    <3>3. QED BY <1>3, <1>4, <2>2, <2>3, <2>5, <3>1, <3>2
  <2>6. CASE inbox'["server"] = d /\ inbox'["tester"] = b
    BY <1>2, <1>3, <1>4, <2>2, <2>3, <2>6
  <2>7. QED BY <1>1, <2>1, <2>2, <2>4, <2>5, <2>6, PostFacts DEF b, d
<1>14. CASE R!Skip \/ R!WriteLine \/ R!Request
  BY <1>14 DEF R!Skip, R!WriteLine, R!Request
<1>15. QED BY <1>7, <1>8, <1>9, <1>10, <1>11, <1>12, <1>13, <1>14 DEF R!Next, R!Server

\* How many requests there have been for the line of file k.
AskedFor(a, k) == R!Cardinality({j \in DOMAIN a : a[j] = k})

LEMMA AskedOnce ==
  ASSUME NEW a \in Seq(Int), NEW v \in Int, NEW k
  PROVE  /\ AskedFor(a, k) \in Nat
         /\ AskedFor(Append(a, v), k) = AskedFor(a, k) + (IF v = k THEN 1 ELSE 0)
<1> DEFINE w == Append(a, v)
           A == {j \in DOMAIN a : a[j] = k}
           W == {j \in DOMAIN w : w[j] = k}
           num == Len(a) + 1
<1>1. /\ Len(a) \in Nat /\ DOMAIN a = 1 .. Len(a) /\ DOMAIN w = 1 .. num /\ w[num] = v
      /\ \A j \in 1 .. Len(a) : w[j] = a[j]
  OBVIOUS
<1>2. A \in SUBSET (1 .. Len(a)) /\ IsFiniteSet(1 .. Len(a))
  BY <1>1, FS_Interval
<1>3. IsFiniteSet(A)
  BY <1>2, FS_Subset
<1>4. num \notin A /\ W = (IF v = k THEN A \cup {num} ELSE A)
  BY <1>1
<1>5. AskedFor(a, k) = Cardinality(A) /\ AskedFor(w, k) = Cardinality(W)
  BY DEF AskedFor, R!Cardinality, R!IsFiniteSet, Cardinality, IsFiniteSet
<1> HIDE DEF A, W, num, w
<1>6. Cardinality(A) \in Nat
  BY <1>3, FS_CardinalityType
<1>7. Cardinality(W) = Cardinality(A) + (IF v = k THEN 1 ELSE 0)
  <2>1. Cardinality(A \cup {num}) = Cardinality(A) + 1
    BY <1>3, <1>4, FS_AddElement
  <2>2. CASE v = k
    BY <1>4, <2>1, <2>2
  <2>3. CASE v # k
    BY <1>4, <1>6, <2>3
  <2>4. QED BY <2>2, <2>3
<1>8. QED BY <1>5, <1>6, <1>7 DEF w

LEMMA CountRemoved ==
  ASSUME NEW S, NEW q \in Seq(S), NEW p \in 1 .. Len(q), NEW k
  PROVE  /\ R!CountOf(q, k) \in Nat
         /\ R!CountOf(R!RemoveAt(q, p), k)
              = R!CountOf(q, k) - (IF q[p].number = k THEN 1 ELSE 0)
<1> DEFINE r == R!RemoveAt(q, p)
<1>1. Len(r) = Len(q) - 1 /\ Len(q) \in Nat \ {0} /\ Len(q) - 1 \in 0 .. Len(q) - 1
  BY RemoveAtFacts
<1>2. R!Rank(r, Len(q) - 1, k) =
        IF Len(q) - 1 < p THEN R!Rank(q, Len(q) - 1, k)
        ELSE R!Rank(q, (Len(q) - 1) + 1, k) - (IF q[p].number = k THEN 1 ELSE 0)
  BY <1>1, RankRemoved
<1> HIDE DEF r
<1>3. R!Rank(q, Len(q), k) = R!Rank(q, Len(q) - 1, k) + (IF q[Len(q)].number = k THEN 1 ELSE 0)
  BY <1>1, RankStepsBack
<1>4. R!Rank(q, Len(q), k) \in Nat /\ R!Rank(q, Len(q) - 1, k) \in Nat
  BY <1>1, RankIsSize
<1>5. CASE Len(q) - 1 < p
  <2>1. p = Len(q)
    BY <1>1, <1>5
  <2>2. QED BY <1>1, <1>2, <1>3, <1>4, <1>5, <2>1 DEF R!CountOf, r
<1>6. CASE ~(Len(q) - 1 < p)
  <2>1. (Len(q) - 1) + 1 = Len(q)
    BY <1>1
  <2>2. QED BY <1>1, <1>2, <1>4, <1>6, <2>1 DEF R!CountOf, r
<1>7. QED BY <1>5, <1>6

\* Requests sent, answered, worked on and pending.
Balance(a, t, d, h, k) == AskedFor(a, k) = R!CountOf(t, k) + R!CountOf(d, k) + h

LEMMA RequestsStep ==
  MailTypes /\ R!EachRequestOnce /\ R!Next => R!EachRequestOnce'
<1> DEFINE Hand(k) == IF server = "working" /\ current.number = k THEN 1 ELSE 0
<1> SUFFICES ASSUME MailTypes, R!EachRequestOnce, R!Next, service' = "inf14_0",
                    server' # "crashed", NEW k \in R!Files
             PROVE  Balance(asked', told', inbox'["server"], Hand(k)', k)
  BY DEF R!EachRequestOnce, Balance, AskedFor, R!Files, R!CountOf, R!Rank, R!Cardinality,
         R!IsFiniteSet
<1>0. FileCount \in Nat /\ k \in Nat \ {0} /\ 0 \in 0 .. FileCount + 1
  BY NumbersAssumption DEF R!Files
<1>1. /\ R!TypeOK /\ "server" \in R!Processes /\ "tester" \in R!Processes /\ "tester" # "server"
      /\ inbox["server"] \in Seq(R!Signals) /\ current \in R!Signals /\ asked \in Seq(Int)
  BY BoxTypes DEF MailTypes, R!TypeOK, R!Processes
<1>2. service = "inf14_0" /\ tester = "absent" /\ told \in Seq([number : Int, clean : BOOLEAN])
  BY AskedGrows DEF MailTypes
<1>3. server # "crashed"
  BY <1>2 DEF R!Next, R!Server, R!SetMask, R!Take, R!Skip, R!WriteLine, R!Reply, R!Ask, R!Request,
              R!Hear, R!Interrupt, R!Stray, R!Rest, R!vars
<1> DEFINE d == inbox["server"]
<1>4. Balance(asked, told, d, Hand(k), k)
  BY <1>2, <1>3 DEF R!EachRequestOnce, Balance, AskedFor
<1>5. AskedFor(asked, k) \in Nat /\ R!CountOf(told, k) \in Nat /\ R!CountOf(d, k) \in Nat
  <2>1. Len(told) \in Nat /\ Len(d) \in Nat
    BY <1>1, <1>2
  <2>2. QED BY <1>1, <2>1, AskedOnce, RankIsSize DEF R!CountOf
<1> HIDE DEF d
<1>6. CASE R!Take
  <2> DEFINE c == R!Chosen(d)
  <2>1. /\ c \in 1 .. Len(d) /\ inbox'["server"] = R!RemoveAt(d, c) /\ current' = d[c]
        /\ told' = told /\ asked' = asked /\ server = "waiting" /\ server' = "working"
    BY <1>1, <1>6, DropFacts DEF R!Take, d
  <2>2. R!CountOf(R!RemoveAt(d, c), k) = R!CountOf(d, k) - (IF d[c].number = k THEN 1 ELSE 0)
    <3> HIDE DEF c
    <3>1. d \in Seq(R!Signals)
      BY <1>1 DEF d
    <3>2. QED BY <2>1, <3>1, CountRemoved
  <2>3. Hand(k) = 0 /\ Hand(k)' = IF d[c].number = k THEN 1 ELSE 0
    BY <2>1
  <2> HIDE DEF c, Hand
  <2>4. QED BY <1>4, <1>5, <2>1, <2>2, <2>3 DEF Balance
<1>7. CASE R!Skip
  <2>1. Hand(k) = 0 /\ Hand(k)' = 0
    <3>1. current.number # k
      BY <1>0, <1>7 DEF R!Skip
    <3>2. QED BY <1>7, <3>1 DEF R!Skip
  <2> HIDE DEF Hand
  <2>2. QED BY <1>4, <1>7, <2>1 DEF R!Skip, Balance, d
<1>8. CASE R!WriteLine
  <2>1. PICK c \in BOOLEAN : told' = Append(told, [number |-> current.number, clean |-> c])
    BY <1>8 DEF R!WriteLine
  <2> DEFINE e == [number |-> current.number, clean |-> c]
             S == [number : Int, clean : BOOLEAN]
  <2>2. e \in S /\ e.number = current.number
    BY <1>0, <1>1 DEF R!Signals
  <2>3. told \in Seq(S) /\ told' = Append(told, e)
    BY <1>2, <2>1
  <2> HIDE DEF e, S
  <2>4. R!CountOf(told', k) = R!CountOf(told, k) + (IF current.number = k THEN 1 ELSE 0)
    BY <2>2, <2>3, CountAppended
  <2>5. /\ Hand(k) = (IF current.number = k THEN 1 ELSE 0) /\ Hand(k)' = 0
        /\ asked' = asked /\ inbox' = inbox
    BY <1>8 DEF R!WriteLine
  <2> HIDE DEF Hand
  <2>6. QED BY <1>4, <1>5, <2>4, <2>5 DEF Balance, d
<1>9. CASE R!Request
  <2>1. PICK j \in 0 .. FileCount + 1 : asked' = Append(asked, j) /\ R!Post("server", R!Signal(j, 0))
    BY <1>9 DEF R!Request
  <2> DEFINE m == R!Signal(j, 0)
  <2>2. j \in Int /\ m \in R!Signals /\ m.number = j /\ m # R!Nothing
    BY <1>0, SignalTypes
  <2> HIDE DEF m
  <2>3. inbox'["server"] = Append(d, m)
    BY <1>1, <2>1, <2>2, PostFacts DEF d, m
  <2>4. d \in Seq(R!Signals)
    BY <1>1 DEF d
  <2>5. R!CountOf(Append(d, m), k) = R!CountOf(d, k) + (IF j = k THEN 1 ELSE 0)
    BY <2>2, <2>4, CountAppended
  <2>6. AskedFor(Append(asked, j), k) = AskedFor(asked, k) + (IF j = k THEN 1 ELSE 0)
    BY <1>1, <2>2, AskedOnce
  <2>7. Hand(k)' = Hand(k) /\ told' = told /\ Hand(k) \in {0, 1}
    BY <1>9 DEF R!Request
  <2> HIDE DEF Hand
  <2>8. QED BY <1>4, <1>5, <2>1, <2>3, <2>5, <2>6, <2>7 DEF Balance
<1>10. CASE R!Stray
  <2> DEFINE m == R!Nothing
  <2>1. m \in R!Signals /\ m.number = -1 /\ m.number # k
    BY <1>0, SignalTypes
  <2> HIDE DEF m
  <2>2. inbox'["server"] = d \/ inbox'["server"] = Append(d, m)
    BY <1>1, <1>10, <2>1, PostFacts DEF R!Stray, d, m
  <2>3. d \in Seq(R!Signals)
    BY <1>1 DEF d
  <2>4. R!CountOf(Append(d, m), k) = R!CountOf(d, k)
    BY <1>5, <2>1, <2>3, CountAppended
  <2>5. Hand(k)' = Hand(k) /\ told' = told /\ asked' = asked
    BY <1>10 DEF R!Stray
  <2> HIDE DEF Hand
  <2>6. QED BY <1>4, <2>2, <2>4, <2>5 DEF Balance
<1>11. CASE R!SetMask \/ R!Rest
  <2>1. Hand(k)' = Hand(k) /\ told' = told /\ asked' = asked /\ inbox' = inbox
    BY <1>11 DEF R!SetMask, R!Rest, R!vars
  <2> HIDE DEF Hand
  <2>2. QED BY <1>4, <2>1 DEF Balance, d
<1>12. CASE R!Reply \/ R!Ask \/ R!Hear \/ R!Interrupt
  BY <1>2, <1>12 DEF R!Reply, R!Ask, R!Hear, R!Interrupt
<1>13. QED BY <1>6, <1>7, <1>8, <1>9, <1>10, <1>11, <1>12 DEF R!Next, R!Server

LEMMA MailStays == MailInv /\ UNCHANGED mail => MailInv'
<1> SUFFICES ASSUME MailInv, UNCHANGED mail PROVE MailInv'
  OBVIOUS
<1> USE DEF mail
<1>1. MailTypes'
  BY DEF MailInv, MailTypes, R!TypeOK, R!Signals, R!Processes
<1>2. Causes'
  BY DEF MailInv, Causes, Held, FromAsked, R!Signals
<1>3. R!EndsForCause'
  BY DEF MailInv, R!EndsForCause, R!ToSet, R!Files
<1>4. R!EachRequestOnce'
  <2> DEFINE Hand(k) == IF server = "working" /\ current.number = k THEN 1 ELSE 0
  <2> SUFFICES ASSUME service' = "inf14_0", server' # "crashed", NEW k \in R!Files
               PROVE  Balance(asked', told', inbox'["server"], Hand(k)', k)
    BY DEF R!EachRequestOnce, Balance, AskedFor, R!Files, R!CountOf, R!Rank, R!Cardinality,
           R!IsFiniteSet
  <2>1. Balance(asked, told, inbox["server"], Hand(k), k)
    BY DEF MailInv, R!EachRequestOnce, Balance, AskedFor
  <2>2. QED BY <2>1
<1>5. Conversation'
  BY DEF MailInv, Conversation, InHand, DueTo, Talk, Items, R!CountOf, R!Rank
<1>6. QED BY <1>1, <1>2, <1>3, <1>4, <1>5 DEF MailInv

LEMMA MailInitially == R!Init \/ MailingOver => MailInv
<1> SUFFICES ASSUME R!Init \/ MailingOver PROVE MailInv
  OBVIOUS
<1>0. FileCount \in Nat /\ MaxStrays \in Nat
  BY NumbersAssumption
<1>1. inbox = [p \in R!Processes |-> <<>>]
  BY DEF R!Init, MailingOver
<1>2. /\ inbox["server"] = <<>> /\ inbox["tester"] = <<>>
      /\ inbox \in [R!Processes -> Seq(R!Signals)]
  BY <1>1 DEF R!Processes
<1>3. current \in R!Signals
  BY <1>0, SignalTypes DEF R!Init, MailingOver
<1>4. told = <<>> /\ strays = 0 /\ server # "working" /\ server # "crashed"
  BY DEF R!Init, MailingOver
<1>5. service \in {"inf14_0", "inf14_1"} /\ asked \in {<<>>, <<0>>}
  BY DEF R!Init, MailingOver
<1>6. MailTypes
  <2>1. asked \in Seq(Int) /\ told \in Seq(R!Signals) /\ told \in Seq([number : Int, clean : BOOLEAN])
    <3>1. \A S : <<>> \in Seq(S)
      OBVIOUS
    <3>2. <<0>> \in Seq(Int)
      OBVIOUS
    <3>3. QED BY <1>4, <1>5, <3>1, <3>2
  <2>2. service = "inf14_0" => tester = "absent"
    BY DEF R!Init, MailingOver
  <2>3. /\ server \in {"starting", "waiting", "working", "ended", "crashed"}
        /\ tester \in {"absent", "asking", "listening", "killed"}
    BY DEF R!Init, MailingOver
  <2>4. strays \in 0 .. MaxStrays
    BY <1>0, <1>4
  <2>5. QED BY <1>2, <1>3, <1>5, <2>1, <2>2, <2>3, <2>4 DEF MailTypes, R!TypeOK
<1>7. Causes
  BY <1>2, <1>4 DEF Causes, Held
<1>8. R!EndsForCause
  BY <1>4 DEF R!EndsForCause, R!ToSet, R!Init, MailingOver
<1>9. R!EachRequestOnce
  <2>1. ASSUME NEW k \in R!Files
        PROVE  AskedFor(asked, k) = 0 /\ R!CountOf(<<>>, k) = 0
    <3>1. {j \in DOMAIN asked : asked[j] = k} = {}
      BY <1>5 DEF R!Files
    <3>2. Cardinality({}) = 0
      BY FS_EmptySet
    <3>3. AskedFor(asked, k) = 0
      BY <3>1, <3>2 DEF AskedFor, R!Cardinality, R!IsFiniteSet, Cardinality, IsFiniteSet
    <3>4. R!CountOf(<<>>, k) = 0
      BY RankStarts DEF R!CountOf
    <3>5. QED BY <3>3, <3>4
  <2>2. \A k \in R!Files : AskedFor(asked, k) = R!CountOf(told, k) + R!CountOf(inbox["server"], k)
                             + (IF server = "working" /\ current.number = k THEN 1 ELSE 0)
    BY <1>2, <1>4, <2>1
  <2>3. QED BY <2>2 DEF R!EachRequestOnce, AskedFor
<1>10. Conversation
  <2> SUFFICES ASSUME service = "inf14_1" PROVE Conversation
    BY DEF Conversation
  <2>1. asked = <<>>
    BY DEF R!Init, MailingOver
  <2>2. InHand = <<>> /\ R!CountOf(<<>>, 0) = 0
    BY <1>4, RankStarts DEF InHand, R!CountOf
  <2>3. \A off, less : DueTo(<<>>, off, asked, less)
    BY DEF DueTo
  <2>4. Talk(<<>>, <<>>, <<>>, <<>>, asked) /\ Items(<<>>, <<>>, <<>>, <<>>) = 0 /\ Len(<<>>) = 0
    BY <2>2, <2>3 DEF Talk, Items
  <2>5. QED BY <1>2, <1>4, <2>1, <2>2, <2>3, <2>4 DEF Conversation
<1>11. QED BY <1>6, <1>7, <1>8, <1>9, <1>10 DEF MailInv

LEMMA MailStep == MailInv /\ R!Next => MailInv'
BY MailTypesStep, CausesStep, RequestsStep, TalkStep DEF MailInv

LEMMA AnswersFit == MailInv => AnswersAreDue
<1> SUFFICES ASSUME MailInv PROVE AnswersAreDue
  OBVIOUS
<1>1. R!AnswersInOrder
  <2> SUFFICES ASSUME service = "inf14_1", NEW i \in DOMAIN told, told[i].number = 0
               PROVE  /\ R!Rank(told, i, 0) <= Len(asked)
                      /\ told[i].value = asked[R!Rank(told, i, 0)] - 1
    BY DEF R!AnswersInOrder
  <2>1. told \in Seq(R!Signals) /\ i \in 1 .. Len(told) /\ i \in Nat
    BY DEF MailInv, MailTypes
  <2>2. R!Rank(told, i, 0) \in Nat /\ 0 + R!Rank(told, i, 0) = R!Rank(told, i, 0)
    BY <2>1, RankIsSize
  <2>3. QED BY <2>1, <2>2 DEF MailInv, Conversation, DueTo
<1>2. QED BY <1>1 DEF MailInv, MailTypes, AnswersAreDue, R!Inv

\* inf14-0.c, inf14-1.c and the tester: however signals are queued and whenever a stray one or
\* SIGINT comes, no request is lost or served twice, the tester is told the answers in the
\* order of its questions, and the server ends only for a cause.
THEOREM AnswersComeInOrder == AllSpec => []AnswersAreDue
<1>1. AllInit => MailInv
  BY MailInitially DEF AllInit
<1>2. MailInv /\ [AllNext]_allVars => MailInv'
  BY MailStep, MailStays DEF AllNext, allVars
<1>3. MailInv => AnswersAreDue
  BY AnswersFit
<1>4. QED BY <1>1, <1>2, <1>3, PTL DEF AllSpec
=============================================================================
