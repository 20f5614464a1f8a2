--------------------------- MODULE RingLocksProofs ---------------------------
EXTENDS MCRings, TLAPS

(***************************************************************************)
(* The neighbours without the modulo.                                      *)
(***************************************************************************)
LEMMA ModBelow ==
  ASSUME NEW n \in Nat \ {0}, NEW k \in 0 .. n - 1
  PROVE  k % n = k /\ (k + n) % n = k
  OBVIOUS

LEMMA Neighbours ==
  ASSUME NEW t \in Threads
  PROVE  /\ Cell(t, "middle") = t
         /\ Cell(t, "left") = IF t = 0 THEN Count - 1 ELSE t - 1
         /\ Cell(t, "right") = IF t = Count - 1 THEN 0 ELSE t + 1
  <1> USE CountAssumption DEF Threads
  <1>1. Cell(t, "middle") = t
    BY DEF Cell
  <1>2. Cell(t, "left") = (t - 1 + Count) % Count
    BY DEF Cell
  <1>3. Cell(t, "right") = (t + 1) % Count
    BY DEF Cell
  <1>4. Cell(t, "left") = IF t = 0 THEN Count - 1 ELSE t - 1
    <2>1. CASE t = 0
      BY <1>2, <2>1, ModBelow
    <2>2. CASE t # 0
      <3>1. t - 1 \in 0 .. Count - 1
        BY <2>2
      <3>2. QED BY <1>2, <2>2, <3>1, ModBelow
    <2>3. QED BY <2>1, <2>2
  <1>5. Cell(t, "right") = IF t = Count - 1 THEN 0 ELSE t + 1
    <2>1. CASE t = Count - 1
      <3>1. (0 + Count) % Count = 0
        BY ModBelow
      <3>2. QED BY <1>3, <2>1, <3>1
    <2>2. CASE t # Count - 1
      <3>1. t + 1 \in 0 .. Count - 1
        BY <2>2
      <3>2. QED BY <1>3, <2>2, <3>1, ModBelow
    <2>3. QED BY <2>1, <2>2
  <1>6. QED BY <1>1, <1>4, <1>5

LEMMA NeighboursOfNeighbours ==
  ASSUME NEW t \in Threads
  PROVE  /\ \A role \in Roles : Cell(t, role) \in Threads
         /\ Cell(Cell(t, "left"), "right") = t
         /\ Cell(Cell(t, "right"), "left") = t
         /\ Count > 1 => Cell(t, "left") # t /\ Cell(t, "right") # t
         /\ Count > 2 => Cell(t, "left") # Cell(t, "right")
  <1>1. \A role \in Roles : Cell(t, role) \in Threads
    BY Neighbours, CountAssumption DEF Threads, Roles
  <1>2. /\ Cell(Cell(t, "left"), "right") = t
        /\ Cell(Cell(t, "right"), "left") = t
    BY <1>1, Neighbours, CountAssumption DEF Threads, Roles
  <1>3. /\ Count > 1 => Cell(t, "left") # t /\ Cell(t, "right") # t
        /\ Count > 2 => Cell(t, "left") # Cell(t, "right")
    BY Neighbours, CountAssumption DEF Threads
  <1>4. QED BY <1>1, <1>2, <1>3

(***************************************************************************)
(* The program of a thread has one of three shapes.                        *)
(***************************************************************************)
Orders ==
  {<<"middle", "left", "right">>, <<"left", "right", "middle">>,
   <<"right", "middle", "left">>}

LEMMA Shapes ==
  ASSUME NEW t \in Threads
  PROVE  \/ Count = 1 /\ Program(t) = Single
         \/ Count = 2 /\ t = 0 /\ Program(t) = Pair("middle", "left")
         \/ Count = 2 /\ t = 1 /\ Program(t) = Pair("left", "middle")
         \/ Count > 2 /\ t % 3 = 2 /\ Program(t) = Nested("right", "middle", "left")
         \/ Count > 2 /\ t % 3 = 0 /\ Program(t) = Nested("middle", "left", "right")
         \/ Count > 2 /\ t % 3 = 1 /\ Program(t) = Nested("left", "right", "middle")
  <1>1. t % 3 \in {0, 1, 2}
    BY DEF Threads
  <1>2. QED
    BY <1>1, CountAssumption DEF Threads, Program, PairProgram, NestedProgram

Ops == {"lock", "add", "unlock"}

LEMMA Instructions ==
  ASSUME NEW t \in Threads
  PROVE  /\ Len(Program(t)) \in Nat \ {0}
         /\ \A k \in 1 .. Len(Program(t)) :
              /\ Program(t)[k].op \in Ops
              /\ Program(t)[k].role \in Roles
              /\ Program(t)[k] = [op |-> Program(t)[k].op, role |-> Program(t)[k].role]
  <1> USE DEF Ops, Roles, Single, Pair, Nested, LockOf, AddTo, UnlockOf
  <1>1. CASE Program(t) = Single
    BY <1>1
  <1>2. ASSUME NEW a \in Roles, NEW b \in Roles, Program(t) = Pair(a, b)
        PROVE  /\ Len(Program(t)) \in Nat \ {0}
               /\ \A k \in 1 .. Len(Program(t)) :
                    /\ Program(t)[k].op \in Ops
                    /\ Program(t)[k].role \in Roles
                    /\ Program(t)[k] = [op |-> Program(t)[k].op, role |-> Program(t)[k].role]
    BY <1>2
  <1>3. ASSUME NEW a \in Roles, NEW b \in Roles, NEW c \in Roles,
               Program(t) = Nested(a, b, c)
        PROVE  /\ Len(Program(t)) \in Nat \ {0}
               /\ \A k \in 1 .. Len(Program(t)) :
                    /\ Program(t)[k].op \in Ops
                    /\ Program(t)[k].role \in Roles
                    /\ Program(t)[k] = [op |-> Program(t)[k].op, role |-> Program(t)[k].role]
    BY <1>3
  <1>4. QED BY <1>1, <1>2, <1>3, Shapes

(***************************************************************************)
(* How the set of held mutexes changes along a program.                    *)
(***************************************************************************)
At(t, k) == Cell(t, Program(t)[k].role)

HeldStep(t, p, q, m) ==
  /\ Program(t)[p].op = "lock" =>
       (m \in HeldAt(t, q) <=> m \in HeldAt(t, p) \/ m = At(t, p))
  /\ Program(t)[p].op = "unlock" =>
       (m \in HeldAt(t, q) <=> m \in HeldAt(t, p) /\ m # At(t, p))
  /\ Program(t)[p].op = "add" => (m \in HeldAt(t, q) <=> m \in HeldAt(t, p))

\* Opaque to the provers, so that they match it instead of computing with it.
Follows(p, q) == q = p + 1

LEMMA HeldSteps ==
  ASSUME NEW t \in Threads, NEW p \in 1 .. Len(Program(t)), NEW m \in Threads,
         NEW q, Follows(p, q)
  PROVE  HeldStep(t, p, q, m)
  <1>1. Len(Program(t)) \in Nat /\ p \in Nat /\ q = p + 1
    BY Instructions DEF Follows
  <1>2. ASSUME Program(t)[p].op = "lock"
        PROVE  m \in HeldAt(t, q) <=> m \in HeldAt(t, p) \/ m = At(t, p)
    <2>1. Program(t)[p].op # "unlock"
      BY <1>2
    <2>2. m \in HeldAt(t, q) => m \in HeldAt(t, p) \/ m = At(t, p)
      BY <1>1, <2>1 DEF HeldAt, Touches, At
    <2>3. m \in HeldAt(t, p) => m \in HeldAt(t, q)
      BY <1>1, <2>1 DEF HeldAt, Touches
    <2>4. m = At(t, p) => m \in HeldAt(t, q)
      BY <1>1, <1>2, <2>1 DEF HeldAt, Touches, At
    <2>5. QED BY <2>2, <2>3, <2>4
  <1>3. ASSUME Program(t)[p].op = "unlock"
        PROVE  m \in HeldAt(t, q) <=> m \in HeldAt(t, p) /\ m # At(t, p)
    <2>1. Program(t)[p].op # "lock"
      BY <1>3
    <2>2. m \in HeldAt(t, q) => m \in HeldAt(t, p)
      BY <1>1, <2>1 DEF HeldAt, Touches
    <2>3. m = At(t, p) => m \notin HeldAt(t, q)
      BY <1>1, <1>3, <2>1 DEF HeldAt, Touches, At
    <2>4. m \in HeldAt(t, p) /\ m # At(t, p) => m \in HeldAt(t, q)
      BY <1>1, <1>3, <2>1 DEF HeldAt, Touches, At
    <2>5. QED BY <2>2, <2>3, <2>4
  <1>4. ASSUME Program(t)[p].op = "add"
        PROVE  m \in HeldAt(t, q) <=> m \in HeldAt(t, p)
    <2>1. Program(t)[p].op # "lock" /\ Program(t)[p].op # "unlock"
      BY <1>4
    <2>2. m \in HeldAt(t, q) => m \in HeldAt(t, p)
      BY <1>1, <2>1 DEF HeldAt, Touches
    <2>3. m \in HeldAt(t, p) => m \in HeldAt(t, q)
      BY <1>1, <2>1 DEF HeldAt, Touches
    <2>4. QED BY <2>2, <2>3
  <1>5. QED BY <1>2, <1>3, <1>4 DEF HeldStep

LEMMA HeldAtStart ==
  ASSUME NEW t, NEW m PROVE m \notin HeldAt(t, 1)
  BY DEF HeldAt

(***************************************************************************)
(* The mutex that protects a cell, and the order in which mutexes are      *)
(* taken: every thread takes them by increasing rank, except for the last  *)
(* mutex of the last thread when Count % 3 = 1.                            *)
(***************************************************************************)
Guard(c) == IF Count > 2 THEN c ELSE 0

Rank(m) ==
  IF m = 0 THEN 1
  ELSE IF m % 3 = 2 THEN 3
  ELSE IF m % 3 = 0 THEN (IF m = Count - 1 THEN 2 ELSE 0)
  ELSE (IF m = Count - 1 THEN 4 ELSE 5)

Seam(t, p) == Count % 3 = 1 /\ Count > 1 /\ t = Count - 1 /\ At(t, p) = 0

Disciplined(t, p) ==
  /\ Program(t)[p].op = "lock" =>
       /\ At(t, p) \notin HeldAt(t, p)
       /\ \/ Seam(t, p) /\ t \in HeldAt(t, p)
          \/ \A h \in Threads : h \in HeldAt(t, p) => Rank(h) < Rank(At(t, p))
  /\ Program(t)[p].op = "unlock" => At(t, p) \in HeldAt(t, p)
  /\ Program(t)[p].op = "add" => Guard(At(t, p)) \in HeldAt(t, p)

WellDisciplined(t) ==
  /\ \A p \in 1 .. Len(Program(t)) : Disciplined(t, p)
  /\ \A m \in Threads : m \notin HeldAt(t, Len(Program(t)) + 1)

LEMMA DisciplineSingle ==
  ASSUME NEW t \in Threads, Count = 1, Program(t) = Single
  PROVE  WellDisciplined(t)
  <1>0. \A role \in Roles : Cell(t, role) = 0
    BY NeighboursOfNeighbours DEF Threads
  <1>thr. 0 \in Threads
    BY CountAssumption DEF Threads
  <1>len. Len(Program(t)) = 5
    BY DEF Single
  <1>1. /\ Program(t)[1].op = "lock"
        /\ \A k \in 2 .. 4 : Program(t)[k].op = "add"
        /\ Program(t)[5].op = "unlock"
        /\ \A k \in 1 .. 5 : At(t, k) = 0
    BY <1>0 DEF Single, LockOf, AddTo, UnlockOf, At, Roles
  <1>2. ASSUME NEW m \in Threads
        PROVE
        /\ m \notin HeldAt(t, 1)
        /\ (m \in HeldAt(t, 2) <=> m = 0) /\ (m \in HeldAt(t, 3) <=> m = 0)
        /\ (m \in HeldAt(t, 4) <=> m = 0) /\ (m \in HeldAt(t, 5) <=> m = 0)
        /\ m \notin HeldAt(t, 6)
    <2>0. /\ Follows(1, 2) /\ Follows(2, 3) /\ Follows(3, 4) /\ Follows(4, 5)
          /\ Follows(5, 6)
          /\ 1 \in 1 .. Len(Program(t)) /\ 2 \in 1 .. Len(Program(t))
          /\ 3 \in 1 .. Len(Program(t)) /\ 4 \in 1 .. Len(Program(t))
          /\ 5 \in 1 .. Len(Program(t))
      BY <1>len DEF Follows
    <2>1. /\ HeldStep(t, 1, 2, m) /\ HeldStep(t, 2, 3, m)
          /\ HeldStep(t, 3, 4, m) /\ HeldStep(t, 4, 5, m)
          /\ HeldStep(t, 5, 6, m)
      BY <2>0, HeldSteps, Zenon
    <2>2. m \notin HeldAt(t, 1)
      BY HeldAtStart
    <2>3. QED BY <1>1, <2>1, <2>2 DEF HeldStep
  <1>3. \A p \in 1 .. 5 : p \in {1, 2, 3, 4, 5}
    OBVIOUS
  <1>4. \A p \in 1 .. 5 : Disciplined(t, p)
    <2>1. Disciplined(t, 1)
      BY <1>thr, <1>1, <1>2 DEF Disciplined, Guard
    <2>2. Disciplined(t, 2)
      BY <1>thr, <1>1, <1>2 DEF Disciplined, Guard
    <2>3. Disciplined(t, 3)
      BY <1>thr, <1>1, <1>2 DEF Disciplined, Guard
    <2>4. Disciplined(t, 4)
      BY <1>thr, <1>1, <1>2 DEF Disciplined, Guard
    <2>5. Disciplined(t, 5)
      BY <1>thr, <1>1, <1>2 DEF Disciplined, Guard
    <2>6. QED BY <1>3, <2>1, <2>2, <2>3, <2>4, <2>5
  <1>5. Len(Program(t)) + 1 = 6
    BY <1>len
  <1>6. QED BY <1>len, <1>2, <1>4, <1>5 DEF WellDisciplined

LEMMA DisciplinePair ==
  ASSUME NEW t \in Threads, NEW a \in Roles, NEW b \in Roles, Count = 2,
         Program(t) = Pair(a, b), Cell(t, a) = 0, Cell(t, b) = 1
  PROVE  WellDisciplined(t)
  <1>thr. 0 \in Threads /\ 1 \in Threads
    BY DEF Threads
  <1>len. Len(Program(t)) = 7
    BY DEF Pair
  <1>1. /\ Program(t)[1].op = "lock" /\ At(t, 1) = 0
        /\ Program(t)[2].op = "add"
        /\ Program(t)[3].op = "lock" /\ At(t, 3) = 1
        /\ Program(t)[4].op = "add"
        /\ Program(t)[5].op = "add"
        /\ Program(t)[6].op = "unlock" /\ At(t, 6) = 1
        /\ Program(t)[7].op = "unlock" /\ At(t, 7) = 0
    BY DEF Pair, LockOf, AddTo, UnlockOf, At
  <1>2. ASSUME NEW m \in Threads
        PROVE
        /\ m \notin HeldAt(t, 1)
        /\ (m \in HeldAt(t, 2) <=> m = 0) /\ (m \in HeldAt(t, 3) <=> m = 0)
        /\ (m \in HeldAt(t, 4) <=> m \in {0, 1}) /\ (m \in HeldAt(t, 5) <=> m \in {0, 1}) /\ (m \in HeldAt(t, 6) <=> m \in {0, 1})
        /\ (m \in HeldAt(t, 7) <=> m = 0)
        /\ m \notin HeldAt(t, 8)
    <2>0. /\ Follows(1, 2) /\ Follows(2, 3) /\ Follows(3, 4) /\ Follows(4, 5)
          /\ Follows(5, 6) /\ Follows(6, 7) /\ Follows(7, 8)
          /\ 1 \in 1 .. Len(Program(t)) /\ 2 \in 1 .. Len(Program(t))
          /\ 3 \in 1 .. Len(Program(t)) /\ 4 \in 1 .. Len(Program(t))
          /\ 5 \in 1 .. Len(Program(t)) /\ 6 \in 1 .. Len(Program(t))
          /\ 7 \in 1 .. Len(Program(t))
      BY <1>len DEF Follows
    <2>1. /\ HeldStep(t, 1, 2, m) /\ HeldStep(t, 2, 3, m)
          /\ HeldStep(t, 3, 4, m) /\ HeldStep(t, 4, 5, m)
          /\ HeldStep(t, 5, 6, m) /\ HeldStep(t, 6, 7, m)
          /\ HeldStep(t, 7, 8, m)
      BY <2>0, HeldSteps, Zenon
    <2>2. m \notin HeldAt(t, 1)
      BY HeldAtStart
    <2>3. QED BY <1>1, <2>1, <2>2 DEF HeldStep
  <1>3. \A p \in 1 .. 7 : p \in {1, 2, 3, 4, 5, 6, 7}
    OBVIOUS
  <1>4. Rank(0) = 1 /\ Rank(1) = 4
    BY DEF Rank
  <1>5. \A p \in 1 .. 7 : Disciplined(t, p)
    <2>1. Disciplined(t, 1)
      BY <1>thr, <1>1, <1>2, <1>4 DEF Disciplined, Guard
    <2>2. Disciplined(t, 2)
      BY <1>thr, <1>1, <1>2, <1>4 DEF Disciplined, Guard
    <2>3. Disciplined(t, 3)
      BY <1>thr, <1>1, <1>2, <1>4 DEF Disciplined, Guard
    <2>4. Disciplined(t, 4)
      BY <1>thr, <1>1, <1>2, <1>4 DEF Disciplined, Guard
    <2>5. Disciplined(t, 5)
      BY <1>thr, <1>1, <1>2, <1>4 DEF Disciplined, Guard
    <2>6. Disciplined(t, 6)
      BY <1>thr, <1>1, <1>2, <1>4 DEF Disciplined, Guard
    <2>7. Disciplined(t, 7)
      BY <1>thr, <1>1, <1>2, <1>4 DEF Disciplined, Guard
    <2>8. QED BY <1>3, <2>1, <2>2, <2>3, <2>4, <2>5, <2>6, <2>7
  <1>6. Len(Program(t)) + 1 = 8
    BY <1>len
  <1>7. QED BY <1>len, <1>2, <1>5, <1>6 DEF WellDisciplined

LEMMA DisciplineNested ==
  ASSUME NEW t \in Threads, NEW a \in Roles, NEW b \in Roles, NEW c \in Roles,
         Count > 2, Program(t) = Nested(a, b, c), a # b, b # c, a # c,
         Rank(Cell(t, a)) < Rank(Cell(t, b)),
         \/ Rank(Cell(t, b)) < Rank(Cell(t, c))
         \/ Count % 3 = 1 /\ t = Count - 1 /\ Cell(t, c) = 0 /\ a = "middle"
  PROVE  WellDisciplined(t)
  <1> DEFINE A == Cell(t, a)
             B == Cell(t, b)
             C == Cell(t, c)
  <1>0. A # B /\ B # C /\ A # C
    BY NeighboursOfNeighbours, Neighbours DEF Roles
  <1>thr. A \in Threads /\ B \in Threads /\ C \in Threads
    BY NeighboursOfNeighbours
  <1>len. Len(Program(t)) = 9
    BY DEF Nested
  <1>1. /\ Program(t)[1].op = "lock" /\ At(t, 1) = A
        /\ Program(t)[2].op = "add" /\ At(t, 2) = A
        /\ Program(t)[3].op = "lock" /\ At(t, 3) = B
        /\ Program(t)[4].op = "add" /\ At(t, 4) = B
        /\ Program(t)[5].op = "lock" /\ At(t, 5) = C
        /\ Program(t)[6].op = "add" /\ At(t, 6) = C
        /\ Program(t)[7].op = "unlock" /\ At(t, 7) = C
        /\ Program(t)[8].op = "unlock" /\ At(t, 8) = B
        /\ Program(t)[9].op = "unlock" /\ At(t, 9) = A
    BY DEF Nested, LockOf, AddTo, UnlockOf, At
  <1> HIDE DEF A, B, C
  <1>2. ASSUME NEW m \in Threads
        PROVE
        /\ m \notin HeldAt(t, 1)
        /\ (m \in HeldAt(t, 2) <=> m = A) /\ (m \in HeldAt(t, 3) <=> m = A)
        /\ (m \in HeldAt(t, 4) <=> m \in {A, B}) /\ (m \in HeldAt(t, 5) <=> m \in {A, B})
        /\ (m \in HeldAt(t, 6) <=> m \in {A, B, C}) /\ (m \in HeldAt(t, 7) <=> m \in {A, B, C})
        /\ (m \in HeldAt(t, 8) <=> m \in {A, B})
        /\ (m \in HeldAt(t, 9) <=> m = A)
        /\ m \notin HeldAt(t, 10)
    <2>0. /\ Follows(1, 2) /\ Follows(2, 3) /\ Follows(3, 4) /\ Follows(4, 5)
          /\ Follows(5, 6) /\ Follows(6, 7) /\ Follows(7, 8) /\ Follows(8, 9) /\ Follows(9, 10)
          /\ 1 \in 1 .. Len(Program(t)) /\ 2 \in 1 .. Len(Program(t))
          /\ 3 \in 1 .. Len(Program(t)) /\ 4 \in 1 .. Len(Program(t))
          /\ 5 \in 1 .. Len(Program(t)) /\ 6 \in 1 .. Len(Program(t))
          /\ 7 \in 1 .. Len(Program(t)) /\ 8 \in 1 .. Len(Program(t))
          /\ 9 \in 1 .. Len(Program(t))
      BY <1>len DEF Follows
    <2>1. /\ HeldStep(t, 1, 2, m) /\ HeldStep(t, 2, 3, m)
          /\ HeldStep(t, 3, 4, m) /\ HeldStep(t, 4, 5, m)
          /\ HeldStep(t, 5, 6, m) /\ HeldStep(t, 6, 7, m)
          /\ HeldStep(t, 7, 8, m) /\ HeldStep(t, 8, 9, m)
          /\ HeldStep(t, 9, 10, m)
      BY <2>0, HeldSteps, Zenon
    <2>2. m \notin HeldAt(t, 1)
      BY HeldAtStart
    <2>3. QED BY <1>0, <1>1, <2>1, <2>2 DEF HeldStep
  <1>3. \A p \in 1 .. 9 : p \in {1, 2, 3, 4, 5, 6, 7, 8, 9}
    OBVIOUS
  <1>4. /\ Rank(A) < Rank(B)
        /\ \/ Rank(B) < Rank(C)
           \/ Seam(t, 5) /\ t = A
    <2>1. Rank(A) < Rank(B)
      BY DEF A, B
    <2>2. CASE Rank(Cell(t, b)) < Rank(Cell(t, c))
      BY <2>1, <2>2 DEF B, C
    <2>3. CASE Count % 3 = 1 /\ t = Count - 1 /\ Cell(t, c) = 0 /\ a = "middle"
      <3>1. At(t, 5) = 0
        BY <1>1, <2>3 DEF C
      <3>2. t = A
        BY <2>3, Neighbours DEF A
      <3>3. QED BY <2>1, <2>3, <3>1, <3>2, CountAssumption DEF Seam
    <2>4. QED BY <2>2, <2>3
  <1>5. Rank(A) \in Nat /\ Rank(B) \in Nat /\ Rank(C) \in Nat
    BY DEF Rank
  <1>6. \A p \in 1 .. 9 : Disciplined(t, p)
    <2>1. Disciplined(t, 1)
      BY <1>thr, <1>0, <1>1, <1>2, <1>4, <1>5 DEF Disciplined, Guard
    <2>2. Disciplined(t, 2)
      BY <1>thr, <1>0, <1>1, <1>2, <1>4, <1>5 DEF Disciplined, Guard
    <2>3. Disciplined(t, 3)
      BY <1>thr, <1>0, <1>1, <1>2, <1>4, <1>5 DEF Disciplined, Guard
    <2>4. Disciplined(t, 4)
      BY <1>thr, <1>0, <1>1, <1>2, <1>4, <1>5 DEF Disciplined, Guard
    <2>5. Disciplined(t, 5)
      BY <1>thr, <1>0, <1>1, <1>2, <1>4, <1>5 DEF Disciplined, Guard
    <2>6. Disciplined(t, 6)
      BY <1>thr, <1>0, <1>1, <1>2, <1>4, <1>5 DEF Disciplined, Guard
    <2>7. Disciplined(t, 7)
      BY <1>thr, <1>0, <1>1, <1>2, <1>4, <1>5 DEF Disciplined, Guard
    <2>8. Disciplined(t, 8)
      BY <1>thr, <1>0, <1>1, <1>2, <1>4, <1>5 DEF Disciplined, Guard
    <2>9. Disciplined(t, 9)
      BY <1>thr, <1>0, <1>1, <1>2, <1>4, <1>5 DEF Disciplined, Guard
    <2>10. QED BY <1>3, <2>1, <2>2, <2>3, <2>4, <2>5, <2>6, <2>7, <2>8, <2>9
  <1>7. Len(Program(t)) + 1 = 10
    BY <1>len
  <1>8. QED BY <1>len, <1>2, <1>6, <1>7 DEF WellDisciplined

LEMMA Ranks ==
  ASSUME NEW t \in Threads, Count > 2
  PROVE  /\ t % 3 = 2 => /\ Rank(Cell(t, "right")) < Rank(Cell(t, "middle"))
                         /\ Rank(Cell(t, "middle")) < Rank(Cell(t, "left"))
         /\ t % 3 = 0 => /\ Rank(Cell(t, "middle")) < Rank(Cell(t, "left"))
                         /\ \/ Rank(Cell(t, "left")) < Rank(Cell(t, "right"))
                            \/ /\ Count % 3 = 1 /\ t = Count - 1
                               /\ Cell(t, "right") = 0
         /\ t % 3 = 1 => /\ Rank(Cell(t, "left")) < Rank(Cell(t, "right"))
                         /\ Rank(Cell(t, "right")) < Rank(Cell(t, "middle"))
  <1> USE CountAssumption DEF Threads, Rank
  <1>1. CASE t % 3 = 2
    BY <1>1, Neighbours
  <1>2. CASE t % 3 = 0
    BY <1>2, Neighbours
  <1>3. CASE t % 3 = 1
    BY <1>3, Neighbours
  <1>4. QED BY <1>1, <1>2, <1>3

LEMMA Discipline ==
  ASSUME NEW t \in Threads
  PROVE  WellDisciplined(t)
  <1> USE DEF Roles
  <1>1. CASE Count = 1 /\ Program(t) = Single
    BY <1>1, DisciplineSingle
  <1>2. CASE Count = 2 /\ t = 0 /\ Program(t) = Pair("middle", "left")
    <2>1. Cell(t, "middle") = 0 /\ Cell(t, "left") = 1
      BY <1>2, Neighbours
    <2>2. QED BY <1>2, <2>1, DisciplinePair
  <1>3. CASE Count = 2 /\ t = 1 /\ Program(t) = Pair("left", "middle")
    <2>1. Cell(t, "left") = 0 /\ Cell(t, "middle") = 1
      BY <1>3, Neighbours
    <2>2. QED BY <1>3, <2>1, DisciplinePair
  <1>4. CASE Count > 2 /\ t % 3 = 2 /\ Program(t) = Nested("right", "middle", "left")
    BY <1>4, Ranks, DisciplineNested
  <1>5. CASE Count > 2 /\ t % 3 = 0 /\ Program(t) = Nested("middle", "left", "right")
    BY <1>5, Ranks, DisciplineNested
  <1>6. CASE Count > 2 /\ t % 3 = 1 /\ Program(t) = Nested("left", "right", "middle")
    BY <1>6, Ranks, DisciplineNested
  <1>7. QED BY <1>1, <1>2, <1>3, <1>4, <1>5, <1>6, Shapes

(***************************************************************************)
(* A program adds to the cell of every role exactly once.                  *)
(***************************************************************************)
AddsEachOnce(prog) ==
  \A role \in Roles :
    \E k \in 1 .. Len(prog) :
      /\ prog[k] = AddTo(role)
      /\ \A j \in 1 .. Len(prog) : prog[j] = AddTo(role) => j = k

LEMMA AddsOnce ==
  ASSUME NEW t \in Threads
  PROVE  AddsEachOnce(Program(t))
  <1> USE DEF AddsEachOnce, Roles, LockOf, AddTo, UnlockOf
  <1>1. CASE Program(t) = Single
    BY <1>1 DEF Single
  <1>2. CASE Program(t) = Pair("middle", "left")
    BY <1>2 DEF Pair
  <1>3. CASE Program(t) = Pair("left", "middle")
    BY <1>3 DEF Pair
  <1>4. CASE Program(t) = Nested("right", "middle", "left")
    BY <1>4 DEF Nested
  <1>5. CASE Program(t) = Nested("middle", "left", "right")
    BY <1>5 DEF Nested
  <1>6. CASE Program(t) = Nested("left", "right", "middle")
    BY <1>6 DEF Nested
  <1>7. QED BY <1>1, <1>2, <1>3, <1>4, <1>5, <1>6, Shapes

-----------------------------------------------------------------------------
(***************************************************************************)
(* Type correctness.                                                       *)
(***************************************************************************)
LEMMA TargetType ==
  ASSUME TypeOK, NEW t \in Threads
  PROVE  /\ pc[t] \in 1 .. Len(Program(t)) /\ pc[t] \in Nat
         /\ Instr(t).op \in Ops
         /\ Instr(t).role \in Roles
         /\ Instr(t) = [op |-> Instr(t).op, role |-> Instr(t).role]
         /\ Target(t) \in Threads
         /\ Target(t) = At(t, pc[t])
         /\ Amount(Instr(t).role) \in Nat
  <1>1. pc[t] \in 1 .. Len(Program(t)) /\ pc[t] \in Nat
    BY DEF TypeOK
  <1>2. /\ Instr(t).op \in Ops
        /\ Instr(t).role \in Roles
        /\ Instr(t) = [op |-> Instr(t).op, role |-> Instr(t).role]
    BY <1>1, Instructions DEF Instr
  <1>3. Target(t) \in Threads /\ Target(t) = At(t, pc[t])
    BY <1>2, NeighboursOfNeighbours DEF Target, At, Instr
  <1>4. Amount(Instr(t).role) \in Nat
    BY <1>2 DEF Amount, Roles
  <1>5. QED BY <1>1, <1>2, <1>3, <1>4

\* What Advance does to the position, and to every other thread: nothing.
Advanced(t) ==
  /\ pc' \in [Threads -> Nat]
  /\ \A u \in Threads : pc'[u] \in 1 .. Len(Program(u))
  /\ round' \in [Threads -> 0 .. Iterations]
  /\ \A u \in Threads : u # t => pc'[u] = pc[u] /\ round'[u] = round[u]
  /\ \/ pc'[t] = pc[t] + 1 /\ round'[t] = round[t]
     \/ pc'[t] = 1 /\ round'[t] = round[t] + 1 /\ pc[t] = Len(Program(t))

LEMMA AdvanceType ==
  ASSUME TypeOK, NEW t \in Threads, ~Finished(t), Advance(t)
  PROVE  Advanced(t)
  <1>1. Len(Program(t)) \in Nat \ {0} /\ Iterations \in Nat
    BY Instructions, IterationsAssumption
  <1>2. /\ pc \in [Threads -> Nat]
        /\ round \in [Threads -> 0 .. Iterations]
        /\ \A u \in Threads : pc[u] \in 1 .. Len(Program(u))
        /\ round[t] # Iterations
    BY DEF TypeOK, Finished
  <1>3. CASE pc[t] < Len(Program(t))
    <2>1. pc' = [pc EXCEPT ![t] = pc[t] + 1] /\ round' = round
      BY <1>3 DEF Advance
    <2>2. pc' \in [Threads -> Nat] /\ pc'[t] = pc[t] + 1
      BY <1>2, <2>1
    <2>3. pc'[t] \in 1 .. Len(Program(t))
      BY <1>1, <1>2, <1>3, <2>2
    <2>4. \A u \in Threads : u # t => pc'[u] = pc[u]
      BY <1>2, <2>1
    <2>5. QED BY <1>2, <2>1, <2>2, <2>3, <2>4 DEF Advanced
  <1>4. CASE ~(pc[t] < Len(Program(t)))
    <2>1. /\ pc' = [pc EXCEPT ![t] = 1]
          /\ round' = [round EXCEPT ![t] = round[t] + 1]
      BY <1>4 DEF Advance
    <2>2. pc' \in [Threads -> Nat] /\ pc'[t] = 1
      BY <1>2, <2>1
    <2>3. pc'[t] \in 1 .. Len(Program(t)) /\ pc[t] = Len(Program(t))
      BY <1>1, <1>2, <1>4, <2>2
    <2>4. round' \in [Threads -> 0 .. Iterations] /\ round'[t] = round[t] + 1
      BY <1>1, <1>2, <2>1
    <2>5. \A u \in Threads : u # t => pc'[u] = pc[u] /\ round'[u] = round[u]
      BY <1>2, <2>1
    <2>6. QED BY <1>2, <2>2, <2>3, <2>4, <2>5 DEF Advanced
  <1>5. QED BY <1>3, <1>4

LEMMA TypeInit == Init => TypeOK
  <1> SUFFICES ASSUME Init PROVE TypeOK
    OBVIOUS
  <1>1. \A t \in Threads : pc[t] \in 1 .. Len(Program(t))
    BY Instructions DEF Init
  <1>2. QED BY <1>1, CountAssumption, IterationsAssumption DEF Init, TypeOK

LEMMA TypeStep == TypeOK /\ [Next]_vars => TypeOK'
  <1> SUFFICES ASSUME TypeOK, [Next]_vars PROVE TypeOK'
    OBVIOUS
  <1> USE CountAssumption
  <1>1. CASE UNCHANGED vars
    BY <1>1 DEF vars, main, TypeOK
  <1>2. ASSUME NEW t \in Threads, Lock(t) PROVE TypeOK'
    <2>1. Advanced(t)
      BY <1>2, AdvanceType DEF Lock, Executes
    <2>2. owner' \in [Threads -> Threads \cup {Free}]
      BY <1>2 DEF Lock, TypeOK
    <2>3. QED BY <1>2, <2>1, <2>2 DEF Lock, TypeOK, Advanced, main
  <1>3. ASSUME NEW t \in Threads, Load(t) PROVE TypeOK'
    <2>1. reg' \in [Threads -> Nat] /\ loaded' \in [Threads -> BOOLEAN]
      BY <1>3, TargetType DEF Load, TypeOK
    <2>2. QED BY <1>3, <2>1 DEF Load, TypeOK, main
  <1>4. ASSUME NEW t \in Threads, Store(t) PROVE TypeOK'
    <2>1. Advanced(t)
      BY <1>4, AdvanceType DEF Store, Executes
    <2>2. buffer' \in [Threads -> Nat] /\ loaded' \in [Threads -> BOOLEAN]
      <3>1. reg[t] \in Nat /\ Amount(Instr(t).role) \in Nat
        BY TargetType DEF TypeOK
      <3>2. reg[t] + Amount(Instr(t).role) \in Nat
        BY <3>1
      <3>3. QED BY <1>4, <3>2 DEF Store, TypeOK
    <2>3. QED BY <1>4, <2>1, <2>2 DEF Store, TypeOK, Advanced, main
  <1>5. ASSUME NEW t \in Threads, Unlock(t) PROVE TypeOK'
    <2>1. Advanced(t)
      BY <1>5, AdvanceType DEF Unlock, Executes
    <2>2. owner' \in [Threads -> Threads \cup {Free}]
      BY <1>5 DEF Unlock, TypeOK
    <2>3. QED BY <1>5, <2>1, <2>2 DEF Unlock, TypeOK, Advanced, main
  <1>6. CASE Create
    BY <1>6 DEF Create, TypeOK
  <1>7. CASE Join
    BY <1>7 DEF Join, TypeOK
  <1>8. CASE PrintCell
    <2>1. printed \in Seq(Nat) /\ Len(printed) \in Nat /\ Len(printed) < Count
      BY <1>8 DEF PrintCell, TypeOK
    <2>2. Len(printed) \in Threads
      BY <2>1 DEF Threads
    <2>3. buffer[Len(printed)] \in Nat
      BY <2>2 DEF TypeOK
    <2>4. printed' \in Seq(Nat) /\ Len(printed') = Len(printed) + 1
      BY <1>8, <2>1, <2>3 DEF PrintCell
    <2>5. QED BY <1>8, <2>1, <2>4 DEF PrintCell, TypeOK
  <1>9. CASE Return
    BY <1>1, <1>9 DEF Return
  <1>10. QED
    BY <1>1, <1>2, <1>3, <1>4, <1>5, <1>6, <1>7, <1>8, <1>9
       DEF Next, MainStep, ThreadStep

(* The threads of inf19-3.c stay inside their programs, their cells and    *)
(* mutexes keep their types, and main joins only threads it has created.   *)
THEOREM TypeCorrect == Spec => []TypeOK
  BY TypeInit, TypeStep, PTL DEF Spec

-----------------------------------------------------------------------------
(***************************************************************************)
(* Mutual exclusion and the sums.  First what a step of thread t does to   *)
(* the two functions of the position the invariant is stated with.         *)
(***************************************************************************)
LEMMA HeldAfter ==
  ASSUME TypeOK, NEW t \in Threads, Advanced(t), NEW m \in Threads
  PROVE  m \in HeldAt(t, pc'[t]) <=> m \in HeldAt(t, pc[t] + 1)
  <1>1. CASE pc'[t] = pc[t] + 1
    BY <1>1
  <1>2. CASE pc'[t] = 1 /\ pc[t] = Len(Program(t))
    BY <1>2, HeldAtStart, Discipline DEF WellDisciplined
  <1>3. QED BY <1>1, <1>2 DEF Advanced

LEMMA HeldChange ==
  ASSUME TypeOK, NEW t \in Threads, Advanced(t), NEW m \in Threads
  PROVE  /\ Instr(t).op = "lock" =>
              (m \in HeldAt(t, pc'[t]) <=> m \in HeldAt(t, pc[t]) \/ m = Target(t))
         /\ Instr(t).op = "unlock" =>
              (m \in HeldAt(t, pc'[t]) <=> m \in HeldAt(t, pc[t]) /\ m # Target(t))
         /\ Instr(t).op = "add" =>
              (m \in HeldAt(t, pc'[t]) <=> m \in HeldAt(t, pc[t]))
  <1>1. HeldStep(t, pc[t], pc[t] + 1, m)
    BY TargetType, HeldSteps DEF Follows
  <1>2. QED BY <1>1, HeldAfter, TargetType DEF HeldStep, Instr

LEMMA AddedChange ==
  ASSUME TypeOK, NEW t \in Threads, Advanced(t),
         NEW u \in Threads, NEW role \in Roles
  PROVE  /\ Added(u, role) \in Nat
         /\ Added(u, role)' = IF u = t /\ Instr(t) = AddTo(role)
                              THEN Added(u, role) + 1 ELSE Added(u, role)
  <1>1. Added(u, role) \in Nat
    BY IterationsAssumption DEF TypeOK, Added
  <1>2. CASE u # t
    BY <1>1, <1>2 DEF Advanced, Added
  <1>3. CASE u = t
    <2>0. /\ pc[t] \in 1 .. Len(Program(t)) /\ pc[t] \in Nat
          /\ Len(Program(t)) \in Nat /\ round[t] \in Nat
      BY TargetType, Instructions, IterationsAssumption DEF TypeOK
    <2>1. PICK k \in 1 .. Len(Program(t)) :
            /\ Program(t)[k] = AddTo(role)
            /\ \A j \in 1 .. Len(Program(t)) : Program(t)[j] = AddTo(role) => j = k
      BY AddsOnce DEF AddsEachOnce
    <2>2. AddedBefore(t, pc[t], role) <=> k < pc[t]
      BY <2>0, <2>1 DEF AddedBefore
    <2>3. Instr(t) = AddTo(role) <=> pc[t] = k
      BY <2>0, <2>1 DEF Instr
    <2>4. CASE pc'[t] = pc[t] + 1 /\ round'[t] = round[t]
      <3>1. AddedBefore(t, pc'[t], role) <=> k <= pc[t]
        BY <2>0, <2>1, <2>4 DEF AddedBefore
      <3>2. QED BY <1>3, <2>0, <2>2, <2>3, <2>4, <3>1 DEF Added
    <2>5. CASE pc'[t] = 1 /\ round'[t] = round[t] + 1 /\ pc[t] = Len(Program(t))
      <3>1. ~AddedBefore(t, pc'[t], role)
        BY <2>5 DEF AddedBefore
      <3>2. k <= pc[t]
        BY <2>0, <2>5
      <3>3. QED BY <1>3, <2>0, <2>2, <2>3, <2>5, <3>1, <3>2 DEF Added
    <2>6. QED BY <1>1, <2>4, <2>5 DEF Advanced
  <1>4. QED BY <1>1, <1>2, <1>3

\* A thread that may add to a cell owns the mutex that guards the cell.
LEMMA GuardOwned ==
  ASSUME TypeOK, OwnershipMatchesCode, NEW t \in Threads, Instr(t).op = "add"
  PROVE  Guard(Target(t)) \in Threads /\ owner[Guard(Target(t))] = t
  <1>1. Guard(Target(t)) \in HeldAt(t, pc[t])
    BY TargetType, Discipline DEF WellDisciplined, Disciplined, Instr
  <1>2. Guard(Target(t)) \in Threads
    BY TargetType, CountAssumption DEF Guard, Threads
  <1>3. QED BY <1>1, <1>2 DEF OwnershipMatchesCode

LEMMA OneAdderPerCell ==
  ASSUME TypeOK, OwnershipMatchesCode, NEW s \in Threads, NEW t \in Threads,
         Instr(s).op = "add", Instr(t).op = "add", Target(s) = Target(t)
  PROVE  s = t
  BY GuardOwned

\* The thread that adds to cell c in a role.
Source(c, role) ==
  [middle |-> c, left |-> Cell(c, "right"), right |-> Cell(c, "left")][role]

LEMMA SourceOf ==
  ASSUME NEW c \in Threads, NEW role \in Roles
  PROVE  /\ Source(c, role) \in Threads
         /\ \A t \in Threads : t = Source(c, role) <=> Cell(t, role) = c
  <1>1. /\ Source(c, "middle") = c
        /\ Source(c, "left") = Cell(c, "right")
        /\ Source(c, "right") = Cell(c, "left")
    BY DEF Source
  <1>2. Source(c, role) \in Threads
    BY <1>1, NeighboursOfNeighbours, Neighbours DEF Roles
  <1>3. CASE role = "middle"
    BY <1>1, <1>2, <1>3, Neighbours
  <1>4. CASE role = "left"
    BY <1>1, <1>2, <1>4, NeighboursOfNeighbours DEF Roles
  <1>5. CASE role = "right"
    BY <1>1, <1>2, <1>5, NeighboursOfNeighbours DEF Roles
  <1>6. QED BY <1>2, <1>3, <1>4, <1>5 DEF Roles

LEMMA CellsBySource ==
  CellsAddUp <=>
    \A c \in Threads :
      buffer[c] = 100 * Added(Source(c, "middle"), "middle")
                + 99 * Added(Source(c, "left"), "left")
                + 101 * Added(Source(c, "right"), "right")
  BY DEF CellsAddUp, Amount, Source

LEMMA IInvInit == Init => IInv
  <1> SUFFICES ASSUME Init PROVE IInv
    OBVIOUS
  <1>1. TypeOK
    BY TypeInit
  <1>2. ControlOK
    BY CountAssumption DEF Init, ControlOK, Threads
  <1>3. OwnershipMatchesCode
    BY HeldAtStart DEF Init, OwnershipMatchesCode, Free, Threads
  <1>4. NoLostUpdate
    BY DEF Init, NoLostUpdate
  <1>5. CellsAddUp
    <2>1. \A t \in Threads, role \in Roles : Added(t, role) = 0
      BY DEF Init, Added, AddedBefore
    <2>2. \A c \in Threads : buffer[c] = 0
      BY DEF Init
    <2>3. QED BY <2>1, <2>2, SourceOf, CellsBySource DEF Roles
  <1>6. PrintedTotals
    BY DEF Init, PrintedTotals
  <1>7. QED BY <1>1, <1>2, <1>3, <1>4, <1>5, <1>6 DEF IInv

(***************************************************************************)
(* What a step that advances thread t, and touches neither another thread  *)
(* nor main, keeps of the control part.                                    *)
(***************************************************************************)
LEMMA ControlKept ==
  ASSUME TypeOK, ControlOK, NEW t \in Threads, ~Finished(t), Advanced(t),
         UNCHANGED main, loaded'[t] = FALSE,
         \A u \in Threads : u # t => loaded'[u] = loaded[u]
  PROVE  ControlOK'
  <1>1. ASSUME NEW u \in Threads PROVE (Finished(u) => pc[u] = 1)'
    <2>1. CASE u = t
      BY <2>1, IterationsAssumption DEF Advanced, Finished, TypeOK
    <2>2. CASE u # t
      BY <2>2 DEF Advanced, Finished, ControlOK
    <2>3. QED BY <2>1, <2>2
  <1>2. ASSUME NEW u \in Threads
        PROVE  (loaded[u] => ~Finished(u) /\ Instr(u).op = "add")'
    <2>1. CASE u = t
      BY <2>1
    <2>2. CASE u # t
      BY <2>2 DEF Advanced, Finished, ControlOK, Instr
    <2>3. QED BY <2>1, <2>2
  <1>3. ASSUME NEW u \in Threads PROVE (u < joined => Finished(u))'
    BY DEF Advanced, Finished, ControlOK, main
  <1>4. (printed # <<>> => joined = Count)'
    BY DEF ControlOK, main
  <1>5. QED BY <1>1, <1>2, <1>3, <1>4 DEF ControlOK

\* Other threads' targets do not move.
LEMMA TargetsKept ==
  ASSUME NEW t \in Threads, Advanced(t), NEW u \in Threads, u # t
  PROVE  Target(u)' = Target(u)
  BY DEF Advanced, Target, Instr

\* A step that adds nothing keeps the sums.
LEMMA SumsKept ==
  ASSUME TypeOK, CellsAddUp, NEW t \in Threads, Advanced(t),
         Instr(t).op # "add", UNCHANGED buffer
  PROVE  CellsAddUp'
  <1>1. \A u \in Threads, role \in Roles : Added(u, role)' = Added(u, role)
    BY AddedChange DEF AddTo
  <1>2. QED BY <1>1, NeighboursOfNeighbours DEF CellsAddUp, Roles

LEMMA LockKeepsIInv ==
  ASSUME IInv, NEW t \in Threads, Lock(t)
  PROVE  IInv'
  <1> USE DEF IInv
  <1>1. /\ Instr(t).op = "lock" /\ ~Finished(t) /\ Advanced(t)
        /\ owner[Target(t)] = Free
        /\ owner' = [owner EXCEPT ![Target(t)] = t]
        /\ UNCHANGED <<main, loaded, reg, buffer>>
    BY AdvanceType DEF Lock, Executes
  <1>2. TypeOK'
    BY TypeStep DEF Next, ThreadStep
  <1>3. ~loaded[t]
    BY <1>1 DEF ControlOK
  <1>4. ControlOK'
    BY <1>1, <1>3, ControlKept DEF TypeOK
  <1>5. OwnershipMatchesCode'
    <2> SUFFICES ASSUME NEW u \in Threads, NEW m \in Threads
                 PROVE  owner'[m] = u <=> m \in HeldAt(u, pc'[u])
      BY DEF OwnershipMatchesCode
    <2>1. owner[m] = u <=> m \in HeldAt(u, pc[u])
      BY DEF OwnershipMatchesCode
    <2>2. owner'[m] = IF m = Target(t) THEN t ELSE owner[m]
      BY <1>1 DEF TypeOK
    <2>3. CASE u = t
      BY <1>1, <2>1, <2>2, <2>3, HeldChange
    <2>4. CASE u # t
      BY <1>1, <2>1, <2>2, <2>4 DEF Advanced, Free, Threads
    <2>5. QED BY <2>3, <2>4
  <1>6. NoLostUpdate'
    BY <1>1, <1>3, TargetsKept DEF NoLostUpdate
  <1>7. CellsAddUp'
    BY <1>1, SumsKept
  <1>8. PrintedTotals'
    BY <1>1 DEF PrintedTotals, main
  <1>9. QED BY <1>2, <1>4, <1>5, <1>6, <1>7, <1>8

LEMMA UnlockKeepsIInv ==
  ASSUME IInv, NEW t \in Threads, Unlock(t)
  PROVE  IInv'
  <1> USE DEF IInv
  <1>1. /\ Instr(t).op = "unlock" /\ ~Finished(t) /\ Advanced(t)
        /\ owner' = [owner EXCEPT ![Target(t)] = Free]
        /\ UNCHANGED <<main, loaded, reg, buffer>>
    BY AdvanceType DEF Unlock, Executes
  <1>2. TypeOK'
    BY TypeStep DEF Next, ThreadStep
  <1>3. ~loaded[t]
    BY <1>1 DEF ControlOK
  <1>4. ControlOK'
    BY <1>1, <1>3, ControlKept DEF TypeOK
  <1>5. OwnershipMatchesCode'
    <2> SUFFICES ASSUME NEW u \in Threads, NEW m \in Threads
                 PROVE  owner'[m] = u <=> m \in HeldAt(u, pc'[u])
      BY DEF OwnershipMatchesCode
    <2>0. owner[Target(t)] = t
      <3>1. Target(t) \in HeldAt(t, pc[t])
        BY <1>1, TargetType, Discipline DEF WellDisciplined, Disciplined, Instr
      <3>2. QED BY <3>1, TargetType DEF OwnershipMatchesCode
    <2>1. owner[m] = u <=> m \in HeldAt(u, pc[u])
      BY DEF OwnershipMatchesCode
    <2>2. owner'[m] = IF m = Target(t) THEN Free ELSE owner[m]
      BY <1>1 DEF TypeOK
    <2>3. u # Free
      BY DEF Free, Threads
    <2>4. CASE u = t
      BY <1>1, <2>1, <2>2, <2>3, <2>4, HeldChange
    <2>5. CASE u # t
      BY <1>1, <2>0, <2>1, <2>2, <2>3, <2>5 DEF Advanced
    <2>6. QED BY <2>4, <2>5
  <1>6. NoLostUpdate'
    BY <1>1, <1>3, TargetsKept DEF NoLostUpdate
  <1>7. CellsAddUp'
    BY <1>1, SumsKept
  <1>8. PrintedTotals'
    BY <1>1 DEF PrintedTotals, main
  <1>9. QED BY <1>2, <1>4, <1>5, <1>6, <1>7, <1>8

LEMMA LoadKeepsIInv ==
  ASSUME IInv, NEW t \in Threads, Load(t)
  PROVE  IInv'
  <1> USE DEF IInv
  <1>1. /\ Instr(t).op = "add" /\ ~Finished(t)
        /\ reg' = [reg EXCEPT ![t] = buffer[Target(t)]]
        /\ loaded' = [loaded EXCEPT ![t] = TRUE]
        /\ UNCHANGED <<main, pc, round, owner, buffer>>
    BY DEF Load, Executes
  <1>2. TypeOK'
    BY TypeStep DEF Next, ThreadStep
  <1>3. ControlOK'
    BY <1>1 DEF TypeOK, ControlOK, Finished, Instr, main
  <1>4. OwnershipMatchesCode'
    BY <1>1 DEF OwnershipMatchesCode
  <1>5. NoLostUpdate'
    BY <1>1 DEF TypeOK, NoLostUpdate, Target, Instr
  <1>6. CellsAddUp'
    BY <1>1 DEF CellsAddUp, Added
  <1>7. PrintedTotals'
    BY <1>1 DEF PrintedTotals, main
  <1>8. QED BY <1>2, <1>3, <1>4, <1>5, <1>6, <1>7

LEMMA StoreKeepsIInv ==
  ASSUME IInv, NEW t \in Threads, Store(t)
  PROVE  IInv'
  <1> USE DEF IInv
  <1>1. /\ Instr(t).op = "add" /\ ~Finished(t) /\ Advanced(t) /\ loaded[t]
        /\ buffer' = [buffer EXCEPT ![Target(t)] = reg[t] + Amount(Instr(t).role)]
        /\ loaded' = [loaded EXCEPT ![t] = FALSE]
        /\ UNCHANGED <<main, reg, owner>>
    BY AdvanceType DEF Store, Executes
  <1>2. TypeOK'
    BY TypeStep DEF Next, ThreadStep
  <1>3. ControlOK'
    <2>1. /\ loaded'[t] = FALSE
          /\ \A u \in Threads : u # t => loaded'[u] = loaded[u]
      BY <1>1 DEF TypeOK
    <2>2. QED BY <1>1, <2>1, ControlKept
  <1>4. OwnershipMatchesCode'
    <2> SUFFICES ASSUME NEW u \in Threads, NEW m \in Threads
                 PROVE  owner'[m] = u <=> m \in HeldAt(u, pc'[u])
      BY DEF OwnershipMatchesCode
    <2>1. owner[m] = u <=> m \in HeldAt(u, pc[u])
      BY DEF OwnershipMatchesCode
    <2>2. CASE u = t
      BY <1>1, <2>1, <2>2, HeldChange
    <2>3. CASE u # t
      BY <1>1, <2>1, <2>3 DEF Advanced
    <2>4. QED BY <2>2, <2>3
  <1>5. NoLostUpdate'
    <2> SUFFICES ASSUME NEW u \in Threads, loaded'[u]
                 PROVE  reg'[u] = buffer'[Target(u)']
      BY DEF NoLostUpdate
    <2>1. u # t /\ loaded[u]
      BY <1>1 DEF TypeOK
    <2>2. Target(u)' = Target(u) /\ reg[u] = buffer[Target(u)]
      BY <1>1, <2>1, TargetsKept DEF NoLostUpdate
    <2>3. Target(u) # Target(t)
      BY <1>1, <2>1, OneAdderPerCell DEF ControlOK
    <2>4. buffer'[Target(u)] = buffer[Target(u)]
      BY <1>1, <2>3, TargetType DEF TypeOK
    <2>5. QED BY <1>1, <2>2, <2>4
  <1>6. CellsAddUp'
    <2> DEFINE r == Instr(t).role
    <2>1. /\ r \in Roles /\ Target(t) \in Threads /\ Target(t) = Cell(t, r)
          /\ Instr(t) = [op |-> "add", role |-> r]
      BY <1>1, TargetType DEF Target
    <2>2. \A role \in Roles : Instr(t) = AddTo(role) <=> role = r
      BY <2>1 DEF AddTo
    <2>3. \A c \in Threads : buffer'[c] = IF c = Target(t)
                                          THEN buffer[c] + Amount(r) ELSE buffer[c]
      BY <1>1, <2>1 DEF TypeOK, NoLostUpdate
    <2> HIDE DEF r
    <2> SUFFICES ASSUME NEW c \in Threads
                 PROVE  buffer'[c] = 100 * Added(Source(c, "middle"), "middle")'
                                   + 99 * Added(Source(c, "left"), "left")'
                                   + 101 * Added(Source(c, "right"), "right")'
      BY DEF CellsAddUp, Amount, Source
    <2>4. ASSUME NEW role \in Roles
          PROVE  /\ Added(Source(c, role), role) \in Nat
                 /\ Added(Source(c, role), role)' =
                      IF c = Target(t) /\ role = r
                      THEN Added(Source(c, role), role) + 1
                      ELSE Added(Source(c, role), role)
      <3>1. Source(c, role) \in Threads
        BY SourceOf
      <3>2. role = r => (Source(c, role) = t <=> c = Target(t))
        BY <2>1, SourceOf
      <3>3. QED BY <1>1, <2>2, <3>1, <3>2, AddedChange
    <2>5. /\ buffer[c] = 100 * Added(Source(c, "middle"), "middle")
                       + 99 * Added(Source(c, "left"), "left")
                       + 101 * Added(Source(c, "right"), "right")
          /\ buffer[c] \in Nat
      BY CellsBySource DEF TypeOK
    <2>6. "middle" \in Roles /\ "left" \in Roles /\ "right" \in Roles
      BY DEF Roles
    <2>7. CASE r = "middle"
      <3>1. Amount(r) = 100
        BY <2>7 DEF Amount
      <3>2. QED BY <2>3, <2>4, <2>5, <2>6, <2>7, <3>1
    <2>8. CASE r = "left"
      <3>1. Amount(r) = 99
        BY <2>8 DEF Amount
      <3>2. QED BY <2>3, <2>4, <2>5, <2>6, <2>8, <3>1
    <2>9. CASE r = "right"
      <3>1. Amount(r) = 101
        BY <2>9 DEF Amount
      <3>2. QED BY <2>3, <2>4, <2>5, <2>6, <2>9, <3>1
    <2>10. QED BY <2>1, <2>7, <2>8, <2>9 DEF Roles
  <1>7. PrintedTotals'
    BY <1>1 DEF PrintedTotals, main
  <1>8. QED BY <1>2, <1>3, <1>4, <1>5, <1>6, <1>7

LEMMA MainKeepsIInv ==
  ASSUME IInv, MainStep
  PROVE  IInv'
  <1> USE DEF IInv
  <1>1. TypeOK'
    BY TypeStep DEF Next
  <1>2. UNCHANGED <<pc, round, loaded, reg, owner, buffer>>
    BY DEF MainStep, Create, Join, PrintCell
  <1>3. OwnershipMatchesCode' /\ NoLostUpdate' /\ CellsAddUp'
    BY <1>2 DEF OwnershipMatchesCode, NoLostUpdate, CellsAddUp, Added, Target, Instr
  <1>4. /\ (\A t \in Threads : Finished(t) => pc[t] = 1)'
        /\ (\A t \in Threads : loaded[t] => ~Finished(t) /\ Instr(t).op = "add")'
    BY <1>2 DEF ControlOK, Finished, Instr
  <1>5. CASE Create
    BY <1>1, <1>3, <1>4, <1>5 DEF Create, ControlOK, Finished, PrintedTotals
  <1>6. CASE Join
    <2>0. /\ joined \in Nat /\ joined < Count /\ joined' = joined + 1
          /\ Finished(joined) /\ Count \in Nat
          /\ UNCHANGED <<spawned, printed>>
      BY <1>6, CountAssumption DEF Join, TypeOK
    <2>1. printed = <<>>
      BY <2>0 DEF ControlOK
    <2>2. (\A t \in Threads : t < joined => Finished(t))'
      <3> SUFFICES ASSUME NEW t \in Threads, t < joined + 1 PROVE Finished(t)'
        BY <2>0
      <3>1. t < joined \/ t = joined
        BY <2>0 DEF Threads
      <3>2. QED BY <1>2, <2>0, <3>1 DEF ControlOK, Finished
    <2>3. QED
      BY <1>1, <1>3, <1>4, <1>6, <2>1, <2>2 DEF Join, ControlOK, PrintedTotals
  <1>7. CASE PrintCell
    <2>1. /\ printed \in Seq(Nat) /\ Len(printed) \in Nat /\ Len(printed) < Count
          /\ joined = Count /\ UNCHANGED joined
          /\ printed' = Append(printed, buffer[Len(printed)])
      BY <1>7 DEF PrintCell, TypeOK
    <2>2. Len(printed) \in Threads
      BY <2>1, CountAssumption DEF Threads
    <2>3. \A t \in Threads, role \in Roles : Added(t, role) = Iterations
      <3>1. \A t \in Threads : Finished(t) /\ pc[t] = 1
        BY <2>1, CountAssumption DEF ControlOK, Threads
      <3>2. QED BY <3>1, IterationsAssumption DEF Added, AddedBefore, Finished
    <2>4. buffer[Len(printed)] = 300 * Iterations
      BY <2>2, <2>3, SourceOf, CellsBySource, IterationsAssumption DEF Roles
    <2>5. PrintedTotals'
      BY <2>1, <2>2, <2>4 DEF PrintedTotals, TypeOK
    <2>6. (\A t \in Threads : t < joined => Finished(t))'
      BY <1>2, <2>1 DEF ControlOK, Finished
    <2>7. QED BY <1>1, <1>3, <1>4, <2>1, <2>5, <2>6 DEF ControlOK
  <1>8. QED BY <1>5, <1>6, <1>7 DEF MainStep

THEOREM IInvStep == IInv /\ [Next]_vars => IInv'
  <1> SUFFICES ASSUME IInv, [Next]_vars PROVE IInv'
    OBVIOUS
  <1>1. CASE UNCHANGED vars
    <2>1. TypeOK'
      BY <1>1, TypeStep DEF IInv
    <2>2. QED
      BY <1>1, <2>1 DEF vars, main, IInv, ControlOK, OwnershipMatchesCode,
         NoLostUpdate, CellsAddUp, PrintedTotals, Added, Target, Instr, Finished
  <1>2. CASE Next
    BY <1>1, <1>2, MainKeepsIInv, LockKeepsIInv, UnlockKeepsIInv, LoadKeepsIInv,
       StoreKeepsIInv DEF Next, ThreadStep, Return
  <1>3. QED BY <1>1, <1>2

LEMMA Invariance == Spec => []IInv
  BY IInvInit, IInvStep, PTL DEF Spec

(* A mutex of inf19-3.c is owned by a thread exactly between its lock and  *)
(* its unlock, for every number of threads and iterations.                 *)
THEOREM Ownership == Spec => []OwnershipMatchesCode
  BY Invariance, PTL DEF IInv

(* No two threads are in the middle of "+=" on the same cell.              *)
THEOREM MutualExclusion == Spec => []NoConcurrentUpdate
  <1>1. IInv => NoConcurrentUpdate
    BY OneAdderPerCell DEF IInv, NoConcurrentUpdate, ControlOK
  <1>2. QED BY <1>1, Invariance, PTL

(* No addition is lost, and main prints 3 * iterations for every cell.     *)
THEOREM Totals == Spec => [](CellsAddUp /\ PrintedTotals)
  BY Invariance, PTL DEF IInv

-----------------------------------------------------------------------------
(***************************************************************************)
(* Deadlock.  Along a chain "u waits for a mutex that v holds" the rank of *)
(* the mutex waited for grows, except at the seam; ranks are below 6, so   *)
(* no chain of waiting threads closes away from the seam.                  *)
(***************************************************************************)
AtSeam(v) ==
  /\ Count % 3 = 1 /\ Count > 1 /\ v = Count - 1
  /\ ~Finished(v) /\ Blocked(v) /\ Target(v) = 0
  /\ v \in HeldAt(v, pc[v]) /\ 0 \notin HeldAt(v, pc[v])

LEMMA RankBound == \A m : Rank(m) \in 0 .. 5
  BY DEF Rank

LEMMA WaitChain ==
  ASSUME IInv, NEW u \in Threads, ~Finished(u), Blocked(u),
         \A v \in Threads : ~Finished(v) => Blocked(v),
         \A v \in Threads : ~AtSeam(v)
  PROVE  \E v \in Threads : ~Finished(v) /\ Rank(Target(u)) < Rank(Target(v))
  <1> USE DEF IInv
  <1>1. Target(u) \in Threads /\ owner[Target(u)] \in Threads
    BY TargetType DEF Blocked, TypeOK
  <1>2. PICK v \in Threads : owner[Target(u)] = v
    BY <1>1
  <1>3. Target(u) \in HeldAt(v, pc[v])
    BY <1>1, <1>2 DEF OwnershipMatchesCode
  <1>4. ~Finished(v)
    BY <1>3, HeldAtStart DEF ControlOK
  <1>5. Blocked(v) /\ Instr(v).op = "lock"
    BY <1>4 DEF Blocked
  <1>6. /\ pc[v] \in 1 .. Len(Program(v)) /\ Target(v) = At(v, pc[v])
        /\ Program(v)[pc[v]].op = "lock"
    BY <1>5, TargetType DEF Instr
  <1>7. Disciplined(v, pc[v])
    BY <1>6, Discipline DEF WellDisciplined
  <1>8. /\ Target(v) \notin HeldAt(v, pc[v])
        /\ \/ Seam(v, pc[v]) /\ v \in HeldAt(v, pc[v])
           \/ \A h \in Threads : h \in HeldAt(v, pc[v]) => Rank(h) < Rank(Target(v))
    BY <1>6, <1>7 DEF Disciplined
  <1>9. ~(Seam(v, pc[v]) /\ v \in HeldAt(v, pc[v]))
    BY <1>4, <1>5, <1>6, <1>8 DEF Seam, AtSeam
  <1>10. QED BY <1>1, <1>3, <1>4, <1>8, <1>9

LEMMA StuckMeansSeam ==
  ASSUME IInv, ~NoCircularWait
  PROVE  \E v \in Threads : AtSeam(v)
  <1> SUFFICES ASSUME \A v \in Threads : ~AtSeam(v) PROVE FALSE
    OBVIOUS
  <1>1. PICK t \in Threads : ~Finished(t)
    BY DEF NoCircularWait
  <1>2. \A v \in Threads : ~Finished(v) => Blocked(v)
    BY DEF NoCircularWait
  <1> DEFINE Below(k) == \A v \in Threads : ~Finished(v) => Rank(Target(v)) < k
  <1>3. Below(6)
    BY RankBound
  <1>4. ASSUME NEW k \in 1 .. 6, Below(k) PROVE Below(k - 1)
    <2> SUFFICES ASSUME NEW u \in Threads, ~Finished(u)
                 PROVE  Rank(Target(u)) < k - 1
      OBVIOUS
    <2>1. PICK v \in Threads : ~Finished(v) /\ Rank(Target(u)) < Rank(Target(v))
      BY <1>2, WaitChain
    <2>2. Rank(Target(v)) < k
      BY <1>4, <2>1
    <2>3. QED BY <2>1, <2>2, RankBound
  <1> HIDE DEF Below
  <1>5. Below(5)
    BY <1>3, <1>4
  <1>6. Below(4)
    BY <1>4, <1>5
  <1>7. Below(3)
    BY <1>4, <1>6
  <1>8. Below(2)
    BY <1>4, <1>7
  <1>9. Below(1)
    BY <1>4, <1>8
  <1>10. Below(0)
    BY <1>4, <1>9
  <1>11. QED BY <1>1, <1>10, RankBound DEF Below

LEMMA HoldersOfZero ==
  ASSUME NEW w \in Threads, NEW p, 0 \in HeldAt(w, p), Count > 1,
         p \in 1 .. Len(Program(w))
  PROVE  w \in {0, 1, Count - 1}
  <1>1. PICK k \in 1 .. p - 1 : Cell(w, Program(w)[k].role) = 0
    BY DEF HeldAt, Touches
  <1>2. Program(w)[k].role \in Roles
    <2>1. Len(Program(w)) \in Nat
      BY Instructions
    <2>2. k \in 1 .. Len(Program(w))
      BY <2>1
    <2>3. QED BY <2>2, Instructions
  <1>3. QED BY <1>1, <1>2, Neighbours, CountAssumption DEF Roles, Threads

(* The threads of inf19-3.c can only get stuck when Count % 3 = 1, and     *)
(* then only with the last thread holding its own mutex and waiting for    *)
(* mutex 0, which thread 0 or 1 holds.                                     *)
THEOREM DeadlockOnlyAtSeam == Spec => []StuckOnlyAtSeam
  <1>1. IInv => StuckOnlyAtSeam
    <2> SUFFICES ASSUME IInv, ~NoCircularWait PROVE StuckOnlyAtSeam
      BY DEF StuckOnlyAtSeam
    <2>1. PICK v \in Threads : AtSeam(v)
      BY StuckMeansSeam
    <2>2. owner[Count - 1] = Count - 1
      BY <2>1 DEF AtSeam, IInv, OwnershipMatchesCode
    <2>3. owner[0] \in Threads
      <3>1. owner[0] # Free
        BY <2>1 DEF AtSeam, Blocked
      <3>2. owner \in [Threads -> Threads \cup {Free}] /\ 0 \in Threads
        BY CountAssumption DEF IInv, TypeOK, Threads
      <3>3. QED BY <3>1, <3>2
    <2>4. PICK w \in Threads : owner[0] = w
      BY <2>3
    <2>5. 0 \in HeldAt(w, pc[w])
      BY <2>4, CountAssumption DEF IInv, OwnershipMatchesCode, Threads
    <2>6. w # Count - 1
      BY <2>1, <2>5 DEF AtSeam
    <2>7. w \in {0, 1}
      BY <2>1, <2>5, <2>6, HoldersOfZero DEF AtSeam, IInv, TypeOK
    <2>8. QED BY <2>1, <2>2, <2>4, <2>7 DEF StuckOnlyAtSeam, StuckAtSeam, AtSeam
  <1>2. QED BY <1>1, Invariance, PTL

(* Unless Count % 3 = 1, the threads of inf19-3.c never deadlock.          *)
THEOREM DeadlockFreedom ==
  ASSUME Count % 3 # 1 \/ Count = 1
  PROVE  Spec => []NoCircularWait
  <1>1. StuckOnlyAtSeam => NoCircularWait
    BY DEF StuckOnlyAtSeam, StuckAtSeam
  <1>2. QED BY <1>1, DeadlockOnlyAtSeam, PTL
-----------------------------------------------------------------------------
(***************************************************************************)
(* inf19-0.c, for n threads and m iterations.  Mutex 0 is taken by every   *)
(* thread before it adds, so it keeps the additions apart although the     *)
(* flags and the other mutexes do not; and a neighbour of cell 0 takes it  *)
(* twice, so it never gets there and main waits for it.                    *)
(***************************************************************************)
\* The neighbour whose mutex is taken before, or after, the other one's.
Before(right) == IF right THEN "right" ELSE "left"
After(right) == IF right THEN "left" ELSE "right"

Sides == {"left", "right"}
Is(instr, op, place) == instr.op = op /\ instr.place = place

\* The instructions of a thread by their positions.
LEMMA BusyTable ==
  ASSUME NEW n, NEW m, NEW right \in BOOLEAN
  PROVE  LET p == H(n, m)!Busy(right)
         IN  /\ Len(p) = 17
             /\ Is(p[1], "test", "own") /\ Is(p[2], "lock", "first") /\ Is(p[3], "set", "own")
             /\ Is(p[4], "test", "right") /\ Is(p[5], "lock", Before(right))
             /\ p[6].op = "set" /\ Is(p[7], "lock", After(right)) /\ p[8].op = "set"
             /\ p[6].place \in Sides /\ p[8].place \in Sides
             /\ p[12].place \in Sides /\ p[14].place \in Sides
             /\ Is(p[9], "add", "own") /\ Is(p[10], "add", "left") /\ Is(p[11], "add", "right")
             /\ p[12].op = "clear" /\ Is(p[13], "unlock", After(right))
             /\ p[14].op = "clear" /\ Is(p[15], "unlock", Before(right))
             /\ Is(p[16], "clear", "own") /\ Is(p[17], "unlock", "first")
<1>1. CASE right
  BY <1>1 DEF H!Busy, H!Take, H!Give, H!Adds, H!Instr, Before, After, Is, Sides
<1>2. CASE ~right
  BY <1>2 DEF H!Busy, H!Take, H!Give, H!Adds, H!Instr, Before, After, Is, Sides
<1>3. QED BY <1>1, <1>2

LEMMA IdleTable ==
  ASSUME NEW n, NEW m, NEW right \in BOOLEAN
  PROVE  LET p == H(n, m)!Idle(right)
         IN  /\ Len(p) = 17
             /\ Is(p[1], "test", "own") /\ Is(p[2], "test", "right")
             /\ Is(p[3], "lock", Before(right)) /\ p[4].op = "set"
             /\ Is(p[5], "lock", After(right)) /\ p[6].op = "set"
             /\ Is(p[7], "lock", "first") /\ p[8].op = "set"
             /\ p[4].place \in Sides /\ p[6].place \in Sides
             /\ p[14].place \in Sides /\ p[16].place \in Sides
             /\ p[8].place = "own" /\ p[12].place = "own"
             /\ Is(p[9], "add", "own") /\ Is(p[10], "add", "left") /\ Is(p[11], "add", "right")
             /\ p[12].op = "clear" /\ Is(p[13], "unlock", "first")
             /\ p[14].op = "clear" /\ Is(p[15], "unlock", After(right))
             /\ p[16].op = "clear" /\ Is(p[17], "unlock", Before(right))
<1>1. CASE right
  BY <1>1 DEF H!Idle, H!Take, H!Give, H!Adds, H!Instr, Before, After, Is, Sides
<1>2. CASE ~right
  BY <1>2 DEF H!Idle, H!Take, H!Give, H!Adds, H!Instr, Before, After, Is, Sides
<1>3. QED BY <1>1, <1>2

\* What a thread does where it is, and with which mutex or cell.
LEMMA CurrentFacts ==
  ASSUME NEW n, NEW m, NEW i,
         path[i] \in [own : BOOLEAN, right : BOOLEAN],
         at[i] \in 1 .. Len(H(n, m)!Program(path[i]))
  PROVE  LET c == H(n, m)!Current(i)
             a == Before(path[i].right)
             b == After(path[i].right)
         IN  /\ Len(H(n, m)!Program(path[i])) = 17 /\ at[i] \in 1 .. 17
             /\ c.op = "test" =>
                  \/ at[i] = 1 /\ c.place = "own"
                  \/ at[i] = (IF path[i].own THEN 4 ELSE 2) /\ c.place = "right"
             /\ c.op = "add" => at[i] \in 9 .. 11 /\ c.place \in {"own", "left", "right"}
             /\ c.op = "lock" =>
                  \/ at[i] = (IF path[i].own THEN 2 ELSE 7) /\ c.place = "first"
                  \/ at[i] = (IF path[i].own THEN 5 ELSE 3) /\ c.place = a
                  \/ at[i] = (IF path[i].own THEN 7 ELSE 5) /\ c.place = b
             /\ c.op = "unlock" =>
                  \/ at[i] = (IF path[i].own THEN 17 ELSE 13) /\ c.place = "first"
                  \/ at[i] = (IF path[i].own THEN 13 ELSE 15) /\ c.place = b
                  \/ at[i] = (IF path[i].own THEN 15 ELSE 17) /\ c.place = a
             /\ c.op \in {"set", "clear"} =>
                  at[i] \in {IF path[i].own THEN 3 ELSE 4, 6, 8, 12, 14, 16}
             /\ c.place \in {"first", "own", "left", "right"}
<1> DEFINE right == path[i].right
           p == H(n, m)!Program(path[i])
<1>1. right \in BOOLEAN /\ path[i].own \in BOOLEAN
  OBVIOUS
<1>2. H(n, m)!Current(i) = p[at[i]] /\ at[i] \in 1 .. Len(p)
  BY DEF H!Current
<1>3. CASE path[i].own
  <2>1. p = H(n, m)!Busy(right)
    BY <1>3 DEF H!Program
  <2>0. Len(H(n, m)!Busy(right)) = 17
    BY <1>1, BusyTable
  <2>2. at[i] \in 1 .. 17 /\ Len(p) = 17
    <3>1. Len(p) = 17
      BY <2>0, <2>1
    <3>2. QED BY <1>2, <3>1
  <2> HIDE DEF p, right
  <2>3. \A q \in 1 .. 17 :
          q \in {1, 2, 3, 4, 5, 6} \/ q \in {7, 8, 9, 10, 11, 12} \/ q \in {13, 14, 15, 16, 17}
    OBVIOUS
  <2>4. CASE at[i] \in {1, 2, 3, 4, 5, 6}
    BY <1>1, <1>2, <1>3, <2>1, <2>2, <2>4, BusyTable DEF p, right, Is, Sides, Before, After
  <2>5. CASE at[i] \in {7, 8, 9, 10, 11, 12}
    BY <1>1, <1>2, <1>3, <2>1, <2>2, <2>5, BusyTable DEF p, right, Is, Sides, Before, After
  <2>6. CASE at[i] \in {13, 14, 15, 16, 17}
    BY <1>1, <1>2, <1>3, <2>1, <2>2, <2>6, BusyTable DEF p, right, Is, Sides, Before, After
  <2>7. QED BY <2>2, <2>3, <2>4, <2>5, <2>6
<1>4. CASE ~path[i].own
  <2>1. p = H(n, m)!Idle(right)
    BY <1>4 DEF H!Program
  <2>0. Len(H(n, m)!Idle(right)) = 17
    BY <1>1, IdleTable
  <2>2. at[i] \in 1 .. 17 /\ Len(p) = 17
    <3>1. Len(p) = 17
      BY <2>0, <2>1
    <3>2. QED BY <1>2, <3>1
  <2> HIDE DEF p, right
  <2>3. \A q \in 1 .. 17 :
          q \in {1, 2, 3, 4, 5, 6} \/ q \in {7, 8, 9, 10, 11, 12} \/ q \in {13, 14, 15, 16, 17}
    OBVIOUS
  <2>4. CASE at[i] \in {1, 2, 3, 4, 5, 6}
    BY <1>1, <1>2, <1>4, <2>1, <2>2, <2>4, IdleTable DEF p, right, Is, Sides, Before, After
  <2>5. CASE at[i] \in {7, 8, 9, 10, 11, 12}
    BY <1>1, <1>2, <1>4, <2>1, <2>2, <2>5, IdleTable DEF p, right, Is, Sides, Before, After
  <2>6. CASE at[i] \in {13, 14, 15, 16, 17}
    BY <1>1, <1>2, <1>4, <2>1, <2>2, <2>6, IdleTable DEF p, right, Is, Sides, Before, After
  <2>7. QED BY <2>2, <2>3, <2>4, <2>5, <2>6
<1>5. QED BY <1>3, <1>4

\* The mutex at arg->mut is mutex 0, and thread 1 has cell 0 on its left.
LEMMA Places ==
  ASSUME NEW n \in Nat \ {0}, NEW m, NEW i \in 0 .. n - 1
  PROVE  /\ \A p \in {"first", "own", "left", "right"} : H(n, m)!Place(i, p) \in 0 .. n - 1
         /\ H(n, m)!Place(i, "first") = 0 /\ H(n, m)!Place(i, "own") = i
         /\ i = 1 % n => H(n, m)!Place(i, "left") = 0
<1> DEFINE P(p) == H(n, m)!Place(i, p)
<1>1. /\ P("first") = 0 /\ P("own") = i
      /\ P("left") = (i - 1 + n) % n /\ P("right") = (1 + i) % n
  BY DEF H!Place
<1>2. (i - 1 + n) % n \in 0 .. n - 1 /\ (1 + i) % n \in 0 .. n - 1
  OBVIOUS
<1>3. ASSUME i = 1 % n PROVE P("left") = 0
  <2>1. CASE n = 1
    BY <1>1, <1>2, <2>1
  <2>2. CASE n # 1
    <3>1. i = 1
      BY <1>3, <2>2, ModBelow
    <3>2. (0 + n) % n = 0
      BY ModBelow
    <3>3. QED BY <1>1, <3>1, <3>2
  <2>3. QED BY <2>1, <2>2
<1>4. QED BY <1>1, <1>2, <1>3

\* The first and the second of the two neighbours' mutexes is mutex 0.
First(n, m, i) == H(n, m)!Place(i, Before(path[i].right)) = 0
Second(n, m, i) == H(n, m)!Place(i, After(path[i].right)) = 0

\* Between its first lock of mutex 0 and its unlock of it.
HoldsZero(n, m, i) ==
  IF path[i].own THEN at[i] >= 3
  ELSE \/ at[i] \in 8 .. 13
       \/ First(n, m, i) /\ at[i] >= 4
       \/ Second(n, m, i) /\ at[i] >= 6

\* Mutex 0 is held by the thread that has come past a lock of it.
ZeroHeld(n, m) == \A i \in 0 .. n - 1 : HoldsZero(n, m, i) => mut[0] = i

\* A neighbour of cell 0 does not come past its second lock of mutex 0.
NeighboursHalt(n, m) ==
  \A i \in 0 .. n - 1 : First(n, m, i) \/ Second(n, m, i) =>
    /\ at[i] <= 7 /\ turn[i] = 0
    /\ path[i].own /\ First(n, m, i) => at[i] <= 5

\* What a thread has read is still in the cell, and it is about to add to it.
ReadIsFresh(n, m) ==
  \A i \in 0 .. n - 1 : reading[i] # -1 =>
    at[i] \in 9 .. 11 /\ reading[i] = buf[H(n, m)!Target(i)]

\* The threads main has joined have done their iterations.
JoinedFinished(n, m) == \A i \in 0 .. n - 1 : i < waited => turn[i] = m

\* The inductive invariant.
HintsInv(n, m) ==
  /\ H(n, m)!TypeOK
  /\ ZeroHeld(n, m) /\ NeighboursHalt(n, m) /\ ReadIsFresh(n, m) /\ JoinedFinished(n, m)
  /\ H(n, m)!NeverPrints

LEMMA HintsInit ==
  ASSUME NEW n \in Nat \ {0}, NEW m \in Nat, H(n, m)!Init
  PROVE  HintsInv(n, m)
<1> DEFINE p == [own |-> FALSE, right |-> FALSE]
<1>1. H(n, m)!Program(p) = H(n, m)!Idle(FALSE)
  BY DEF H!Program
<1>2. Len(H(n, m)!Idle(FALSE)) = 17
  BY IdleTable
<1>3. \A i \in 0 .. n - 1 : path[i] = p /\ at[i] = 1 /\ turn[i] = 0 /\ reading[i] = -1
  BY DEF H!Init, H!Indices, H!None
<1>4. p \in [own : BOOLEAN, right : BOOLEAN] /\ Len(H(n, m)!Program(p)) = 17
  BY <1>1, <1>2
<1>5. H(n, m)!TypeOK
  <2>1. shown = <<>> /\ shown \in Seq(Nat) /\ Len(shown) = 0
    BY DEF H!Init
  <2>2. /\ path \in [0 .. n - 1 -> [own : BOOLEAN, right : BOOLEAN]]
        /\ at \in [0 .. n - 1 -> Nat]
        /\ \A i \in 0 .. n - 1 : at[i] \in 1 .. Len(H(n, m)!Program(path[i]))
    <3>1. path = [i \in 0 .. n - 1 |-> p] /\ at = [i \in 0 .. n - 1 |-> 1]
      BY DEF H!Init, H!Indices, p
    <3>2. path \in [0 .. n - 1 -> [own : BOOLEAN, right : BOOLEAN]]
      <4> HIDE DEF p
      <4> QED BY <1>4, <3>1
    <3>3. at \in [0 .. n - 1 -> Nat]
      BY <3>1
    <3>4. \A i \in 0 .. n - 1 : at[i] \in 1 .. Len(H(n, m)!Program(path[i]))
      <4> TAKE i \in 0 .. n - 1
      <4>1. path[i] = p /\ at[i] = 1
        BY <1>3
      <4>2. Len(H(n, m)!Program(path[i])) = 17
        <5> HIDE DEF p
        <5> QED BY <1>4, <4>1, Zenon
      <4>3. at[i] = 1
        BY <4>1
      <4>4. QED BY <4>2, <4>3
    <3>5. QED BY <3>2, <3>3, <3>4
  <2>3. QED BY <2>1, <2>2 DEF H!TypeOK, H!Init, H!Indices, H!None, H!Free
<1>6. ZeroHeld(n, m) /\ NeighboursHalt(n, m) /\ ReadIsFresh(n, m) /\ JoinedFinished(n, m)
  <2>2. \A i \in 0 .. n - 1 : ~HoldsZero(n, m, i)
    BY <1>3 DEF HoldsZero
  <2>3. waited = 0
    BY DEF H!Init
  <2>4. \A i \in 0 .. n - 1 : ~path[i].own
    BY <1>3
  <2> HIDE DEF p
  <2>5. ZeroHeld(n, m)
    BY <2>2 DEF ZeroHeld
  <2>6. NeighboursHalt(n, m)
    BY <1>3, <2>4 DEF NeighboursHalt
  <2>7. ReadIsFresh(n, m)
    BY <1>3 DEF ReadIsFresh
  <2>8. JoinedFinished(n, m)
    BY <2>3 DEF JoinedFinished
  <2>9. QED BY <2>5, <2>6, <2>7, <2>8
<1>7. QED BY <1>5, <1>6 DEF HintsInv, H!NeverPrints, H!Init

\* Both branches have as many instructions.
LEMMA ProgramLength ==
  ASSUME NEW n, NEW m, NEW x \in [own : BOOLEAN, right : BOOLEAN]
  PROVE  Len(H(n, m)!Program(x)) = 17
<1>1. x.own \in BOOLEAN /\ x.right \in BOOLEAN
  OBVIOUS
<1>2. Len(H(n, m)!Busy(x.right)) = 17
  BY <1>1, BusyTable
<1>3. Len(H(n, m)!Idle(x.right)) = 17
  BY <1>1, IdleTable
<1>4. QED BY <1>1, <1>2, <1>3 DEF H!Program

\* What any step of a thread does to its counters, and that it leaves the others alone.
LEMMA ThreadFrame ==
  ASSUME NEW n \in Nat \ {0}, NEW m \in Nat, H(n, m)!TypeOK,
         NEW i \in 0 .. n - 1, H(n, m)!Thread(i)
  PROVE  /\ i < created /\ turn[i] # m /\ UNCHANGED <<created, waited, shown>>
         /\ at[i] \in 1 .. 17 /\ at \in [0 .. n - 1 -> Nat] /\ turn \in [0 .. n - 1 -> 0 .. m]
         /\ \/ /\ reading[i] = -1 /\ H(n, m)!Current(i).op = "add"
               /\ UNCHANGED <<at, turn>>
            \/ /\ at' = [at EXCEPT ![i] = IF at[i] < 17 THEN at[i] + 1 ELSE 1]
               /\ turn' = [turn EXCEPT ![i] = IF at[i] < 17 THEN turn[i] ELSE turn[i] + 1]
<1>1. /\ at[i] \in 1 .. 17 /\ at \in [0 .. n - 1 -> Nat] /\ turn \in [0 .. n - 1 -> 0 .. m]
      /\ Len(H(n, m)!Program(path[i])) = 17
      /\ path[i] \in [own : BOOLEAN, right : BOOLEAN]
      /\ at[i] \in 1 .. Len(H(n, m)!Program(path[i]))
  <2>1. path[i] \in [own : BOOLEAN, right : BOOLEAN]
    BY DEF H!TypeOK, H!Indices
  <2>2. Len(H(n, m)!Program(path[i])) = 17
    BY <2>1, ProgramLength
  <2>3. /\ at[i] \in 1 .. Len(H(n, m)!Program(path[i])) /\ at \in [0 .. n - 1 -> Nat]
        /\ turn \in [0 .. n - 1 -> 0 .. m]
    BY DEF H!TypeOK, H!Indices
  <2>4. QED BY <2>1, <2>2, <2>3
<1>2. ASSUME NEW op, H(n, m)!Executes(i, op)
      PROVE  i < created /\ turn[i] # m /\ UNCHANGED <<created, waited, shown>>
             /\ H(n, m)!Current(i).op = op
  BY <1>2 DEF H!Executes, H!Finished
<1>3. ASSUME H(n, m)!Advance(i)
      PROVE  /\ at' = [at EXCEPT ![i] = IF at[i] < 17 THEN at[i] + 1 ELSE 1]
             /\ turn' = [turn EXCEPT ![i] = IF at[i] < 17 THEN turn[i] ELSE turn[i] + 1]
  BY <1>1, <1>3 DEF H!Advance
<1>4. CASE H(n, m)!Test(i)
  <2>1. H(n, m)!Executes(i, "test") /\ at' = [at EXCEPT ![i] = @ + 1] /\ turn' = turn
    BY <1>4 DEF H!Test
  <2>2. H(n, m)!Current(i).op = "test"
    BY <1>2, <2>1
  <2>3. at[i] = 1 \/ at[i] = (IF path[i].own THEN 4 ELSE 2)
    <3>1. /\ path[i] \in [own : BOOLEAN, right : BOOLEAN]
          /\ at[i] \in 1 .. Len(H(n, m)!Program(path[i]))
      BY <1>1
    <3>2. QED BY <2>2, <3>1, CurrentFacts
  <2>4. at[i] < 17
    BY <2>3
  <2>5. QED BY <1>1, <1>2, <2>1, <2>4
<1>5. CASE H(n, m)!Lock(i)
  BY <1>1, <1>2, <1>3, <1>5 DEF H!Lock
<1>6. CASE H(n, m)!Unlock(i)
  BY <1>1, <1>2, <1>3, <1>6 DEF H!Unlock
<1>7. CASE H(n, m)!SetFlag(i)
  BY <1>1, <1>2, <1>3, <1>7 DEF H!SetFlag
<1>8. CASE H(n, m)!Load(i)
  BY <1>1, <1>2, <1>8 DEF H!Load, H!None
<1>9. CASE H(n, m)!Store(i)
  BY <1>1, <1>2, <1>3, <1>9 DEF H!Store
<1>10. QED BY <1>4, <1>5, <1>6, <1>7, <1>8, <1>9 DEF H!Thread

\* The types of what the thread is about to do.
LEMMA CurrentOf ==
  ASSUME NEW n \in Nat \ {0}, NEW m, H(n, m)!TypeOK, NEW i \in 0 .. n - 1
  PROVE  /\ path[i] \in [own : BOOLEAN, right : BOOLEAN] /\ at[i] \in 1 .. 17
         /\ at[i] \in 1 .. Len(H(n, m)!Program(path[i]))
         /\ H(n, m)!Target(i) \in 0 .. n - 1
<1>1. /\ path[i] \in [own : BOOLEAN, right : BOOLEAN]
      /\ at[i] \in 1 .. Len(H(n, m)!Program(path[i]))
  BY DEF H!TypeOK, H!Indices
<1>2. H(n, m)!Current(i).place \in {"first", "own", "left", "right"} /\ at[i] \in 1 .. 17
  BY <1>1, CurrentFacts
<1>3. QED BY <1>1, <1>2, Places DEF H!Target

LEMMA HintsTypes ==
  ASSUME NEW n \in Nat \ {0}, NEW m \in Nat, HintsInv(n, m), [H(n, m)!Next]_(H(n, m)!vars)
  PROVE  H(n, m)!TypeOK' /\ JoinedFinished(n, m)' /\ H(n, m)!NeverPrints'
<1> DEFINE Seen == [own : BOOLEAN, right : BOOLEAN]
<1>1. /\ created \in 0 .. n /\ waited \in 0 .. created
      /\ shown \in Seq(Nat) /\ Len(shown) <= n
      /\ path \in [0 .. n - 1 -> Seen]
      /\ at \in [0 .. n - 1 -> Nat]
      /\ turn \in [0 .. n - 1 -> 0 .. m]
      /\ reading \in [0 .. n - 1 -> Nat \cup {-1}]
      /\ lock \in [0 .. n - 1 -> {0, 1}] /\ mut \in [0 .. n - 1 -> 0 .. n - 1 \cup {-1}]
      /\ buf \in [0 .. n - 1 -> Nat]
  BY DEF HintsInv, H!TypeOK, H!Indices, H!Free, H!None
<1>2. \A i \in 0 .. n - 1 : at[i] \in 1 .. 17
  BY CurrentOf DEF HintsInv
<1>3. /\ \A i \in 0 .. n - 1 : i < waited => turn[i] = m
      /\ m > 0 => shown = <<>>
  BY DEF HintsInv, JoinedFinished, H!NeverPrints
<1>4. SUFFICES /\ created' \in 0 .. n /\ waited' \in 0 .. created'
               /\ shown' \in Seq(Nat) /\ Len(shown') <= n
               /\ path' \in [0 .. n - 1 -> Seen]
               /\ at' \in [0 .. n - 1 -> Nat] /\ \A i \in 0 .. n - 1 : at'[i] \in 1 .. 17
               /\ turn' \in [0 .. n - 1 -> 0 .. m]
               /\ reading' \in [0 .. n - 1 -> Nat \cup {-1}]
               /\ lock' \in [0 .. n - 1 -> {0, 1}]
               /\ mut' \in [0 .. n - 1 -> 0 .. n - 1 \cup {-1}]
               /\ buf' \in [0 .. n - 1 -> Nat]
               /\ \A i \in 0 .. n - 1 : i < waited' => turn'[i] = m
               /\ m > 0 => shown' = <<>>
  <2>1. ASSUME path' \in [0 .. n - 1 -> Seen], NEW i \in 0 .. n - 1
        PROVE  Len(H(n, m)!Program(path'[i])) = 17
    <3>1. path'[i] \in Seen
      BY <2>1
    <3>2. QED BY <3>1, ProgramLength
  <2>2. QED BY <2>1 DEF H!TypeOK, H!Indices, H!Free, H!None, JoinedFinished, H!NeverPrints
<1>5. CASE UNCHANGED H(n, m)!vars
  BY <1>1, <1>2, <1>3, <1>5 DEF H!vars, H!threads
<1>6. CASE H(n, m)!Create
  <2>1. created < n /\ created' = created + 1
        /\ UNCHANGED <<waited, shown, at, turn, path, reading, lock, mut, buf>>
    BY <1>6 DEF H!Create, H!threads
  <2>2. created' \in 0 .. n /\ waited' \in 0 .. created'
    BY <1>1, <2>1
  <2> HIDE DEF Seen
  <2>3. QED BY <1>1, <1>2, <1>3, <2>1, <2>2
<1>7. CASE H(n, m)!Join
  <2>1. created = n /\ waited < n /\ turn[waited] = m /\ waited' = waited + 1
        /\ UNCHANGED <<created, shown, at, turn, path, reading, lock, mut, buf>>
    BY <1>7 DEF H!Join, H!threads, H!Finished
  <2>2. waited \in Nat /\ waited' = waited + 1 /\ turn[waited] = m /\ turn' = turn
    BY <1>1, <2>1
  <2>3. \A i \in 0 .. n - 1 : i < waited + 1 => i < waited \/ i = waited
    BY <2>2
  <2>4. \A i \in 0 .. n - 1 : i < waited' => turn'[i] = m
    BY <1>3, <2>2, <2>3
  <2>5. created' \in 0 .. n /\ waited' \in 0 .. created'
    BY <1>1, <2>1
  <2> HIDE DEF Seen
  <2>6. QED BY <1>1, <1>2, <1>3, <2>1, <2>4, <2>5
<1>8. CASE H(n, m)!PrintCell
  <2>1. waited = n /\ Len(shown) < n /\ shown' = Append(shown, buf[Len(shown)])
        /\ UNCHANGED <<created, waited, at, turn, path, reading, lock, mut, buf>>
    BY <1>8 DEF H!PrintCell, H!threads
  <2>2. Len(shown) \in 0 .. n - 1
    BY <1>1, <2>1
  <2>3. shown' \in Seq(Nat) /\ Len(shown') = Len(shown) + 1
    BY <1>1, <2>1, <2>2
  <2>4. m = 0
    <3>1. 1 % n \in 0 .. n - 1
      OBVIOUS
    <3>2. H(n, m)!Place(1 % n, "left") = 0
      BY <3>1, Places
    <3>3. First(n, m, 1 % n) \/ Second(n, m, 1 % n)
      BY <3>2 DEF First, Second, Before, After
    <3>4. turn[1 % n] = 0
      BY <3>1, <3>3 DEF HintsInv, NeighboursHalt
    <3>5. turn[1 % n] = m
      BY <1>3, <2>1, <3>1
    <3>6. QED BY <3>4, <3>5
  <2>5. Len(shown') <= n /\ \A j \in 0 .. n - 1 : j < waited' => turn'[j] = m
    BY <1>3, <2>1, <2>2, <2>3
  <2> HIDE DEF Seen
  <2>6. QED BY <1>1, <1>2, <2>1, <2>3, <2>4, <2>5
<1>9. ASSUME NEW i \in 0 .. n - 1, H(n, m)!Thread(i)
      PROVE  /\ created' \in 0 .. n /\ waited' \in 0 .. created'
             /\ shown' \in Seq(Nat) /\ Len(shown') <= n
             /\ path' \in [0 .. n - 1 -> Seen]
             /\ at' \in [0 .. n - 1 -> Nat] /\ \A j \in 0 .. n - 1 : at'[j] \in 1 .. 17
             /\ turn' \in [0 .. n - 1 -> 0 .. m]
             /\ reading' \in [0 .. n - 1 -> Nat \cup {-1}]
             /\ lock' \in [0 .. n - 1 -> {0, 1}]
             /\ mut' \in [0 .. n - 1 -> 0 .. n - 1 \cup {-1}]
             /\ buf' \in [0 .. n - 1 -> Nat]
             /\ \A j \in 0 .. n - 1 : j < waited' => turn'[j] = m
             /\ m > 0 => shown' = <<>>
  <2>0. H(n, m)!TypeOK
    BY DEF HintsInv
  <2>1. /\ i < created /\ turn[i] # m /\ UNCHANGED <<created, waited, shown>>
        /\ at[i] \in 1 .. 17 /\ at \in [0 .. n - 1 -> Nat] /\ turn \in [0 .. n - 1 -> 0 .. m]
        /\ \/ UNCHANGED <<at, turn>>
           \/ /\ at' = [at EXCEPT ![i] = IF at[i] < 17 THEN at[i] + 1 ELSE 1]
              /\ turn' = [turn EXCEPT ![i] = IF at[i] < 17 THEN turn[i] ELSE turn[i] + 1]
    BY <1>9, <2>0, ThreadFrame
  <2>2. /\ at' \in [0 .. n - 1 -> Nat] /\ \A j \in 0 .. n - 1 : at'[j] \in 1 .. 17
        /\ turn' \in [0 .. n - 1 -> 0 .. m]
        /\ \A j \in 0 .. n - 1 : j # i => turn'[j] = turn[j]
    <3>1. CASE UNCHANGED <<at, turn>>
      BY <1>2, <2>1, <3>1
    <3>2. CASE /\ at' = [at EXCEPT ![i] = IF at[i] < 17 THEN at[i] + 1 ELSE 1]
               /\ turn' = [turn EXCEPT ![i] = IF at[i] < 17 THEN turn[i] ELSE turn[i] + 1]
      <4>0. at[i] \in 1 .. 17
        BY <2>1
      <4>1. (IF at[i] < 17 THEN at[i] + 1 ELSE 1) \in 1 .. 17
        BY <4>0
      <4>2. (IF at[i] < 17 THEN turn[i] ELSE turn[i] + 1) \in 0 .. m
        BY <2>1
      <4>3. /\ at' \in [0 .. n - 1 -> Nat] /\ \A j \in 0 .. n - 1 : at'[j] \in 1 .. 17
        <5> DEFINE next == IF at[i] < 17 THEN at[i] + 1 ELSE 1
        <5>1. at' = [at EXCEPT ![i] = next] /\ next \in 1 .. 17 /\ at \in [0 .. n - 1 -> Nat]
          BY <2>1, <3>2, <4>1
        <5> HIDE DEF next
        <5>2. QED BY <1>2, <5>1
      <4>4. QED BY <2>1, <3>2, <4>2, <4>3
    <3>3. QED BY <2>1, <3>1, <3>2
  <2>3. \A j \in 0 .. n - 1 : j < waited' => turn'[j] = m
    BY <1>1, <1>3, <2>1, <2>2
  <2>4. H(n, m)!Target(i) \in 0 .. n - 1
        /\ path[i] \in Seen /\ at[i] \in 1 .. Len(H(n, m)!Program(path[i]))
    BY <2>0, CurrentOf
  <2>5. /\ H(n, m)!Current(i).op = "test" => H(n, m)!Current(i).place \in {"own", "right"}
        /\ H(n, m)!Current(i).op = "add" => H(n, m)!Current(i).place \in {"own", "left", "right"}
    BY <2>4, CurrentFacts
  <2>6. /\ path' \in [0 .. n - 1 -> Seen] /\ lock' \in [0 .. n - 1 -> {0, 1}]
        /\ reading' \in [0 .. n - 1 -> Nat \cup {-1}]
        /\ mut' \in [0 .. n - 1 -> 0 .. n - 1 \cup {-1}]
        /\ buf' \in [0 .. n - 1 -> Nat]
    <3>1. CASE H(n, m)!Test(i)
      <4>1. /\ path' = [path EXCEPT ![i][H(n, m)!Current(i).place] =
                                        (lock[H(n, m)!Target(i)] = 1)]
            /\ UNCHANGED <<reading, lock, mut, buf>> /\ H(n, m)!Current(i).op = "test"
        BY <3>1 DEF H!Test, H!Executes
      <4>2. CASE H(n, m)!Current(i).place = "own"
        BY <1>1, <2>4, <4>1, <4>2
      <4>3. CASE H(n, m)!Current(i).place = "right"
        BY <1>1, <2>4, <4>1, <4>3
      <4>4. QED BY <1>1, <2>5, <4>1, <4>2, <4>3
    <3>2. CASE H(n, m)!Lock(i)
      BY <1>1, <2>4, <3>2 DEF H!Lock
    <3>3. CASE H(n, m)!Unlock(i)
      BY <1>1, <2>4, <3>3 DEF H!Unlock, H!Free
    <3>4. CASE H(n, m)!SetFlag(i)
      BY <1>1, <2>4, <3>4 DEF H!SetFlag
    <3>5. CASE H(n, m)!Load(i)
      BY <1>1, <2>4, <3>5 DEF H!Load
    <3>6. CASE H(n, m)!Store(i)
      <4>1. H(n, m)!Amount(H(n, m)!Current(i).place) \in Nat
        BY <2>5, <3>6 DEF H!Store, H!Executes, H!Amount
      <4>2. reading[i] \in Nat
        BY <1>1, <3>6 DEF H!Store, H!None
      <4>3. reading[i] + H(n, m)!Amount(H(n, m)!Current(i).place) \in Nat
        BY <4>1, <4>2
      <4>4. QED BY <1>1, <2>4, <3>6, <4>3 DEF H!Store, H!None
    <3>7. QED BY <1>9, <3>1, <3>2, <3>3, <3>4, <3>5, <3>6 DEF H!Thread
  <2>7. QED BY <1>1, <1>3, <2>1, <2>2, <2>3, <2>6
<1>10. QED BY <1>5, <1>6, <1>7, <1>8, <1>9 DEF H!Next, H!Indices

\* Mutex 0 stays as it is, or the thread takes it, or gives it back; and a neighbour of
\* cell 0 does not get beyond its second lock of it.
LEMMA ZeroStep ==
  ASSUME NEW n \in Nat \ {0}, NEW m \in Nat, HintsInv(n, m),
         NEW i \in 0 .. n - 1, H(n, m)!Thread(i)
  PROVE  /\ \/ mut'[0] = mut[0] /\ (HoldsZero(n, m, i)' => HoldsZero(n, m, i))
            \/ mut[0] = -1 /\ mut'[0] = i
            \/ mut[0] = i /\ ~HoldsZero(n, m, i)'
         /\ First(n, m, i)' \/ Second(n, m, i)' =>
              /\ at'[i] <= 7 /\ turn'[i] = 0
              /\ path'[i].own /\ First(n, m, i)' => at'[i] <= 5
<1> DEFINE own == path[i].own
           right == path[i].right
           a == Before(right)
           b == After(right)
           op == H(n, m)!Current(i).op
           place == H(n, m)!Current(i).place
           F == First(n, m, i)
           S == Second(n, m, i)
           Next1 == IF at[i] < 17 THEN at[i] + 1 ELSE 1
<1>1. /\ path[i] \in [own : BOOLEAN, right : BOOLEAN] /\ at[i] \in 1 .. 17
      /\ at[i] \in 1 .. Len(H(n, m)!Program(path[i]))
      /\ H(n, m)!Target(i) \in 0 .. n - 1
  BY CurrentOf DEF HintsInv
<1>2. own \in BOOLEAN /\ right \in BOOLEAN /\ a \in {"left", "right"} /\ b \in {"left", "right"}
      /\ F \in BOOLEAN /\ S \in BOOLEAN /\ at[i] \in 1 .. 17
  BY <1>1 DEF Before, After, First, Second
<1>3. /\ op = "test" => \/ at[i] = 1 /\ place = "own"
                        \/ at[i] = (IF own THEN 4 ELSE 2) /\ place = "right"
      /\ op = "add" => at[i] \in 9 .. 11
      /\ op = "lock" => \/ at[i] = (IF own THEN 2 ELSE 7) /\ place = "first"
                        \/ at[i] = (IF own THEN 5 ELSE 3) /\ place = a
                        \/ at[i] = (IF own THEN 7 ELSE 5) /\ place = b
      /\ op = "unlock" => \/ at[i] = (IF own THEN 17 ELSE 13) /\ place = "first"
                          \/ at[i] = (IF own THEN 13 ELSE 15) /\ place = b
                          \/ at[i] = (IF own THEN 15 ELSE 17) /\ place = a
      /\ op \in {"set", "clear"} => at[i] \in {IF own THEN 3 ELSE 4, 6, 8, 12, 14, 16}
  BY <1>1, CurrentFacts
<1>4. /\ HoldsZero(n, m, i) <=> IF own THEN at[i] >= 3
                                ELSE at[i] \in 8 .. 13 \/ (F /\ at[i] >= 4) \/ (S /\ at[i] >= 6)
      /\ HoldsZero(n, m, i) => mut[0] = i
      /\ F \/ S => at[i] <= 7 /\ turn[i] = 0
      /\ own /\ F => at[i] <= 5
  BY DEF HoldsZero, HintsInv, ZeroHeld, NeighboursHalt
<1>5. /\ H(n, m)!Target(i) = H(n, m)!Place(i, place)
      /\ H(n, m)!Place(i, "first") = 0
      /\ F <=> H(n, m)!Place(i, a) = 0
      /\ S <=> H(n, m)!Place(i, b) = 0
  BY Places DEF H!Target, First, Second
<1>6. /\ \/ reading[i] = -1 /\ op = "add" /\ at'[i] = at[i] /\ turn'[i] = turn[i]
         \/ at'[i] = Next1 /\ turn'[i] = (IF at[i] < 17 THEN turn[i] ELSE turn[i] + 1)
      /\ mut \in [0 .. n - 1 -> 0 .. n - 1 \cup {-1}]
      /\ path \in [0 .. n - 1 -> [own : BOOLEAN, right : BOOLEAN]]
  <2>1. H(n, m)!TypeOK
    BY DEF HintsInv
  <2>2. /\ mut \in [0 .. n - 1 -> 0 .. n - 1 \cup {-1}]
        /\ path \in [0 .. n - 1 -> [own : BOOLEAN, right : BOOLEAN]]
    BY <2>1 DEF H!TypeOK, H!Indices, H!Free
  <2>3. /\ at \in [0 .. n - 1 -> Nat] /\ turn \in [0 .. n - 1 -> 0 .. m]
        /\ \/ reading[i] = -1 /\ op = "add" /\ UNCHANGED <<at, turn>>
           \/ /\ at' = [at EXCEPT ![i] = Next1]
              /\ turn' = [turn EXCEPT ![i] = IF at[i] < 17 THEN turn[i] ELSE turn[i] + 1]
    BY <2>1, ThreadFrame
  <2> HIDE DEF op, Next1
  <2>4. QED BY <2>2, <2>3
<1>7. CASE H(n, m)!Test(i)
  <2>1. op = "test" /\ mut' = mut /\ at' = [at EXCEPT ![i] = @ + 1]
        /\ path' = [path EXCEPT ![i][place] = (lock[H(n, m)!Target(i)] = 1)]
    BY <1>7 DEF H!Test, H!Executes
  <2>2. path'[i].own \in BOOLEAN /\ (place = "right" => path'[i].own = own)
    <3>1. CASE place = "own"
      BY <1>1, <1>6, <2>1, <3>1
    <3>2. CASE place = "right"
      BY <1>1, <1>6, <2>1, <3>2
    <3>3. QED BY <1>3, <2>1, <3>1, <3>2
  <2>3. at[i] = 1 \/ (place = "right" /\ at[i] = (IF own THEN 4 ELSE 2))
    BY <1>3, <2>1
  <2>4. at'[i] = at[i] + 1 /\ turn'[i] = turn[i]
    BY <1>2, <1>3, <1>6, <2>1, <2>3
  <2>5. First(n, m, i)' \in BOOLEAN /\ Second(n, m, i)' \in BOOLEAN
        /\ (HoldsZero(n, m, i)' <=>
              IF path'[i].own THEN at'[i] >= 3
              ELSE at'[i] \in 8 .. 13 \/ (First(n, m, i)' /\ at'[i] >= 4)
                                      \/ (Second(n, m, i)' /\ at'[i] >= 6))
    BY DEF HoldsZero, First, Second
  <2>6. HoldsZero(n, m, i)' => HoldsZero(n, m, i)
    BY <1>2, <1>4, <2>2, <2>3, <2>4, <2>5
  <2>7. First(n, m, i)' \/ Second(n, m, i)' => F \/ S
    BY <1>2, <2>2 DEF First, Second, Before, After
  <2>8. QED BY <1>2, <1>4, <2>1, <2>2, <2>3, <2>4, <2>6, <2>7
<1>8. ASSUME path' = path
      PROVE  /\ First(n, m, i)' = F /\ Second(n, m, i)' = S /\ path'[i].own = own
             /\ HoldsZero(n, m, i)' <=>
                  IF own THEN at'[i] >= 3
                  ELSE at'[i] \in 8 .. 13 \/ (F /\ at'[i] >= 4) \/ (S /\ at'[i] >= 6)
  BY <1>8 DEF HoldsZero, First, Second
<1>9. CASE H(n, m)!Lock(i)
  <2>1. op = "lock" /\ mut[H(n, m)!Target(i)] = -1 /\ path' = path
        /\ mut' = [mut EXCEPT ![H(n, m)!Target(i)] = i]
    BY <1>9 DEF H!Lock, H!Executes, H!Free
  <2>2. /\ H(n, m)!Target(i) = 0 => mut[0] = -1 /\ mut'[0] = i
        /\ H(n, m)!Target(i) # 0 => mut'[0] = mut[0]
    BY <1>1, <1>6, <2>1
  <2>3. at'[i] = at[i] + 1 /\ turn'[i] = turn[i]
    BY <1>2, <1>3, <1>6, <2>1
  <2> HIDE DEF own, right, a, b, op, place, F, S
  <2>4. CASE place = "first"
    BY <1>2, <1>3, <1>4, <1>5, <1>8, <2>1, <2>2, <2>3, <2>4
  <2>5. CASE place = a /\ at[i] = (IF own THEN 5 ELSE 3)
    BY <1>2, <1>4, <1>5, <1>8, <2>1, <2>2, <2>3, <2>5
  <2>6. CASE place = b /\ at[i] = (IF own THEN 7 ELSE 5)
    BY <1>2, <1>4, <1>5, <1>8, <2>1, <2>2, <2>3, <2>6
  <2>7. QED BY <1>3, <2>1, <2>4, <2>5, <2>6
<1>10. CASE H(n, m)!Unlock(i)
  <2>1. op = "unlock" /\ path' = path /\ mut' = [mut EXCEPT ![H(n, m)!Target(i)] = -1]
    BY <1>10 DEF H!Unlock, H!Executes, H!Free
  <2>2. H(n, m)!Target(i) # 0 => mut'[0] = mut[0]
    BY <1>1, <1>6, <2>1
  <2> HIDE DEF own, right, a, b, op, place, F, S
  <2>3. at[i] \in {13, 15, 17} /\ at'[i] = Next1 /\ ~F /\ ~S
    BY <1>2, <1>3, <1>4, <1>6, <2>1
  <2>4. at'[i] = (IF at[i] = 17 THEN 1 ELSE at[i] + 1)
    BY <2>3
  <2>5. CASE place = "first"
    BY <1>2, <1>3, <1>4, <1>5, <1>8, <2>1, <2>3, <2>4, <2>5
  <2>6. CASE place # "first"
    BY <1>2, <1>3, <1>4, <1>5, <1>8, <2>1, <2>2, <2>3, <2>4, <2>6
  <2>7. QED BY <2>5, <2>6
<1>11. CASE H(n, m)!SetFlag(i)
  <2>1. op \in {"set", "clear"} /\ path' = path /\ mut' = mut
    BY <1>11 DEF H!SetFlag, H!Executes
  <2> HIDE DEF own, right, a, b, op, place, F, S
  <2>2. at[i] \in {IF own THEN 3 ELSE 4, 6, 8, 12, 14, 16} /\ op # "add"
    BY <1>3, <2>1
  <2>3. at'[i] = at[i] + 1 /\ turn'[i] = turn[i]
    BY <1>2, <1>6, <2>2
  <2>4. QED BY <1>2, <1>4, <1>8, <2>1, <2>2, <2>3
<1>12. CASE H(n, m)!Load(i) \/ H(n, m)!Store(i)
  <2>1. op = "add" /\ path' = path /\ mut' = mut
    BY <1>12 DEF H!Load, H!Store, H!Executes
  <2> HIDE DEF own, right, a, b, op, place, F, S
  <2>2. at[i] \in 9 .. 11 /\ ~F /\ ~S /\ (at'[i] = at[i] \/ at'[i] = at[i] + 1)
    BY <1>2, <1>3, <1>4, <1>6, <2>1
  <2>3. QED BY <1>2, <1>4, <1>8, <2>1, <2>2
<1>13. QED BY <1>7, <1>9, <1>10, <1>11, <1>12 DEF H!Thread
\* Whoever adds has mutex 0.
LEMMA AddersHoldZero ==
  ASSUME NEW n, NEW m, ZeroHeld(n, m), NEW i \in 0 .. n - 1, at[i] \in 9 .. 11
  PROVE  mut[0] = i
BY DEF ZeroHeld, HoldsZero

\* No cell is changed between a thread's reading it and writing it back.
LEMMA ReadStep ==
  ASSUME NEW n \in Nat \ {0}, NEW m \in Nat, HintsInv(n, m),
         NEW i \in 0 .. n - 1, H(n, m)!Thread(i),
         \A j \in 0 .. n - 1 \ {i} : at'[j] = at[j] /\ path'[j] = path[j]
  PROVE  ReadIsFresh(n, m)'
<1> DEFINE op == H(n, m)!Current(i).op
<1>1. /\ path[i] \in [own : BOOLEAN, right : BOOLEAN] /\ at[i] \in 1 .. 17
      /\ at[i] \in 1 .. Len(H(n, m)!Program(path[i]))
      /\ \A j \in 0 .. n - 1 : H(n, m)!Target(j) \in 0 .. n - 1
  BY CurrentOf DEF HintsInv
<1>2. /\ reading \in [0 .. n - 1 -> Nat \cup {-1}] /\ buf \in [0 .. n - 1 -> Nat]
      /\ \A j \in 0 .. n - 1 : reading[j] # -1 =>
           at[j] \in 9 .. 11 /\ reading[j] = buf[H(n, m)!Target(j)]
  BY DEF HintsInv, H!TypeOK, H!Indices, H!None, ReadIsFresh
<1>3. op = "add" <=> at[i] \in 9 .. 11
  <2>1. op = "add" => at[i] \in 9 .. 11
    <3>1. /\ path[i] \in [own : BOOLEAN, right : BOOLEAN]
          /\ at[i] \in 1 .. Len(H(n, m)!Program(path[i]))
      BY <1>1
    <3>2. QED BY <3>1, CurrentFacts
  <2>2. op \in {"test", "lock", "unlock", "set", "clear"} => at[i] \notin 9 .. 11
    <3>1. path[i].own \in BOOLEAN /\ at[i] \in 1 .. 17
      BY <1>1
    <3>2. op = "test" => at[i] = 1 \/ at[i] = (IF path[i].own THEN 4 ELSE 2)
      <4>1. /\ path[i] \in [own : BOOLEAN, right : BOOLEAN]
            /\ at[i] \in 1 .. Len(H(n, m)!Program(path[i]))
        BY <1>1
      <4>2. QED BY <4>1, CurrentFacts
    <3>3. op = "lock" => \/ at[i] = (IF path[i].own THEN 2 ELSE 7)
                         \/ at[i] = (IF path[i].own THEN 5 ELSE 3)
                         \/ at[i] = (IF path[i].own THEN 7 ELSE 5)
      <4>1. /\ path[i] \in [own : BOOLEAN, right : BOOLEAN]
            /\ at[i] \in 1 .. Len(H(n, m)!Program(path[i]))
        BY <1>1
      <4>2. QED BY <4>1, CurrentFacts
    <3>4. op = "unlock" => \/ at[i] = (IF path[i].own THEN 17 ELSE 13)
                           \/ at[i] = (IF path[i].own THEN 13 ELSE 15)
                           \/ at[i] = (IF path[i].own THEN 15 ELSE 17)
      <4>1. /\ path[i] \in [own : BOOLEAN, right : BOOLEAN]
            /\ at[i] \in 1 .. Len(H(n, m)!Program(path[i]))
        BY <1>1
      <4>2. QED BY <4>1, CurrentFacts
    <3>5. op \in {"set", "clear"} =>
            at[i] \in {IF path[i].own THEN 3 ELSE 4, 6, 8, 12, 14, 16}
      <4>1. /\ path[i] \in [own : BOOLEAN, right : BOOLEAN]
            /\ at[i] \in 1 .. Len(H(n, m)!Program(path[i]))
        BY <1>1
      <4>2. QED BY <4>1, CurrentFacts
    <3> HIDE DEF op
    <3>6. QED BY <3>1, <3>2, <3>3, <3>4, <3>5
  <2>3. op \in {"add", "test", "lock", "unlock", "set", "clear"}
    BY DEF H!Thread, H!Test, H!Lock, H!Unlock, H!SetFlag, H!Load, H!Store, H!Executes
  <2>4. QED BY <2>1, <2>2, <2>3
<1>4. \A j \in 0 .. n - 1 \ {i} : H(n, m)!Target(j)' = H(n, m)!Target(j)
  BY DEF H!Target, H!Current
<1>5. CASE H(n, m)!Load(i)
  <2>1. op = "add" /\ reading' = [reading EXCEPT ![i] = buf[H(n, m)!Target(i)]]
        /\ UNCHANGED <<at, path, buf>>
    BY <1>5 DEF H!Load, H!Executes
  <2>2. H(n, m)!Target(i)' = H(n, m)!Target(i)
    BY <2>1 DEF H!Target, H!Current
  <2>3. reading'[i] = buf[H(n, m)!Target(i)]
        /\ \A j \in 0 .. n - 1 \ {i} : reading'[j] = reading[j]
    BY <1>2, <2>1
  <2>4. QED BY <1>2, <1>3, <1>4, <2>1, <2>2, <2>3 DEF ReadIsFresh
<1>6. CASE H(n, m)!Store(i)
  <2>1. op = "add" /\ reading' = [reading EXCEPT ![i] = -1]
    BY <1>6 DEF H!Store, H!Executes, H!None
  <2>2. \A j \in 0 .. n - 1 \ {i} : reading[j] = -1
    <3>1. mut[0] = i
      BY <1>3, <2>1, AddersHoldZero DEF HintsInv
    <3>2. \A j \in 0 .. n - 1 : at[j] \in 9 .. 11 => mut[0] = j
      BY AddersHoldZero DEF HintsInv
    <3>3. QED BY <1>2, <3>1, <3>2
  <2>3. \A j \in 0 .. n - 1 : reading'[j] = -1
    BY <1>2, <2>1, <2>2
  <2>4. QED BY <2>3 DEF ReadIsFresh
<1>7. CASE H(n, m)!Test(i) \/ H(n, m)!Lock(i) \/ H(n, m)!Unlock(i) \/ H(n, m)!SetFlag(i)
  <2>1. op # "add" /\ reading' = reading /\ buf' = buf
    BY <1>7 DEF H!Test, H!Lock, H!Unlock, H!SetFlag, H!Executes
  <2>2. reading'[i] = -1
    BY <1>2, <1>3, <2>1
  <2>3. QED BY <1>2, <1>4, <2>1, <2>2 DEF ReadIsFresh
<1>8. QED BY <1>5, <1>6, <1>7 DEF H!Thread

LEMMA HintsStep ==
  ASSUME NEW n \in Nat \ {0}, NEW m \in Nat, HintsInv(n, m), [H(n, m)!Next]_(H(n, m)!vars)
  PROVE  HintsInv(n, m)'
<1>1. H(n, m)!TypeOK' /\ JoinedFinished(n, m)' /\ H(n, m)!NeverPrints'
  BY HintsTypes
<1>2. H(n, m)!TypeOK /\ ZeroHeld(n, m) /\ NeighboursHalt(n, m) /\ ReadIsFresh(n, m)
  BY DEF HintsInv
<1>3. CASE UNCHANGED H(n, m)!threads
  <2>1. UNCHANGED <<at, turn, path, reading, mut, buf>>
    BY <1>3 DEF H!threads
  <2>2. \A i \in 0 .. n - 1 : /\ HoldsZero(n, m, i)' = HoldsZero(n, m, i)
                              /\ First(n, m, i)' = First(n, m, i)
                              /\ Second(n, m, i)' = Second(n, m, i)
                              /\ H(n, m)!Target(i)' = H(n, m)!Target(i)
    BY <2>1 DEF HoldsZero, First, Second, H!Target, H!Current
  <2>3. ZeroHeld(n, m)'
    BY <1>2, <2>1, <2>2 DEF ZeroHeld
  <2>4. NeighboursHalt(n, m)'
    BY <1>2, <2>1, <2>2 DEF NeighboursHalt
  <2>5. ReadIsFresh(n, m)'
    BY <1>2, <2>1, <2>2 DEF ReadIsFresh
  <2>6. QED BY <1>1, <2>3, <2>4, <2>5 DEF HintsInv
<1>4. ASSUME NEW i \in 0 .. n - 1, H(n, m)!Thread(i)
      PROVE  ZeroHeld(n, m)' /\ NeighboursHalt(n, m)' /\ ReadIsFresh(n, m)'
  <2>1. \A j \in 0 .. n - 1 \ {i} : at'[j] = at[j] /\ turn'[j] = turn[j] /\ path'[j] = path[j]
    <3>1. \A j \in 0 .. n - 1 \ {i} : at'[j] = at[j] /\ turn'[j] = turn[j]
      <4>1. /\ at \in [0 .. n - 1 -> Nat] /\ turn \in [0 .. n - 1 -> 0 .. m]
            /\ \/ UNCHANGED <<at, turn>>
               \/ /\ at' = [at EXCEPT ![i] = IF at[i] < 17 THEN at[i] + 1 ELSE 1]
                  /\ turn' = [turn EXCEPT ![i] = IF at[i] < 17 THEN turn[i] ELSE turn[i] + 1]
        BY <1>2, <1>4, ThreadFrame
      <4>2. QED BY <4>1
    <3>2. path \in [0 .. n - 1 -> [own : BOOLEAN, right : BOOLEAN]]
      BY <1>2 DEF H!TypeOK, H!Indices
    <3>3. \A j \in 0 .. n - 1 \ {i} : path'[j] = path[j]
      <4>1. CASE H(n, m)!Test(i)
        BY <3>2, <4>1 DEF H!Test
      <4>2. CASE path' = path
        BY <4>2
      <4>3. QED BY <1>4, <4>1, <4>2
              DEF H!Thread, H!Lock, H!Unlock, H!SetFlag, H!Load, H!Store
    <3>4. QED BY <3>1, <3>3
  <2>2. \A j \in 0 .. n - 1 \ {i} : /\ HoldsZero(n, m, j)' = HoldsZero(n, m, j)
                                    /\ First(n, m, j)' = First(n, m, j)
                                    /\ Second(n, m, j)' = Second(n, m, j)
    BY <2>1 DEF HoldsZero, First, Second
  <2>3. /\ \/ mut'[0] = mut[0] /\ (HoldsZero(n, m, i)' => HoldsZero(n, m, i))
           \/ mut[0] = -1 /\ mut'[0] = i
           \/ mut[0] = i /\ ~HoldsZero(n, m, i)'
        /\ First(n, m, i)' \/ Second(n, m, i)' =>
             /\ at'[i] <= 7 /\ turn'[i] = 0
             /\ path'[i].own /\ First(n, m, i)' => at'[i] <= 5
    BY <1>4, ZeroStep
  <2>4. ZeroHeld(n, m)'
    BY <1>2, <2>2, <2>3 DEF ZeroHeld
  <2>5. NeighboursHalt(n, m)'
    BY <1>2, <2>1, <2>2, <2>3 DEF NeighboursHalt
  <2>6. ReadIsFresh(n, m)'
    BY <1>4, <2>1, ReadStep
  <2>7. QED BY <2>4, <2>5, <2>6
<1>5. QED
  <2>1. UNCHANGED H(n, m)!threads \/ \E i \in 0 .. n - 1 : H(n, m)!Thread(i)
    BY DEF H!Next, H!Create, H!Join, H!PrintCell, H!Indices, H!vars
  <2>2. QED BY <1>1, <1>3, <1>4, <2>1 DEF HintsInv

LEMMA HintsImplied ==
  ASSUME NEW n \in Nat \ {0}, NEW m \in Nat, HintsInv(n, m)
  PROVE  H(n, m)!Inv
<1>1. \A i \in 0 .. n - 1 : reading[i] # -1 => mut[0] = i /\ reading[i] = buf[H(n, m)!Target(i)]
  BY AddersHoldZero DEF HintsInv, ReadIsFresh
<1>2. QED BY <1>1 DEF HintsInv, H!Inv, H!NoAdditionLost, H!Indices, H!None

\* Whatever the stale flags say, no addition of inf19-0.c is lost, and if there is an
\* iteration to do, nothing is ever printed (inf19-0.c:35, 83, 102).
THEOREM MutexZeroIsEverybodys ==
  ASSUME NEW n \in Nat \ {0}, NEW m \in Nat
  PROVE  H(n, m)!Spec => []H(n, m)!Inv
<1>1. H(n, m)!Init => HintsInv(n, m)
  BY HintsInit
<1>2. HintsInv(n, m) /\ [H(n, m)!Next]_(H(n, m)!vars) => HintsInv(n, m)'
  BY HintsStep
<1>3. HintsInv(n, m) => H(n, m)!Inv
  BY HintsImplied
<1>4. QED BY <1>1, <1>2, <1>3, PTL DEF H!Spec

\* The same of the two instances the ring's run checks (inf19-0.c:35).
THEOREM HintsLoseNothing == AllSpec => []NoAdditionLost
<1> DEFINE I == /\ chosen = "hints" => HintsInv(4, 2)
                /\ chosen = "no iterations" => HintsInv(3, 0)
<1>0. /\ H(4, 2)!Init => HintsInv(4, 2)
      /\ H(3, 0)!Init => HintsInv(3, 0)
      /\ HintsInv(4, 2) => H(4, 2)!Inv
      /\ HintsInv(3, 0) => H(3, 0)!Inv
      /\ HintsInv(4, 2) /\ [H(4, 2)!Next]_(H(4, 2)!vars) => HintsInv(4, 2)'
      /\ HintsInv(3, 0) /\ [H(3, 0)!Next]_(H(3, 0)!vars) => HintsInv(3, 0)'
  <2>1. 4 \in Nat \ {0} /\ 3 \in Nat \ {0} /\ 2 \in Nat /\ 0 \in Nat
    OBVIOUS
  <2>2. H(4, 2)!Init => HintsInv(4, 2)
    BY <2>1, HintsInit
  <2>3. H(3, 0)!Init => HintsInv(3, 0)
    BY <2>1, HintsInit
  <2>4. HintsInv(4, 2) => H(4, 2)!Inv
    BY <2>1, HintsImplied
  <2>5. HintsInv(3, 0) => H(3, 0)!Inv
    BY <2>1, HintsImplied
  <2>6. HintsInv(4, 2) /\ [H(4, 2)!Next]_(H(4, 2)!vars) => HintsInv(4, 2)'
    BY <2>1, HintsStep
  <2>7. HintsInv(3, 0) /\ [H(3, 0)!Next]_(H(3, 0)!vars) => HintsInv(3, 0)'
    BY <2>1, HintsStep
  <2>8. QED BY <2>2, <2>3, <2>4, <2>5, <2>6, <2>7
<1>1. AllInit => I
  BY <1>0 DEF AllInit
<1>2. I /\ [AllNext]_allVars => I'
  <2> SUFFICES ASSUME I, [AllNext]_allVars PROVE I'
    OBVIOUS
  <2>1. chosen' = chosen
    BY DEF AllNext, allVars
  <2>2. ASSUME chosen = "hints" PROVE HintsInv(4, 2)'
    <3>1. UNCHANGED hintVars => UNCHANGED H(4, 2)!vars
      BY DEF hintVars, H!vars, H!threads
    <3>2. [H(4, 2)!Next]_(H(4, 2)!vars)
      BY <2>2, <3>1, Zenon DEF AllNext, allVars
    <3>3. QED BY <1>0, <2>2, <3>2, Zenon
  <2>3. ASSUME chosen = "no iterations" PROVE HintsInv(3, 0)'
    <3>1. UNCHANGED hintVars => UNCHANGED H(3, 0)!vars
      BY DEF hintVars, H!vars, H!threads
    <3>2. [H(3, 0)!Next]_(H(3, 0)!vars)
      BY <2>3, <3>1, Zenon DEF AllNext, allVars
    <3>3. QED BY <1>0, <2>3, <3>2, Zenon
  <2>4. QED BY <2>1, <2>2, <2>3
<1>3. I => NoAdditionLost
  BY <1>0 DEF NoAdditionLost
<1>4. QED BY <1>1, <1>2, <1>3, PTL DEF AllSpec
=============================================================================
