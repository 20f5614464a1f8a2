--------------------------- MODULE PipelinesProofs ---------------------------
(***************************************************************************)
(* Proofs about the launchers of Pipelines, for all command lines, numbers *)
(* of programs and sizes of a pipe.  First the texts alone: what is known  *)
(* at each place of the slots, of the bodies of the forks, and of the      *)
(* order of forks, waits and pipes.  Then the processes: a launcher and    *)
(* its children hold what their places say (RootWired, ChildrenWired), so  *)
(* what goes through a pipe is what the program before it has written      *)
(* (Flow); what is forked is waited for (WaitsCome), and before anybody    *)
(* reads it where a launcher is so eager (Eagerly).                        *)
(***************************************************************************)
EXTENDS Pipelines, SequenceTheorems, FiniteSetTheorems, WellFoundedInduction, TLAPS

-----------------------------------------------------------------------------
(***************************************************************************)
(* The texts.  Most launchers' texts are put together from lists; here     *)
(* they are instruction by instruction, for every number of programs.      *)
(***************************************************************************)
\* A list of n elements.
IsList(f, n) == f = [i \in 1 .. n |-> f[i]]

\* The list c is a list of n instructions and then one of m.
Joins(c, a, n, b, m) ==
  /\ IsList(c, n + m)
  /\ \A i \in 1 .. n : c[i] = a[i]
  /\ \A i \in 1 .. m : c[n + i] = b[i]

\* Two lists one after the other, element by element.
LEMMA ListsJoin ==
  \A n, m \in Nat : \A a, b : IsList(a, n) /\ IsList(b, m) => Joins(a \o b, a, n, b, m)
  <1> SUFFICES ASSUME NEW n \in Nat, NEW m \in Nat, NEW a, NEW b, IsList(a, n), IsList(b, m)
               PROVE  Joins(a \o b, a, n, b, m)
    OBVIOUS
  <1> DEFINE A == {a[i] : i \in 1 .. n} \cup {b[i] : i \in 1 .. m}
  <1>1. a \in [1 .. n -> A] /\ b \in [1 .. m -> A]
    BY DEF IsList
  <1>2. a \in Seq(A) /\ b \in Seq(A) /\ Len(a) = n /\ Len(b) = m
    BY SMTT(40), <1>1
  <1> HIDE DEF A
  <1>3. /\ a \o b \in Seq(A) /\ Len(a \o b) = n + m
        /\ \A i \in 1 .. n + m : (a \o b)[i] = IF i <= n THEN a[i] ELSE b[i - n]
    BY <1>2, ConcatProperties
  <1>4. a \o b \in [1 .. n + m -> A]
    BY <1>3, LenProperties
  <1> QED BY SMTT(40), <1>2, <1>3, <1>4 DEF IsList, Joins

\* Lists written out.
LEMMA Short ==
  /\ \A a : IsList(<<a>>, 1)
  /\ \A a, b : IsList(<<a, b>>, 2)
  /\ \A a, b, c : IsList(<<a, b, c>>, 3)
  /\ \A a, b, c, d : IsList(<<a, b, c, d>>, 4)
  /\ \A a, b, c, d, e : IsList(<<a, b, c, d, e>>, 5)
  BY DEF IsList

\* The text of inf15-3.c for n programs, instruction by instruction.
LEMMA Text153 ==
  ASSUME NEW n \in Nat, n >= 2
  PROVE  /\ IsList(inf15_3(n), 5 * n + 4)
         /\ \A i \in 0 .. n : inf15_3(n)[i + 1] = Pipe(2 * i)
         /\ inf15_3(n)[n + 2] = Fork(1, <<Dup2(3, 1), Exec(1), Exit>>)
         /\ \A i \in 2 .. n - 1 :
              inf15_3(n)[n + 1 + i] = Fork(i, <<Dup2(2 * i + 1, 1), Dup2(2 * (i - 1), 0), Exec(i)>>)
         /\ inf15_3(n)[2 * n + 1] = Fork(n, <<Dup2(2 * n - 2, 0), Exec(n), Exit>>)
         /\ \A i \in 0 .. 2 * n + 2 : inf15_3(n)[2 * n + 2 + i] = Close(i)
         /\ \A i \in 1 .. n : inf15_3(n)[4 * n + 4 + i] = Wait(i)
  <1> DEFINE A == [j \in 1 .. n + 1 |-> Pipe(2 * (j - 1))]
             B == <<Fork(1, <<Dup2(3, 1), Exec(1), Exit>>)>>
             C == [j \in 1 .. n - 2 |->
                     Fork(j + 1, <<Dup2(2 * (j + 1) + 1, 1), Dup2(2 * j, 0), Exec(j + 1)>>)]
             D == <<Fork(n, <<Dup2(2 * n - 2, 0), Exec(n), Exit>>)>>
             E == [j \in 1 .. 2 * n + 3 |-> Close(j - 1)]
             G == [j \in 1 .. n |-> Wait(j)]
  <1>1. Loop(0, n, LAMBDA i : <<Pipe(2 * i)>>) = A
    BY DEF Loop
  <1>2. Loop(2, n - 1, LAMBDA i :
           <<Fork(i, <<Dup2(2 * i + 1, 1), Dup2(2 * (i - 1), 0), Exec(i)>>)>>) = C
    BY DEF Loop
  <1>3. Loop(0, 2 * n + 2, LAMBDA i : <<Close(i)>>) = E
    BY DEF Loop
  <1>4. Loop(1, n, LAMBDA i : <<Wait(i)>>) = G
    BY DEF Loop
  <1>5. inf15_3(n) = A \o B \o C \o D \o E \o G
    BY <1>1, <1>2, <1>3, <1>4 DEF inf15_3
  <1>6. /\ IsList(A, n + 1) /\ IsList(B, 1) /\ IsList(C, n - 2) /\ IsList(D, 1)
        /\ IsList(E, 2 * n + 3) /\ IsList(G, n)
    BY Short DEF IsList
  <1> DEFINE AB == A \o B
             ABC == AB \o C
             ABCD == ABC \o D
             ABCDE == ABCD \o E
             T == ABCDE \o G
  <1> HIDE DEF A, B, C, D, E, G
  <1>7. Joins(AB, A, n + 1, B, 1) /\ IsList(AB, n + 2)
    <2>1. n + 1 \in Nat /\ 1 \in Nat /\ (n + 1) + 1 = n + 2
      OBVIOUS
    <2>2. Joins(AB, A, n + 1, B, 1)
      BY <1>6, <2>1, ListsJoin
    <2> QED BY <2>1, <2>2 DEF Joins
  <1> HIDE DEF AB
  <1>8. Joins(ABC, AB, n + 2, C, n - 2) /\ IsList(ABC, 2 * n)
    <2>1. n + 2 \in Nat /\ n - 2 \in Nat /\ (n + 2) + (n - 2) = 2 * n
      OBVIOUS
    <2>2. Joins(ABC, AB, n + 2, C, n - 2)
      BY <1>6, <1>7, <2>1, ListsJoin
    <2> QED BY <2>1, <2>2 DEF Joins
  <1> HIDE DEF ABC
  <1>9. Joins(ABCD, ABC, 2 * n, D, 1) /\ IsList(ABCD, 2 * n + 1)
    <2>1. 2 * n \in Nat /\ 1 \in Nat
      OBVIOUS
    <2>2. Joins(ABCD, ABC, 2 * n, D, 1)
      BY <1>6, <1>8, <2>1, ListsJoin
    <2> QED BY <2>1, <2>2 DEF Joins
  <1> HIDE DEF ABCD
  <1>10. Joins(ABCDE, ABCD, 2 * n + 1, E, 2 * n + 3) /\ IsList(ABCDE, 4 * n + 4)
    <2>1. 2 * n + 1 \in Nat /\ 2 * n + 3 \in Nat /\ (2 * n + 1) + (2 * n + 3) = 4 * n + 4
      OBVIOUS
    <2>2. Joins(ABCDE, ABCD, 2 * n + 1, E, 2 * n + 3)
      BY <1>6, <1>9, <2>1, ListsJoin
    <2> QED BY <2>1, <2>2 DEF Joins
  <1> HIDE DEF ABCDE
  <1>11. Joins(T, ABCDE, 4 * n + 4, G, n) /\ IsList(T, 5 * n + 4)
    <2>1. 4 * n + 4 \in Nat /\ (4 * n + 4) + n = 5 * n + 4
      OBVIOUS
    <2>2. Joins(T, ABCDE, 4 * n + 4, G, n)
      BY <1>6, <1>10, <2>1, ListsJoin
    <2> QED BY <2>1, <2>2 DEF Joins
  <1>12. /\ \A i \in 0 .. n : A[i + 1] = Pipe(2 * i)
         /\ B[1] = Fork(1, <<Dup2(3, 1), Exec(1), Exit>>)
         /\ \A i \in 2 .. n - 1 :
              C[i - 1] = Fork(i, <<Dup2(2 * i + 1, 1), Dup2(2 * (i - 1), 0), Exec(i)>>)
         /\ D[1] = Fork(n, <<Dup2(2 * n - 2, 0), Exec(n), Exit>>)
         /\ \A i \in 0 .. 2 * n + 2 : E[i + 1] = Close(i)
         /\ \A i \in 1 .. n : G[i] = Wait(i)
    BY DEF A, B, C, D, E, G
  <1>13. inf15_3(n) = T
    BY <1>5 DEF AB, ABC, ABCD, ABCDE
  <1> HIDE DEF T
  <1>14. \A i \in 1 .. 4 * n + 4 : T[i] = ABCDE[i]
    BY <1>11 DEF Joins
  <1>15. \A i \in 1 .. 2 * n + 1 : T[i] = ABCD[i]
    BY <1>10, <1>14 DEF Joins
  <1>16. \A i \in 1 .. n + 2 : T[i] = AB[i]
    BY <1>8, <1>9, <1>15 DEF Joins
  <1>17. \A i \in 1 .. n + 1 : T[i] = A[i]
    BY <1>7, <1>16 DEF Joins
  <1>18. T[n + 2] = B[1]
    <2>1. n + 2 \in 1 .. n + 2 /\ 1 \in 1 .. 1 /\ (n + 1) + 1 = n + 2
      OBVIOUS
    <2> QED BY <1>7, <1>16, <2>1 DEF Joins
  <1>19. \A i \in 1 .. n - 2 : T[n + 2 + i] = C[i]
    BY <1>8, <1>9, <1>15 DEF Joins
  <1>20. T[2 * n + 1] = D[1]
    BY <1>9, <1>15 DEF Joins
  <1>21. \A i \in 1 .. 2 * n + 3 : T[2 * n + 1 + i] = E[i]
    BY <1>10, <1>14 DEF Joins
  <1>22. \A i \in 1 .. n : T[4 * n + 4 + i] = G[i]
    BY <1>11 DEF Joins
  <1>23. IsList(T, 5 * n + 4)
    BY <1>11
  <1>24. \A i \in 0 .. n : T[i + 1] = Pipe(2 * i)
    BY <1>12, <1>17
  <1>25. \A i \in 2 .. n - 1 :
           T[n + 1 + i] = Fork(i, <<Dup2(2 * i + 1, 1), Dup2(2 * (i - 1), 0), Exec(i)>>)
    <2> SUFFICES ASSUME NEW i \in 2 .. n - 1
                 PROVE  T[n + 1 + i] = Fork(i, <<Dup2(2 * i + 1, 1), Dup2(2 * (i - 1), 0), Exec(i)>>)
      OBVIOUS
    <2>1. i - 1 \in 1 .. n - 2 /\ n + 2 + (i - 1) = n + 1 + i
      OBVIOUS
    <2>2. T[n + 1 + i] = C[i - 1]
      BY <1>19, <2>1
    <2> QED BY <1>12, <2>2
  <1>26. \A i \in 0 .. 2 * n + 2 : T[2 * n + 2 + i] = Close(i)
    <2> SUFFICES ASSUME NEW i \in 0 .. 2 * n + 2 PROVE T[2 * n + 2 + i] = Close(i)
      OBVIOUS
    <2>1. i + 1 \in 1 .. 2 * n + 3 /\ 2 * n + 1 + (i + 1) = 2 * n + 2 + i
      OBVIOUS
    <2>2. T[2 * n + 2 + i] = E[i + 1]
      BY <1>21, <2>1
    <2> QED BY <1>12, <2>2
  <1> QED BY <1>12, <1>13, <1>18, <1>20, <1>22, <1>23, <1>24, <1>25, <1>26

\* A round of the loop of inf15-4.c.
Round154(k) == << Pipe(2), Fork(k, <<Dup2(0, 0), Dup2(3, 1), Close(3), Exec(k)>>), Wait(k),
                  Close(0), Close(3), Assign(0, 2) >>

\* The text of inf15-4.c for n programs, instruction by instruction.
LEMMA Text154 ==
  ASSUME NEW n \in Nat, n >= 2
  PROVE  /\ IsList(inf15_4(n), 6 * n - 5)
         /\ inf15_4(n)[1] = Pipe(0)
         /\ inf15_4(n)[2] = Fork(1, <<Dup2(1, 1), Close(0), Exec(1)>>)
         /\ inf15_4(n)[3] = Wait(1)
         /\ inf15_4(n)[4] = Close(1)
         /\ \A i \in 2 .. n - 1 :
              /\ inf15_4(n)[6 * i - 7] = Pipe(2)
              /\ inf15_4(n)[6 * i - 6] = Fork(i, <<Dup2(0, 0), Dup2(3, 1), Close(3), Exec(i)>>)
              /\ inf15_4(n)[6 * i - 5] = Wait(i)
              /\ inf15_4(n)[6 * i - 4] = Close(0)
              /\ inf15_4(n)[6 * i - 3] = Close(3)
              /\ inf15_4(n)[6 * i - 2] = Assign(0, 2)
         /\ inf15_4(n)[6 * n - 7] = Fork(n, <<Dup2(0, 0), Close(0), Exec(n)>>)
         /\ inf15_4(n)[6 * n - 6] = Wait(n)
         /\ inf15_4(n)[6 * n - 5] = Close(0)
  <1> DEFINE A == << Pipe(0), Fork(1, <<Dup2(1, 1), Close(0), Exec(1)>>), Wait(1), Close(1) >>
             B == [j \in 1 .. 6 * n - 12 |-> Round154(2 + (j - 1) \div 6)[((j - 1) % 6) + 1]]
             C == << Fork(n, <<Dup2(0, 0), Close(0), Exec(n)>>), Wait(n), Close(0) >>
  <1>1. Loop(2, n - 1, LAMBDA i :
               << Pipe(2), Fork(i, <<Dup2(0, 0), Dup2(3, 1), Close(3), Exec(i)>>), Wait(i),
                  Close(0), Close(3), Assign(0, 2) >>) = B
    BY DEF Loop, Round154
  <1>2. inf15_4(n) = A \o B \o C
    BY <1>1 DEF inf15_4
  <1>3. IsList(A, 4) /\ IsList(B, 6 * n - 12) /\ IsList(C, 3)
    BY Short DEF IsList
  <1>4. \A i \in 2 .. n - 1 :
          /\ B[6 * i - 11] = Pipe(2)
          /\ B[6 * i - 10] = Fork(i, <<Dup2(0, 0), Dup2(3, 1), Close(3), Exec(i)>>)
          /\ B[6 * i - 9] = Wait(i) /\ B[6 * i - 8] = Close(0) /\ B[6 * i - 7] = Close(3)
          /\ B[6 * i - 6] = Assign(0, 2)
    <2>1. ASSUME NEW i \in 2 .. n - 1, NEW r \in 1 .. 6
          PROVE  B[6 * i - 12 + r] = Round154(i)[r]
      <3>1. /\ 6 * i - 12 + r \in 1 .. 6 * n - 12
            /\ 2 + (6 * i - 12 + r - 1) \div 6 = i /\ ((6 * i - 12 + r - 1) % 6) + 1 = r
        OBVIOUS
      <3> QED BY <3>1
    <2> HIDE DEF B
    <2> SUFFICES ASSUME NEW i \in 2 .. n - 1
                 PROVE  /\ B[6 * i - 11] = Pipe(2)
                        /\ B[6 * i - 10] = Fork(i, <<Dup2(0, 0), Dup2(3, 1), Close(3), Exec(i)>>)
                        /\ B[6 * i - 9] = Wait(i) /\ B[6 * i - 8] = Close(0)
                        /\ B[6 * i - 7] = Close(3) /\ B[6 * i - 6] = Assign(0, 2)
      OBVIOUS
    <2>2. \A r \in 1 .. 6 : B[6 * i - 12 + r] = Round154(i)[r]
      BY <2>1
    <2>3. /\ Round154(i)[1] = Pipe(2)
          /\ Round154(i)[2] = Fork(i, <<Dup2(0, 0), Dup2(3, 1), Close(3), Exec(i)>>)
          /\ Round154(i)[3] = Wait(i) /\ Round154(i)[4] = Close(0) /\ Round154(i)[5] = Close(3)
          /\ Round154(i)[6] = Assign(0, 2)
      BY DEF Round154
    <2>4. /\ B[6 * i - 12 + 1] = Round154(i)[1] /\ B[6 * i - 12 + 2] = Round154(i)[2]
          /\ B[6 * i - 12 + 3] = Round154(i)[3] /\ B[6 * i - 12 + 4] = Round154(i)[4]
          /\ B[6 * i - 12 + 5] = Round154(i)[5] /\ B[6 * i - 12 + 6] = Round154(i)[6]
      BY <2>2
    <2> QED BY <2>3, <2>4
  <1>5. /\ A[1] = Pipe(0) /\ A[2] = Fork(1, <<Dup2(1, 1), Close(0), Exec(1)>>)
        /\ A[3] = Wait(1) /\ A[4] = Close(1)
        /\ C[1] = Fork(n, <<Dup2(0, 0), Close(0), Exec(n)>>) /\ C[2] = Wait(n) /\ C[3] = Close(0)
    OBVIOUS
  <1> DEFINE AB == A \o B
             T == AB \o C
  <1> HIDE DEF A, B, C
  <1>6. Joins(AB, A, 4, B, 6 * n - 12) /\ IsList(AB, 6 * n - 8)
    <2>1. 4 \in Nat /\ 6 * n - 12 \in Nat /\ 4 + (6 * n - 12) = 6 * n - 8
      OBVIOUS
    <2>2. Joins(AB, A, 4, B, 6 * n - 12)
      BY <1>3, <2>1, ListsJoin
    <2> QED BY <2>1, <2>2 DEF Joins
  <1> HIDE DEF AB
  <1>7. Joins(T, AB, 6 * n - 8, C, 3) /\ IsList(T, 6 * n - 5)
    <2>1. 3 \in Nat /\ 6 * n - 8 \in Nat /\ (6 * n - 8) + 3 = 6 * n - 5
      OBVIOUS
    <2>2. Joins(T, AB, 6 * n - 8, C, 3)
      BY <1>3, <1>6, <2>1, ListsJoin
    <2> QED BY <2>1, <2>2 DEF Joins
  <1>8. inf15_4(n) = T
    BY <1>2 DEF AB
  <1> HIDE DEF T
  <1>9. \A i \in 1 .. 6 * n - 8 : T[i] = AB[i]
    BY <1>7 DEF Joins
  <1>10. \A i \in 1 .. 4 : T[i] = A[i]
    BY <1>6, <1>9 DEF Joins
  <1>11. \A i \in 1 .. 6 * n - 12 : T[4 + i] = B[i]
    BY <1>6, <1>9 DEF Joins
  <1>12. \A i \in 1 .. 3 : T[6 * n - 8 + i] = C[i]
    BY <1>7 DEF Joins
  <1>13. \A i \in 2 .. n - 1 : \A r \in 1 .. 6 : T[6 * i - 8 + r] = B[6 * i - 12 + r]
    <2> SUFFICES ASSUME NEW i \in 2 .. n - 1, NEW r \in 1 .. 6
                 PROVE  T[6 * i - 8 + r] = B[6 * i - 12 + r]
      OBVIOUS
    <2>1. 6 * i - 12 + r \in 1 .. 6 * n - 12 /\ 4 + (6 * i - 12 + r) = 6 * i - 8 + r
      OBVIOUS
    <2> QED BY <1>11, <2>1
  <1>14. \A i \in 2 .. n - 1 :
           /\ T[6 * i - 7] = B[6 * i - 11] /\ T[6 * i - 6] = B[6 * i - 10]
           /\ T[6 * i - 5] = B[6 * i - 9] /\ T[6 * i - 4] = B[6 * i - 8]
           /\ T[6 * i - 3] = B[6 * i - 7] /\ T[6 * i - 2] = B[6 * i - 6]
    BY <1>13
  <1>15. T[6 * n - 7] = C[1] /\ T[6 * n - 6] = C[2] /\ T[6 * n - 5] = C[3]
    BY <1>12
  <1>16. T[1] = A[1] /\ T[2] = A[2] /\ T[3] = A[3] /\ T[4] = A[4]
    BY <1>10
  <1> QED BY <1>4, <1>5, <1>7, <1>8, <1>14, <1>15, <1>16

\* The body of the fork in a round of the loop of main.c, and the round.
Stage(i) == << Dup2(Out(i) + 1, 1), Close(Out(i)), Dup2(In(i), 0), Exec(i), Exit >>
RoundMain(i) ==
  << Close(In(i) + 1), Close(Out(i)), Pipe(Out(i)), Fork(i, Stage(i)), Wait(i) >>

\* The text of main.c for n programs, instruction by instruction.
LEMMA TextMain ==
  ASSUME NEW n \in Nat, n >= 2
  PROVE  /\ IsList(main_c(n), 5 * n - 2)
         /\ main_c(n)[1] = Pipe(0)
         /\ main_c(n)[2] = Fork(1, <<Dup2(1, 1), Close(0), Exec(1), Exit>>)
         /\ main_c(n)[3] = Wait(1)
         /\ \A i \in 2 .. n - 1 :
              /\ main_c(n)[5 * i - 6] = Close(In(i) + 1)
              /\ main_c(n)[5 * i - 5] = Close(Out(i))
              /\ main_c(n)[5 * i - 4] = Pipe(Out(i))
              /\ main_c(n)[5 * i - 3] = Fork(i, Stage(i))
              /\ main_c(n)[5 * i - 2] = Wait(i)
         /\ main_c(n)[5 * n - 6] = Close(In(n - 1))
         /\ main_c(n)[5 * n - 5] = Close(Out(n - 1) + 1)
         /\ main_c(n)[5 * n - 4] = Fork(n, <<Dup2(Out(n - 1), 0), Exec(n), Exit>>)
         /\ main_c(n)[5 * n - 3] = Close(Out(n - 1))
         /\ main_c(n)[5 * n - 2] = Wait(n)
  <1> DEFINE A == << Pipe(0), Fork(1, <<Dup2(1, 1), Close(0), Exec(1), Exit>>), Wait(1) >>
             B == [j \in 1 .. 5 * n - 10 |-> RoundMain(2 + (j - 1) \div 5)[((j - 1) % 5) + 1]]
             C == << Close(In(n - 1)), Close(Out(n - 1) + 1),
                     Fork(n, <<Dup2(Out(n - 1), 0), Exec(n), Exit>>),
                     Close(Out(n - 1)), Wait(n) >>
  <1>1. Loop(2, n - 1, LAMBDA i :
               << Close(In(i) + 1), Close(Out(i)), Pipe(Out(i)),
                  Fork(i, <<Dup2(Out(i) + 1, 1), Close(Out(i)), Dup2(In(i), 0), Exec(i), Exit>>),
                  Wait(i) >>) = B
    BY DEF Loop, RoundMain, Stage
  <1>2. main_c(n) = A \o B \o C
    BY <1>1 DEF main_c
  <1>3. IsList(A, 3) /\ IsList(B, 5 * n - 10) /\ IsList(C, 5)
    BY Short DEF IsList
  <1>4. \A i \in 2 .. n - 1 :
          /\ B[5 * i - 9] = Close(In(i) + 1) /\ B[5 * i - 8] = Close(Out(i))
          /\ B[5 * i - 7] = Pipe(Out(i)) /\ B[5 * i - 6] = Fork(i, Stage(i))
          /\ B[5 * i - 5] = Wait(i)
    <2>1. ASSUME NEW i \in 2 .. n - 1, NEW r \in 1 .. 5
          PROVE  B[5 * i - 10 + r] = RoundMain(i)[r]
      <3>1. /\ 5 * i - 10 + r \in 1 .. 5 * n - 10
            /\ 2 + (5 * i - 10 + r - 1) \div 5 = i /\ ((5 * i - 10 + r - 1) % 5) + 1 = r
        OBVIOUS
      <3> QED BY <3>1
    <2> HIDE DEF B
    <2> SUFFICES ASSUME NEW i \in 2 .. n - 1
                 PROVE  /\ B[5 * i - 9] = Close(In(i) + 1) /\ B[5 * i - 8] = Close(Out(i))
                        /\ B[5 * i - 7] = Pipe(Out(i)) /\ B[5 * i - 6] = Fork(i, Stage(i))
                        /\ B[5 * i - 5] = Wait(i)
      OBVIOUS
    <2>2. \A r \in 1 .. 5 : B[5 * i - 10 + r] = RoundMain(i)[r]
      BY <2>1
    <2>3. /\ RoundMain(i)[1] = Close(In(i) + 1) /\ RoundMain(i)[2] = Close(Out(i))
          /\ RoundMain(i)[3] = Pipe(Out(i)) /\ RoundMain(i)[4] = Fork(i, Stage(i))
          /\ RoundMain(i)[5] = Wait(i)
      BY DEF RoundMain
    <2>4. /\ B[5 * i - 10 + 1] = RoundMain(i)[1] /\ B[5 * i - 10 + 2] = RoundMain(i)[2]
          /\ B[5 * i - 10 + 3] = RoundMain(i)[3] /\ B[5 * i - 10 + 4] = RoundMain(i)[4]
          /\ B[5 * i - 10 + 5] = RoundMain(i)[5]
      BY <2>2
    <2> QED BY <2>3, <2>4
  <1>5. /\ A[1] = Pipe(0) /\ A[2] = Fork(1, <<Dup2(1, 1), Close(0), Exec(1), Exit>>)
        /\ A[3] = Wait(1)
        /\ C[1] = Close(In(n - 1)) /\ C[2] = Close(Out(n - 1) + 1)
        /\ C[3] = Fork(n, <<Dup2(Out(n - 1), 0), Exec(n), Exit>>)
        /\ C[4] = Close(Out(n - 1)) /\ C[5] = Wait(n)
    OBVIOUS
  <1> DEFINE AB == A \o B
             T == AB \o C
  <1> HIDE DEF A, B, C
  <1>6. Joins(AB, A, 3, B, 5 * n - 10) /\ IsList(AB, 5 * n - 7)
    <2>1. 3 \in Nat /\ 5 * n - 10 \in Nat /\ 3 + (5 * n - 10) = 5 * n - 7
      OBVIOUS
    <2>2. Joins(AB, A, 3, B, 5 * n - 10)
      BY <1>3, <2>1, ListsJoin
    <2> QED BY <2>1, <2>2 DEF Joins
  <1> HIDE DEF AB
  <1>7. Joins(T, AB, 5 * n - 7, C, 5) /\ IsList(T, 5 * n - 2)
    <2>1. 5 \in Nat /\ 5 * n - 7 \in Nat /\ (5 * n - 7) + 5 = 5 * n - 2
      OBVIOUS
    <2>2. Joins(T, AB, 5 * n - 7, C, 5)
      BY <1>3, <1>6, <2>1, ListsJoin
    <2> QED BY <2>1, <2>2 DEF Joins
  <1>8. main_c(n) = T
    BY <1>2 DEF AB
  <1> HIDE DEF T
  <1>9. \A i \in 1 .. 5 * n - 7 : T[i] = AB[i]
    BY <1>7 DEF Joins
  <1>10. \A i \in 1 .. 3 : T[i] = A[i]
    BY <1>6, <1>9 DEF Joins
  <1>11. \A i \in 1 .. 5 * n - 10 : T[3 + i] = B[i]
    BY <1>6, <1>9 DEF Joins
  <1>12. \A i \in 1 .. 5 : T[5 * n - 7 + i] = C[i]
    BY <1>7 DEF Joins
  <1>13. \A i \in 2 .. n - 1 : \A r \in 1 .. 5 : T[5 * i - 7 + r] = B[5 * i - 10 + r]
    <2> SUFFICES ASSUME NEW i \in 2 .. n - 1, NEW r \in 1 .. 5
                 PROVE  T[5 * i - 7 + r] = B[5 * i - 10 + r]
      OBVIOUS
    <2>1. 5 * i - 10 + r \in 1 .. 5 * n - 10 /\ 3 + (5 * i - 10 + r) = 5 * i - 7 + r
      OBVIOUS
    <2> QED BY <1>11, <2>1
  <1>14. \A i \in 2 .. n - 1 :
           /\ T[5 * i - 6] = B[5 * i - 9] /\ T[5 * i - 5] = B[5 * i - 8]
           /\ T[5 * i - 4] = B[5 * i - 7] /\ T[5 * i - 3] = B[5 * i - 6]
           /\ T[5 * i - 2] = B[5 * i - 5]
    BY <1>13
  <1>15. /\ T[5 * n - 6] = C[1] /\ T[5 * n - 5] = C[2] /\ T[5 * n - 4] = C[3]
         /\ T[5 * n - 3] = C[4] /\ T[5 * n - 2] = C[5]
    BY <1>12
  <1>16. T[1] = A[1] /\ T[2] = A[2] /\ T[3] = A[3]
    BY <1>10
  <1> QED BY <1>4, <1>5, <1>7, <1>8, <1>14, <1>15, <1>16

-----------------------------------------------------------------------------
(***************************************************************************)
(* What a launcher knows.  At every place of its text: which end of which  *)
(* pipe is in which slot, which slots are in use, and the rules its        *)
(* instructions keep.  No process is looked at yet.                        *)
(***************************************************************************)
\* What a slot refers to that was never set.
Unset == [pipe |-> <<0, 0>>, end |-> "unset"]

\* The launchers that connect programs, when there is something to connect.
Linked(l, n) ==
  \/ l = "inf15_1" /\ n = 2
  \/ l = "inf15_2" /\ n = 1
  \/ l \in {"inf15_3", "inf15_4", "main_c"} /\ n > 1

\* Where the launcher makes the pipe behind the k-th program, and forks the program.
MadeAt(l, k) ==
  CASE l = "inf15_3" -> k + 1
    [] l = "inf15_4" /\ k > 1 -> 6 * k - 7
    [] l = "main_c" /\ k > 1 -> 5 * k - 4
    [] OTHER -> 1
ForkAt(l, n, k) ==
  CASE l = "inf15_1" -> 2 * k
    [] l = "inf15_2" -> 2
    [] l = "inf15_3" -> n + 1 + k
    [] l = "inf15_4" -> IF k = 1 THEN 2 ELSE IF k < n THEN 6 * k - 6 ELSE 6 * k - 7
    [] l = "main_c" -> IF k = 1 THEN 2 ELSE IF k < n THEN 5 * k - 3 ELSE 5 * k - 4

\* The pipe behind the k-th program, and its two ends.
Joint(l, k) == <<1, MadeAt(l, k)>>
R(l, k) == ReadEnd(Joint(l, k))
W(l, k) == WriteEnd(Joint(l, k))

\* The launcher has both ends of the k-th pipe in slots r and r + 1.
Both(l, k, r, s, h) == (s = r /\ h = R(l, k)) \/ (s = r + 1 /\ h = W(l, k))
\* It has the read end of the k-th pipe in slot r, or has never set that slot.
Reader(l, k, r, s, h) == s = r /\ h = R(l, k)
Free(r, s, h) == s = r /\ h = Unset

\* What is known to be in slot s when the launcher comes to place a.
Knows151(n, a, s, h) ==
  \/ a \in 2 .. 3 /\ Both("inf15_1", 1, 0, s, h)
  \/ a \in 4 .. 5 /\ Reader("inf15_1", 1, 0, s, h)

Knows152(n, a, s, h) ==
  \/ a \in 2 .. 4 /\ Both("inf15_2", 1, 0, s, h)
  \/ a \in 5 .. 6 /\ Reader("inf15_2", 1, 0, s, h)

Knows153(n, a, s, h) ==
  \E j \in 0 .. n : /\ j < a - 1 /\ a <= 2 * n + 1
                    /\ Both("inf15_3", j, 2 * j, s, h)

Knows154(n, a, s, h) ==
  \/ a \in 2 .. 4 /\ Both("inf15_4", 1, 0, s, h)
  \/ \E k \in 2 .. n - 1 :
       \/ a \in 6 * k - 7 .. 6 * k - 4 /\ Reader("inf15_4", k - 1, 0, s, h)
       \/ a \in 6 * k - 6 .. 6 * k - 3 /\ Both("inf15_4", k, 2, s, h)
       \/ a = 6 * k - 2 /\ Reader("inf15_4", k, 2, s, h)
  \/ a \in 6 * n - 7 .. 6 * n - 5 /\ Reader("inf15_4", n - 1, 0, s, h)

\* The second last pipe of main.c, behind its last one.
Before(k, s, h) ==
  IF k = 2 THEN Free(Out(2), s, h) ELSE Reader("main_c", k - 2, Out(k), s, h)
KnowsMain(n, a, s, h) ==
  \/ a = 1 /\ Free(2, s, h)
  \/ a \in 2 .. 3 /\ (Both("main_c", 1, 0, s, h) \/ Free(2, s, h))
  \/ \E k \in 2 .. n - 1 :
       \/ a = 5 * k - 6 /\ (Both("main_c", k - 1, In(k), s, h) \/ Before(k, s, h))
       \/ a = 5 * k - 5 /\ (Reader("main_c", k - 1, In(k), s, h) \/ Before(k, s, h))
       \/ a \in 5 * k - 4 .. 5 * k - 2 /\ Reader("main_c", k - 1, In(k), s, h)
       \/ a \in 5 * k - 3 .. 5 * k - 2 /\ Both("main_c", k, Out(k), s, h)
  \/ a = 5 * n - 6 /\ (Both("main_c", n - 1, Out(n - 1), s, h) \/ Before(n, s, h))
  \/ a = 5 * n - 5 /\ Both("main_c", n - 1, Out(n - 1), s, h)
  \/ a \in 5 * n - 4 .. 5 * n - 3 /\ Reader("main_c", n - 1, Out(n - 1), s, h)

Knows(l, n, a, s, h) ==
  \/ l = "inf15_1" /\ Knows151(n, a, s, h)
  \/ l = "inf15_2" /\ Knows152(n, a, s, h)
  \/ l = "inf15_3" /\ Knows153(n, a, s, h)
  \/ l = "inf15_4" /\ Knows154(n, a, s, h)
  \/ l = "main_c" /\ KnowsMain(n, a, s, h)

\* The slots an open descriptor can be in, for everybody who runs the launcher's code.
Used153(n, a, s) == s \in 0 .. 2 * (a - 1) - 1 /\ s \in 0 .. 2 * n + 1
Used154(n, a, s) ==
  \/ a \in 2 .. 4 /\ s \in {0, 1}
  \/ \E k \in 2 .. n - 1 :
       \/ a \in 6 * k - 7 .. 6 * k - 4 /\ s = 0
       \/ a \in 6 * k - 6 .. 6 * k - 3 /\ s \in {2, 3}
       \/ a = 6 * k - 2 /\ s = 2
  \/ a > 6 * n - 8 /\ s = 0
UsedMain(n, a, s) ==
  \/ a \in 2 .. 3 /\ s \in {0, 1}
  \/ \E k \in 2 .. n - 1 :
       \/ a = 5 * k - 6 /\ s \in {In(k), In(k) + 1, Out(k)}
       \/ a = 5 * k - 5 /\ s \in {In(k), Out(k)}
       \/ a = 5 * k - 4 /\ s = In(k)
       \/ a \in 5 * k - 3 .. 5 * k - 2 /\ s \in {In(k), Out(k), Out(k) + 1}
  \/ a > 5 * n - 7 /\ s \in 0 .. 3
\* The slots in use in the text of the launcher l for n programs.
Used(l, n, a, s) ==
  CASE l = "inf15_3" /\ n > 1 -> Used153(n, a, s)
    [] l = "inf15_4" /\ n > 1 -> Used154(n, a, s)
    [] l = "main_c" /\ n > 1 -> UsedMain(n, a, s)
    [] OTHER -> a > 1 /\ s \in {0, 1}

-----------------------------------------------------------------------------
\* What an instruction refers to is there.
Fits(n, t) ==
  /\ t.op \in {"pipe", "dup2", "close", "assign", "fork", "exec", "wait", "read", "readAll", "exit"}
  /\ t.op = "pipe" => t.slot \in 0 .. 2 * n + 1
  /\ t.op \in {"dup2", "close", "assign", "read"} => t.slot \in 0 .. 2 * n + 2
  /\ t.op = "assign" => t.from \in 0 .. 2 * n + 2
  /\ t.op = "dup2" => t.to \in 0 .. 2
  /\ t.op = "exec" => t.stage \in 1 .. n
  /\ t.op = "fork" => t.stage \in 1 .. n + 1

\* The body of the fork of the k-th program.
InBody(n, k, body) ==
  /\ body \in Seq({body[b] : b \in 1 .. Len(body)}) /\ body # <<>>
  /\ \A b \in 1 .. Len(body) :
       /\ Fits(n, body[b])
       /\ body[b].op \in {"dup2", "close", "exec", "exit", "read"}
       /\ body[b].op = "exec" => body[b].stage = k

\* No slot that is in use is overwritten, and it stays in use until it is closed or moved.
Slotted(l, n, a, t) ==
  /\ t.op = "pipe" => /\ \A s : Used(l, n, a, s) => s \in 0 .. 2 * n - 1 /\ s \notin {t.slot, t.slot + 1}
                      /\ Used(l, n, a + 1, t.slot) /\ Used(l, n, a + 1, t.slot + 1)
  /\ t.op = "assign" => ~Used(l, n, a, t.slot) /\ Used(l, n, a + 1, t.slot)
  /\ \A s : /\ Used(l, n, a, s)
            /\ t.op = "close" => s # t.slot
            /\ t.op = "assign" => s # t.from
            => Used(l, n, a + 1, s)
\* Every fork is waited for, and only inf15-2.c reads to the end itself.
Ordered(l, n, a, t) ==
  /\ t.op = "fork" => /\ \E j \in a + 1 .. Len(Code(l, n)) : Code(l, n)[j] = Wait(t.stage)
                      /\ InBody(n, t.stage, t.body)
  /\ t.op \in {"exec", "exit"} => \A j \in 1 .. Len(Code(l, n)) : Code(l, n)[j].op # "wait"
  /\ t.op = "readAll" => l = "inf15_2"

\* What the launcher knows follows from what it knew before.
Learns(l, n, a, t) ==
  /\ \A s, h : Knows(l, n, a, s, h) => s \in 0 .. 2 * n + 2 /\ (h = Unset \/ h.end \in {"read", "write"})
  /\ \A s, h, g : Knows(l, n, a, s, h) /\ Knows(l, n, a, s, g) => h = g
  /\ t.op = "pipe" =>
       \A s, h : Knows(l, n, a + 1, s, h) =>
         \/ s = t.slot /\ h = ReadEnd(<<1, a>>)
         \/ s = t.slot + 1 /\ h = WriteEnd(<<1, a>>)
         \/ Knows(l, n, a, s, h) /\ s \notin {t.slot, t.slot + 1}
  /\ t.op = "close" =>
       /\ a < ForkAt(l, n, n) => \E g : Knows(l, n, a, t.slot, g)
       /\ \A s, h : Knows(l, n, a + 1, s, h) =>
            Knows(l, n, a, s, h) /\ \E g : Knows(l, n, a, t.slot, g) /\ (g = Unset \/ g # h)
  /\ t.op = "assign" =>
       \A s, h : Knows(l, n, a + 1, s, h) =>
         \/ s = t.slot /\ Knows(l, n, a, t.from, h)
         \/ s # t.slot /\ Knows(l, n, a, s, h)
  /\ t.op \notin {"pipe", "close", "assign"} =>
       \A s, h : Knows(l, n, a + 1, s, h) => Knows(l, n, a, s, h)
\* When there is something to connect, pipes come before the last fork and what changes the
\* launcher's own descriptors comes behind it.
Orders(l, n, a, t) ==
  /\ t.op = "pipe" => a < ForkAt(l, n, n)
  /\ t.op \in {"dup2", "readAll"} => a > ForkAt(l, n, n)
  /\ t.op = "fork" => t.stage \in 1 .. n /\ a = ForkAt(l, n, t.stage)
  /\ t.op \notin {"exec", "exit", "read"}

\* What holds of every text, and of those that connect programs.
Rules(l, n) ==
  /\ IsList(Code(l, n), Len(Code(l, n))) /\ Len(Code(l, n)) \in Nat
  /\ \A a \in 1 .. Len(Code(l, n)) :
       Fits(n, Code(l, n)[a]) /\ Slotted(l, n, a, Code(l, n)[a]) /\ Ordered(l, n, a, Code(l, n)[a])
Wires(l, n) ==
  \A a \in 1 .. Len(Code(l, n)) : Learns(l, n, a, Code(l, n)[a]) /\ Orders(l, n, a, Code(l, n)[a])

\* The length of a list.
LEMMA ListLength == \A f : \A n \in Nat : IsList(f, n) => Len(f) = n /\ DOMAIN f = 1 .. n
  BY DEF IsList

\* The places in the text of inf15-3.c.
LEMMA Places153 ==
  ASSUME NEW n \in Nat, n >= 2, NEW a \in 1 .. 5 * n + 4
  PROVE  \/ \E i \in 0 .. n : a = i + 1
         \/ a = n + 2
         \/ \E i \in 2 .. n - 1 : a = n + 1 + i
         \/ a = 2 * n + 1
         \/ \E i \in 0 .. 2 * n + 2 : a = 2 * n + 2 + i
         \/ \E i \in 1 .. n : a = 4 * n + 4 + i
  <1>1. CASE a <= n + 1
    <2>1. a - 1 \in 0 .. n /\ a = (a - 1) + 1
      BY <1>1
    <2> QED BY <2>1
  <1>2. CASE a \in n + 2 .. 2 * n + 1
    <2>1. a = n + 2 \/ a = 2 * n + 1 \/ (a - n - 1 \in 2 .. n - 1 /\ a = n + 1 + (a - n - 1))
      BY <1>2
    <2> QED BY <2>1
  <1>3. CASE a \in 2 * n + 2 .. 4 * n + 4
    <2>1. a - 2 * n - 2 \in 0 .. 2 * n + 2 /\ a = 2 * n + 2 + (a - 2 * n - 2)
      BY <1>3
    <2> QED BY <2>1
  <1>4. CASE a > 4 * n + 4
    <2>1. a - 4 * n - 4 \in 1 .. n /\ a = 4 * n + 4 + (a - 4 * n - 4)
      BY <1>4
    <2> QED BY <2>1
  <1> QED BY <1>1, <1>2, <1>3, <1>4

\* With two programs or more inf15-3.c has its long text.
LEMMA Code153 == \A n \in Nat : n >= 2 => Code("inf15_3", n) = inf15_3(n)
  BY DEF Code

\* The text of inf15-3.c keeps the rules.
LEMMA Rules153 ==
  ASSUME NEW n \in Nat, n >= 2
  PROVE  Rules("inf15_3", n)
  <1> DEFINE C == Code("inf15_3", n)
             L == 5 * n + 4
  <1>1. C = inf15_3(n)
    BY Code153
  <1>2. /\ IsList(C, L)
        /\ \A i \in 0 .. n : C[i + 1] = Pipe(2 * i)
        /\ C[n + 2] = Fork(1, <<Dup2(3, 1), Exec(1), Exit>>)
        /\ \A i \in 2 .. n - 1 :
             C[n + 1 + i] = Fork(i, <<Dup2(2 * i + 1, 1), Dup2(2 * (i - 1), 0), Exec(i)>>)
        /\ C[2 * n + 1] = Fork(n, <<Dup2(2 * n - 2, 0), Exec(n), Exit>>)
        /\ \A i \in 0 .. 2 * n + 2 : C[2 * n + 2 + i] = Close(i)
        /\ \A i \in 1 .. n : C[4 * n + 4 + i] = Wait(i)
    BY <1>1, Text153
  <1> HIDE DEF C
  <1>3. Len(C) = L
    BY <1>2, ListLength
  <1>4. \A i \in 1 .. n, a \in 1 .. 2 * n + 1 : \E j \in a + 1 .. L : C[j] = Wait(i)
    <2> SUFFICES ASSUME NEW i \in 1 .. n, NEW a \in 1 .. 2 * n + 1
                 PROVE  \E j \in a + 1 .. L : C[j] = Wait(i)
      OBVIOUS
    <2>1. 4 * n + 4 + i \in a + 1 .. L
      OBVIOUS
    <2> QED BY <1>2, <2>1
  <1>5. ASSUME NEW a \in 1 .. L
        PROVE  Fits(n, C[a]) /\ Slotted("inf15_3", n, a, C[a]) /\ Ordered("inf15_3", n, a, C[a])
    <2>1. CASE \E i \in 0 .. n : a = i + 1
      <3>1. PICK i \in 0 .. n : a = i + 1
        BY <2>1
      <3>2. C[a] = Pipe(2 * i)
        BY <1>2, <3>1
      <3> QED BY <3>1, <3>2 DEF Fits, Slotted, Ordered, Used, Used153, Pipe
    <2>2. CASE a = n + 2
      <3>1. C[a] = Fork(1, <<Dup2(3, 1), Exec(1), Exit>>)
        BY <1>2, <2>2
      <3>2. InBody(n, 1, <<Dup2(3, 1), Exec(1), Exit>>)
        BY DEF InBody, Fits, Dup2, Exec, Exit
      <3>3. \E j \in a + 1 .. L : C[j] = Wait(1)
        BY <1>4, <2>2
      <3>4. Slotted("inf15_3", n, a, C[a])
        BY <3>1, <2>2 DEF Slotted, Used, Used153, Fork
      <3> QED BY <3>1, <3>2, <3>3, <3>4, <1>3 DEF Fits, Ordered, Fork, C
    <2>3. CASE \E i \in 2 .. n - 1 : a = n + 1 + i
      <3>1. PICK i \in 2 .. n - 1 : a = n + 1 + i
        BY <2>3
      <3> DEFINE B == <<Dup2(2 * i + 1, 1), Dup2(2 * (i - 1), 0), Exec(i)>>
      <3>2. C[a] = Fork(i, B)
        BY <1>2, <3>1
      <3>3. InBody(n, i, B)
        BY DEF InBody, Fits, Dup2, Exec, Exit
      <3>4. \E j \in a + 1 .. L : C[j] = Wait(i)
        <4>1. i \in 1 .. n /\ a \in 1 .. 2 * n + 1
          BY <3>1
        <4> QED BY <1>4, <4>1
      <3> HIDE DEF B
      <3>5. Slotted("inf15_3", n, a, C[a])
        BY <3>1, <3>2 DEF Slotted, Used, Used153, Fork
      <3>6. C[a].op = "fork" /\ C[a].stage = i /\ C[a].body = B
        BY <3>2 DEF Fork
      <3>7. Fits(n, C[a])
        BY <3>6 DEF Fits
      <3>8. Ordered("inf15_3", n, a, C[a])
        BY <3>3, <3>4, <3>6, <1>3 DEF Ordered, C
      <3> QED BY <3>5, <3>7, <3>8
    <2>4. CASE a = 2 * n + 1
      <3> DEFINE B == <<Dup2(2 * n - 2, 0), Exec(n), Exit>>
      <3>1. C[a] = Fork(n, B)
        BY <1>2, <2>4
      <3>2. InBody(n, n, B)
        BY DEF InBody, Fits, Dup2, Exec, Exit
      <3>3. \E j \in a + 1 .. L : C[j] = Wait(n)
        BY <1>4, <2>4
      <3> HIDE DEF B
      <3>4. Slotted("inf15_3", n, a, C[a])
        BY <3>1, <2>4 DEF Slotted, Used, Used153, Fork
      <3> QED BY SMTT(40), <3>1, <3>2, <3>3, <3>4, <1>3 DEF Fits, Ordered, Fork, C
    <2>5. CASE \E i \in 0 .. 2 * n + 2 : a = 2 * n + 2 + i
      <3>1. PICK i \in 0 .. 2 * n + 2 : a = 2 * n + 2 + i
        BY <2>5
      <3>2. C[a] = Close(i)
        BY <1>2, <3>1
      <3> QED BY <3>1, <3>2 DEF Fits, Slotted, Ordered, Used, Used153, Close
    <2>6. CASE \E i \in 1 .. n : a = 4 * n + 4 + i
      <3>1. PICK i \in 1 .. n : a = 4 * n + 4 + i
        BY <2>6
      <3>2. C[a] = Wait(i)
        BY <1>2, <3>1
      <3> QED BY <3>1, <3>2 DEF Fits, Slotted, Ordered, Used, Used153, Wait
    <2> QED BY <2>1, <2>2, <2>3, <2>4, <2>5, <2>6, Places153
  <1>6. Len(C) \in Nat /\ IsList(C, Len(C))
    BY <1>2, <1>3
  <1>7. \A a \in 1 .. Len(C) :
          Fits(n, C[a]) /\ Slotted("inf15_3", n, a, C[a]) /\ Ordered("inf15_3", n, a, C[a])
    BY <1>3, <1>5
  <1> QED BY <1>6, <1>7 DEF Rules, C

\* inf15-3.c knows where its pipes are.
LEMMA Wires153 ==
  ASSUME NEW n \in Nat, n >= 2
  PROVE  Wires("inf15_3", n)
  <1> DEFINE C == Code("inf15_3", n)
             L == 5 * n + 4
  <1>1. C = inf15_3(n)
    BY Code153
  <1>2. /\ IsList(C, L)
        /\ \A i \in 0 .. n : C[i + 1] = Pipe(2 * i)
        /\ C[n + 2] = Fork(1, <<Dup2(3, 1), Exec(1), Exit>>)
        /\ \A i \in 2 .. n - 1 :
             C[n + 1 + i] = Fork(i, <<Dup2(2 * i + 1, 1), Dup2(2 * (i - 1), 0), Exec(i)>>)
        /\ C[2 * n + 1] = Fork(n, <<Dup2(2 * n - 2, 0), Exec(n), Exit>>)
        /\ \A i \in 0 .. 2 * n + 2 : C[2 * n + 2 + i] = Close(i)
        /\ \A i \in 1 .. n : C[4 * n + 4 + i] = Wait(i)
    BY <1>1, Text153
  <1> HIDE DEF C
  <1>3. Len(C) = L
    BY <1>2, ListLength
  <1>4. \A a, s, h : Knows("inf15_3", n, a, s, h) <=> Knows153(n, a, s, h)
    BY DEF Knows
  <1>5. \A k : ForkAt("inf15_3", n, k) = n + 1 + k
    BY DEF ForkAt
  <1>6. \A j : R("inf15_3", j) = ReadEnd(<<1, j + 1>>) /\ W("inf15_3", j) = WriteEnd(<<1, j + 1>>)
    BY DEF R, W, Joint, MadeAt
  <1>7. \A j : R("inf15_3", j).end = "read" /\ W("inf15_3", j).end = "write"
    BY <1>6 DEF ReadEnd, WriteEnd
  <1>8. ASSUME NEW a \in 1 .. L
        PROVE  /\ \A s, h : Knows153(n, a, s, h) =>
                    s \in 0 .. 2 * n + 2 /\ (h = Unset \/ h.end \in {"read", "write"})
               /\ \A s, h, g : Knows153(n, a, s, h) /\ Knows153(n, a, s, g) => h = g
    BY <1>7 DEF Knows153, Both
  <1>9. ASSUME NEW a \in 1 .. L, a # 2 * n + 1, a > n + 1
        PROVE  \A s, h : Knows153(n, a + 1, s, h) => Knows153(n, a, s, h)
    BY <1>9 DEF Knows153
  <1>10. ASSUME NEW a \in 1 .. L, a > 2 * n
         PROVE  \A s, h : ~Knows153(n, a + 1, s, h)
    BY <1>10 DEF Knows153
  <1>11. ASSUME NEW a \in 1 .. L
         PROVE  Learns("inf15_3", n, a, C[a]) /\ Orders("inf15_3", n, a, C[a])
    <2>1. CASE \E i \in 0 .. n : a = i + 1
      <3>1. PICK i \in 0 .. n : a = i + 1
        BY <2>1
      <3>2. C[a] = Pipe(2 * i)
        BY <1>2, <3>1
      <3>3. \A s, h : Knows153(n, a + 1, s, h) =>
              \/ s = 2 * i /\ h = ReadEnd(<<1, a>>)
              \/ s = 2 * i + 1 /\ h = WriteEnd(<<1, a>>)
              \/ Knows153(n, a, s, h) /\ s \notin {2 * i, 2 * i + 1}
        <4> SUFFICES ASSUME NEW s, NEW h, Knows153(n, a + 1, s, h)
                     PROVE  \/ s = 2 * i /\ h = ReadEnd(<<1, a>>)
                            \/ s = 2 * i + 1 /\ h = WriteEnd(<<1, a>>)
                            \/ Knows153(n, a, s, h) /\ s \notin {2 * i, 2 * i + 1}
          OBVIOUS
        <4>1. PICK j \in 0 .. n : j < a /\ Both("inf15_3", j, 2 * j, s, h)
          BY <3>1 DEF Knows153
        <4>2. CASE j = i
          BY <4>1, <4>2, <1>6, <3>1 DEF Both
        <4>3. CASE j # i
          <5>1. j < a - 1 /\ a <= 2 * n + 1
            BY <4>1, <4>3, <3>1
          <5>2. Knows153(n, a, s, h)
            BY <4>1, <5>1 DEF Knows153
          <5>3. s \notin {2 * i, 2 * i + 1}
            BY <4>1, <4>3 DEF Both
          <5> QED BY <5>2, <5>3
        <4> QED BY <4>2, <4>3
      <3>4. Learns("inf15_3", n, a, C[a])
        BY <3>2, <3>3, <1>4, <1>8 DEF Learns, Pipe
      <3>5. Orders("inf15_3", n, a, C[a])
        BY <3>1, <3>2, <1>5 DEF Orders, Pipe
      <3> QED BY <3>4, <3>5
    <2>2. CASE \E i \in 1 .. n : \E b : a = n + 1 + i /\ C[a] = Fork(i, b)
      <3>1. PICK i \in 1 .. n : \E b : a = n + 1 + i /\ C[a] = Fork(i, b)
        BY <2>2
      <3>2. PICK b : a = n + 1 + i /\ C[a] = Fork(i, b)
        BY <3>1
      <3>3. \A s, h : Knows153(n, a + 1, s, h) => Knows153(n, a, s, h)
        BY <1>9, <1>10, <3>2
      <3>4. Learns("inf15_3", n, a, C[a])
        BY <3>2, <3>3, <1>4, <1>8 DEF Learns, Fork
      <3>5. Orders("inf15_3", n, a, C[a])
        BY <3>2, <1>5 DEF Orders, Fork
      <3> QED BY <3>4, <3>5
    <2>3. CASE \E i \in 0 .. 2 * n + 2 : a = 2 * n + 2 + i
      <3>1. PICK i \in 0 .. 2 * n + 2 : a = 2 * n + 2 + i
        BY <2>3
      <3>2. C[a] = Close(i)
        BY <1>2, <3>1
      <3>3. Learns("inf15_3", n, a, C[a])
        BY <3>1, <3>2, <1>4, <1>5, <1>8, <1>10 DEF Learns, Close
      <3>4. Orders("inf15_3", n, a, C[a])
        BY <3>1, <3>2, <1>5 DEF Orders, Close
      <3> QED BY <3>3, <3>4
    <2>4. CASE \E i \in 1 .. n : a = 4 * n + 4 + i
      <3>1. PICK i \in 1 .. n : a = 4 * n + 4 + i
        BY <2>4
      <3>2. C[a] = Wait(i)
        BY <1>2, <3>1
      <3>3. Learns("inf15_3", n, a, C[a])
        BY <3>1, <3>2, <1>4, <1>8, <1>10 DEF Learns, Wait
      <3>4. Orders("inf15_3", n, a, C[a])
        BY <3>1, <3>2, <1>5 DEF Orders, Wait
      <3> QED BY <3>3, <3>4
    <2>5. ASSUME \/ a = n + 2
                 \/ \E i \in 2 .. n - 1 : a = n + 1 + i
                 \/ a = 2 * n + 1
          PROVE  \E i \in 1 .. n : \E b : a = n + 1 + i /\ C[a] = Fork(i, b)
      <3>1. CASE a = n + 2
        <4>1. 1 \in 1 .. n /\ a = n + 1 + 1
          BY <3>1
        <4> QED BY <4>1, <1>2, <3>1
      <3>2. CASE \E i \in 2 .. n - 1 : a = n + 1 + i
        <4>1. PICK i \in 2 .. n - 1 : a = n + 1 + i
          BY <3>2
        <4>2. i \in 1 .. n
          OBVIOUS
        <4> QED BY <4>1, <4>2, <1>2
      <3>3. CASE a = 2 * n + 1
        <4>1. n \in 1 .. n /\ a = n + 1 + n
          BY <3>3
        <4> QED BY <4>1, <1>2, <3>3
      <3> QED BY <2>5, <3>1, <3>2, <3>3
    <2> QED BY <2>1, <2>2, <2>3, <2>4, <2>5, Places153
  <1> QED BY <1>3, <1>11 DEF Wires, C

\* With two programs or more inf15-4.c has its long text.
LEMMA Code154 == \A n \in Nat : n >= 2 => Code("inf15_4", n) = inf15_4(n)
  BY DEF Code

\* The places in the text of inf15-4.c.
LEMMA Places154 ==
  ASSUME NEW n \in Nat, n >= 2, NEW a \in 1 .. 6 * n - 5
  PROVE  \/ a \in 1 .. 4
         \/ \E i \in 2 .. n - 1 : \E r \in 0 .. 5 : a = 6 * i - 7 + r
         \/ \E r \in 0 .. 2 : a = 6 * n - 7 + r
  <1>1. CASE a \in 5 .. 6 * n - 8
    <2>1. /\ (a + 7) \div 6 \in 2 .. n - 1 /\ (a + 7) % 6 \in 0 .. 5
          /\ a = 6 * ((a + 7) \div 6) - 7 + ((a + 7) % 6)
      BY <1>1
    <2> QED BY <2>1
  <1>2. CASE a > 6 * n - 8
    <2>1. a - (6 * n - 7) \in 0 .. 2 /\ a = 6 * n - 7 + (a - (6 * n - 7))
      BY <1>2
    <2> QED BY <2>1
  <1> QED BY <1>1, <1>2

\* The list c is the text of inf15-4.c for n programs.
Is154(c, n) ==
  /\ IsList(c, 6 * n - 5)
  /\ c[1] = Pipe(0)
  /\ c[2] = Fork(1, <<Dup2(1, 1), Close(0), Exec(1)>>)
  /\ c[3] = Wait(1) /\ c[4] = Close(1)
  /\ \A i \in 2 .. n - 1 :
        /\ c[6 * i - 7] = Pipe(2)
        /\ c[6 * i - 6] = Fork(i, <<Dup2(0, 0), Dup2(3, 1), Close(3), Exec(i)>>)
        /\ c[6 * i - 5] = Wait(i)
        /\ c[6 * i - 4] = Close(0)
        /\ c[6 * i - 3] = Close(3)
        /\ c[6 * i - 2] = Assign(0, 2)
  /\ c[6 * n - 7] = Fork(n, <<Dup2(0, 0), Close(0), Exec(n)>>)
  /\ c[6 * n - 6] = Wait(n)
  /\ c[6 * n - 5] = Close(0)

\* The text of inf15-4.c is that list.
LEMMA Listed154 ==
  ASSUME NEW n \in Nat, n >= 2
  PROVE  Is154(Code("inf15_4", n), n)
  <1>1. Code("inf15_4", n) = inf15_4(n)
    BY Code154
  <1>2. Is154(inf15_4(n), n)
    BY Text154 DEF Is154
  <1> QED BY <1>1, <1>2

\* The text of inf15-4.c keeps the rules.
LEMMA Rules154 ==
  ASSUME NEW n \in Nat, n >= 2
  PROVE  Rules("inf15_4", n)
  <1> DEFINE C == Code("inf15_4", n)
             L == 6 * n - 5
  <1>1. Is154(C, n)
    BY Listed154
  <1> HIDE DEF C
  <1>2. /\ IsList(C, L)
        /\ C[1] = Pipe(0)
        /\ C[2] = Fork(1, <<Dup2(1, 1), Close(0), Exec(1)>>)
        /\ C[3] = Wait(1) /\ C[4] = Close(1)
        /\ \A i \in 2 .. n - 1 :
              /\ C[6 * i - 7] = Pipe(2)
              /\ C[6 * i - 6] = Fork(i, <<Dup2(0, 0), Dup2(3, 1), Close(3), Exec(i)>>)
              /\ C[6 * i - 5] = Wait(i)
              /\ C[6 * i - 4] = Close(0)
              /\ C[6 * i - 3] = Close(3)
              /\ C[6 * i - 2] = Assign(0, 2)
        /\ C[6 * n - 7] = Fork(n, <<Dup2(0, 0), Close(0), Exec(n)>>)
        /\ C[6 * n - 6] = Wait(n)
        /\ C[6 * n - 5] = Close(0)
    BY <1>1 DEF Is154
  <1>3. Len(C) = L
    BY SMTT(40), <1>2, ListLength
  <1>4. \A a, s : Used("inf15_4", n, a, s) <=> Used154(n, a, s)
    BY DEF Used
  <1>5. ASSUME NEW a \in 1 .. L
        PROVE  Fits(n, C[a]) /\ Slotted("inf15_4", n, a, C[a]) /\ Ordered("inf15_4", n, a, C[a])
    <2>1. CASE a = 1
      <3>1. \A s : ~Used154(n, a, s)
        BY <2>1 DEF Used154
      <3>2. Used154(n, a + 1, 0) /\ Used154(n, a + 1, 1)
        BY <2>1 DEF Used154
      <3> QED BY <1>2, <1>4, <2>1, <3>1, <3>2 DEF Fits, Slotted, Ordered, Pipe
    <2>2. CASE a = 2
      <3> DEFINE B == <<Dup2(1, 1), Close(0), Exec(1)>>
      <3>1. C[a] = Fork(1, B)
        BY <1>2, <2>2
      <3>2. InBody(n, 1, B)
        BY DEF InBody, Fits, Dup2, Exec, Close
      <3>3. 3 \in a + 1 .. L /\ C[3] = Wait(1)
        BY <1>2, <2>2
      <3>4. \A s : Used154(n, a, s) => Used154(n, a + 1, s)
        BY <2>2 DEF Used154
      <3> HIDE DEF B
      <3>5. Slotted("inf15_4", n, a, C[a])
        BY <3>1, <3>4, <1>4 DEF Slotted, Fork
      <3> QED BY <3>1, <3>2, <3>3, <3>5, <1>3 DEF Fits, Ordered, Fork, C
    <2>3. CASE a = 3
      <3>1. \A s : Used154(n, a, s) => Used154(n, a + 1, s)
        BY <2>3 DEF Used154
      <3> QED BY <1>2, <1>4, <2>3, <3>1 DEF Fits, Slotted, Ordered, Wait
    <2>4. CASE a = 4
      <3>1. \A s : Used154(n, a, s) /\ s # 1 => Used154(n, a + 1, s)
        <4>1. \A s : Used154(n, a, s) /\ s # 1 => s = 0
          BY <2>4 DEF Used154
        <4>2. CASE n = 2
          BY <4>1, <4>2, <2>4 DEF Used154
        <4>3. CASE n > 2
          <5>1. 2 \in 2 .. n - 1 /\ a + 1 \in 6 * 2 - 7 .. 6 * 2 - 4
            BY <4>3, <2>4
          <5> QED BY <4>1, <5>1 DEF Used154
        <4> QED BY <4>2, <4>3
      <3> QED BY <1>2, <1>4, <2>4, <3>1 DEF Fits, Slotted, Ordered, Close
    <2>5. CASE \E i \in 2 .. n - 1 : \E r \in 0 .. 5 : a = 6 * i - 7 + r
      <3>1. PICK i \in 2 .. n - 1 : \E r \in 0 .. 5 : a = 6 * i - 7 + r
        BY <2>5
      <3>2. PICK r \in 0 .. 5 : a = 6 * i - 7 + r
        BY <3>1
      <3>13. /\ C[6 * i - 7] = Pipe(2)
             /\ C[6 * i - 6] = Fork(i, <<Dup2(0, 0), Dup2(3, 1), Close(3), Exec(i)>>)
             /\ C[6 * i - 5] = Wait(i) /\ C[6 * i - 4] = Close(0)
             /\ C[6 * i - 3] = Close(3) /\ C[6 * i - 2] = Assign(0, 2)
        BY <1>2
      <3>3. \A s : Used154(n, 6 * i - 7, s) <=> s = 0
        BY DEF Used154
      <3>4. \A s : /\ Used154(n, 6 * i - 6, s) <=> s \in {0, 2, 3}
                   /\ Used154(n, 6 * i - 5, s) <=> s \in {0, 2, 3}
                   /\ Used154(n, 6 * i - 4, s) <=> s \in {0, 2, 3}
        BY DEF Used154
      <3>5. \A s : /\ Used154(n, 6 * i - 3, s) <=> s \in {2, 3}
                   /\ Used154(n, 6 * i - 2, s) <=> s = 2
        BY DEF Used154
      <3>6. Used154(n, 6 * i - 1, 0)
        <4>1. CASE i = n - 1
          BY <4>1 DEF Used154
        <4>2. CASE i < n - 1
          <5>1. i + 1 \in 2 .. n - 1 /\ 6 * i - 1 \in 6 * (i + 1) - 7 .. 6 * (i + 1) - 4
            BY <4>2
          <5> QED BY <5>1 DEF Used154
        <4> QED BY <4>1, <4>2
      <3>7. CASE r = 0
        <4>1. C[a] = Pipe(2) /\ a = 6 * i - 7 /\ a + 1 = 6 * i - 6
          BY <3>13, <3>2, <3>7
        <4> QED BY <4>1, <3>3, <3>4, <1>4 DEF Fits, Slotted, Ordered, Pipe
      <3>8. CASE r = 1
        <4> DEFINE B == <<Dup2(0, 0), Dup2(3, 1), Close(3), Exec(i)>>
        <4>1. C[a] = Fork(i, B) /\ a = 6 * i - 6 /\ a + 1 = 6 * i - 5
          BY <3>13, <3>2, <3>8
        <4>2. InBody(n, i, B)
          BY DEF InBody, Fits, Dup2, Exec, Close
        <4>3. 6 * i - 5 \in a + 1 .. L /\ C[6 * i - 5] = Wait(i)
          BY <1>2, <4>1
        <4> HIDE DEF B
        <4>4. Slotted("inf15_4", n, a, C[a])
          BY <4>1, <3>4, <1>4 DEF Slotted, Fork
        <4> QED BY SMTT(40), <4>1, <4>2, <4>3, <4>4, <1>3 DEF Fits, Ordered, Fork, C
      <3>9. CASE r = 2
        <4>1. C[a] = Wait(i) /\ a = 6 * i - 5 /\ a + 1 = 6 * i - 4
          BY <3>13, <3>2, <3>9
        <4> QED BY <4>1, <3>4, <1>4 DEF Fits, Slotted, Ordered, Wait
      <3>10. CASE r = 3
        <4>1. C[a] = Close(0) /\ a = 6 * i - 4 /\ a + 1 = 6 * i - 3
          BY <3>13, <3>2, <3>10
        <4> QED BY <4>1, <3>4, <3>5, <1>4 DEF Fits, Slotted, Ordered, Close
      <3>11. CASE r = 4
        <4>1. C[a] = Close(3) /\ a = 6 * i - 3 /\ a + 1 = 6 * i - 2
          BY <3>13, <3>2, <3>11
        <4> QED BY <4>1, <3>5, <1>4 DEF Fits, Slotted, Ordered, Close
      <3>12. CASE r = 5
        <4>1. C[a] = Assign(0, 2) /\ a = 6 * i - 2 /\ a + 1 = 6 * i - 1
          BY <3>13, <3>2, <3>12
        <4>2. Fits(n, C[a]) /\ Ordered("inf15_4", n, a, C[a])
          BY <4>1 DEF Fits, Ordered, Assign
        <4>3. Slotted("inf15_4", n, a, C[a])
          BY <4>1, <3>5, <3>6, <1>4 DEF Slotted, Assign
        <4> QED BY <4>2, <4>3
      <3> QED BY <3>2, <3>7, <3>8, <3>9, <3>10, <3>11, <3>12
    <2>6. CASE \E r \in 0 .. 2 : a = 6 * n - 7 + r
      <3>1. PICK r \in 0 .. 2 : a = 6 * n - 7 + r
        BY <2>6
      <3>2. \A b, s : b \in {6 * n - 7, 6 * n - 6, 6 * n - 5, 6 * n - 4} => (Used154(n, b, s) <=> s = 0 \/ (n = 1 /\ Used154(n, b, s)))
        BY DEF Used154
      <3>3. \A b, s : b \in {6 * n - 7, 6 * n - 6, 6 * n - 5, 6 * n - 4} => (Used154(n, b, s) <=> s = 0)
        BY <3>2
      <3>4. CASE r = 0
        <4> DEFINE B == <<Dup2(0, 0), Close(0), Exec(n)>>
        <4>1. C[a] = Fork(n, B) /\ a = 6 * n - 7 /\ a + 1 = 6 * n - 6
          BY <1>2, <3>1, <3>4
        <4>2. InBody(n, n, B)
          BY DEF InBody, Fits, Dup2, Exec, Close
        <4>3. 6 * n - 6 \in a + 1 .. L /\ C[6 * n - 6] = Wait(n)
          BY <1>2, <4>1
        <4> HIDE DEF B
        <4>4. Slotted("inf15_4", n, a, C[a])
          BY <4>1, <3>3, <1>4 DEF Slotted, Fork
        <4> QED BY SMTT(40), <4>1, <4>2, <4>3, <4>4, <1>3 DEF Fits, Ordered, Fork, C
      <3>5. CASE r = 1
        <4>1. C[a] = Wait(n) /\ a = 6 * n - 6 /\ a + 1 = 6 * n - 5
          BY <1>2, <3>1, <3>5
        <4> QED BY <4>1, <3>3, <1>4 DEF Fits, Slotted, Ordered, Wait
      <3>6. CASE r = 2
        <4>1. C[a] = Close(0) /\ a = 6 * n - 5 /\ a + 1 = 6 * n - 4
          BY <1>2, <3>1, <3>6
        <4> QED BY <4>1, <3>3, <1>4 DEF Fits, Slotted, Ordered, Close
      <3> QED BY <3>1, <3>4, <3>5, <3>6
    <2> QED BY SMTT(40), <2>1, <2>2, <2>3, <2>4, <2>5, <2>6, Places154
  <1>6. Len(C) \in Nat /\ IsList(C, Len(C))
    BY <1>2, <1>3
  <1>7. \A a \in 1 .. Len(C) :
          Fits(n, C[a]) /\ Slotted("inf15_4", n, a, C[a]) /\ Ordered("inf15_4", n, a, C[a])
    BY <1>3, <1>5
  <1> QED BY <1>6, <1>7 DEF Rules, C

\* The ends of pipes differ.
LEMMA Ends ==
  /\ \A l, k : /\ R(l, k).end = "read" /\ W(l, k).end = "write" /\ R(l, k) # W(l, k)
               /\ R(l, k) # Unset /\ W(l, k) # Unset
  /\ \A l, j, k : MadeAt(l, j) # MadeAt(l, k) =>
       /\ R(l, j) # R(l, k) /\ W(l, j) # W(l, k) /\ R(l, j) # W(l, k)
  BY DEF R, W, ReadEnd, WriteEnd, Joint, Unset

\* The pipes are made at different places.
LEMMA MadeApart ==
  \A n \in Nat : \A i, j \in 0 .. n :
    /\ i # j => MadeAt("inf15_3", i) # MadeAt("inf15_3", j)
    /\ (i # j /\ i > 0 /\ j > 0) => /\ MadeAt("inf15_4", i) # MadeAt("inf15_4", j)
                                    /\ MadeAt("main_c", i) # MadeAt("main_c", j)
  BY DEF MadeAt

\* What the launcher of inf15-4.c knows at each of its places.
LEMMA Known154 ==
  ASSUME NEW n \in Nat, n >= 2
  PROVE  LET K(a, s, h) == Knows("inf15_4", n, a, s, h)
             r(k) == R("inf15_4", k)
             w(k) == W("inf15_4", k)
         IN  /\ \A s, h : /\ ~K(1, s, h) /\ ~K(6 * n - 4, s, h)
                          /\ \A a \in 2 .. 4 : K(a, s, h) <=> (s = 0 /\ h = r(1)) \/ (s = 1 /\ h = w(1))
             /\ \A i \in 2 .. n - 1 : \A s, h :
                  /\ K(6 * i - 7, s, h) <=> (s = 0 /\ h = r(i - 1))
                  /\ \A a \in 6 * i - 6 .. 6 * i - 4 :
                       K(a, s, h) <=> (s = 0 /\ h = r(i - 1)) \/ (s = 2 /\ h = r(i)) \/ (s = 3 /\ h = w(i))
                  /\ K(6 * i - 3, s, h) <=> (s = 2 /\ h = r(i)) \/ (s = 3 /\ h = w(i))
                  /\ K(6 * i - 2, s, h) <=> (s = 2 /\ h = r(i))
             /\ \A i \in 2 .. n : \A s, h : K(6 * i - 7, s, h) <=> (s = 0 /\ h = r(i - 1))
             /\ \A a \in 6 * n - 7 .. 6 * n - 5 : \A s, h : K(a, s, h) <=> (s = 0 /\ h = r(n - 1))
  <1>1. \A a, s, h : Knows("inf15_4", n, a, s, h) <=> Knows154(n, a, s, h)
    BY DEF Knows
  <1>2. \A s, h : ~Knows154(n, 1, s, h) /\ ~Knows154(n, 6 * n - 4, s, h)
    BY DEF Knows154
  <1>3. \A s, h : \A a \in 2 .. 4 :
          Knows154(n, a, s, h) <=> (s = 0 /\ h = R("inf15_4", 1)) \/ (s = 1 /\ h = W("inf15_4", 1))
    BY DEF Knows154, Both
  <1>4. ASSUME NEW i \in 2 .. n - 1
        PROVE  \A s, h : /\ Knows154(n, 6 * i - 7, s, h) <=> (s = 0 /\ h = R("inf15_4", i - 1))
                         /\ Knows154(n, 6 * i - 2, s, h) <=> (s = 2 /\ h = R("inf15_4", i))
    BY DEF Knows154, Both, Reader
  <1>5. ASSUME NEW i \in 2 .. n - 1
        PROVE  \A s, h : Knows154(n, 6 * i - 3, s, h) <=>
                           (s = 2 /\ h = R("inf15_4", i)) \/ (s = 3 /\ h = W("inf15_4", i))
    BY DEF Knows154, Both, Reader
  <1>6. ASSUME NEW i \in 2 .. n - 1, NEW a \in 6 * i - 6 .. 6 * i - 4
        PROVE  \A s, h : Knows154(n, a, s, h) <=>
                           \/ s = 0 /\ h = R("inf15_4", i - 1)
                           \/ s = 2 /\ h = R("inf15_4", i)
                           \/ s = 3 /\ h = W("inf15_4", i)
    BY DEF Knows154, Both, Reader
  <1>7. ASSUME NEW a \in 6 * n - 7 .. 6 * n - 5
        PROVE  \A s, h : Knows154(n, a, s, h) <=> (s = 0 /\ h = R("inf15_4", n - 1))
    BY DEF Knows154, Both, Reader
  <1>8. ASSUME NEW i \in 2 .. n
        PROVE  \A s, h : Knows154(n, 6 * i - 7, s, h) <=> (s = 0 /\ h = R("inf15_4", i - 1))
    <2>1. CASE i = n
      <3>1. 6 * i - 7 \in 6 * n - 7 .. 6 * n - 5
        BY <2>1
      <3> QED BY <1>7, <3>1, <2>1
    <2>2. CASE i # n
      BY <1>4, <2>2
    <2> QED BY <2>1, <2>2
  <1> QED BY <1>1, <1>2, <1>3, <1>4, <1>5, <1>6, <1>7, <1>8

\* inf15-4.c knows where its pipes are.
LEMMA Wires154 ==
  ASSUME NEW n \in Nat, n >= 2
  PROVE  Wires("inf15_4", n)
  <1> DEFINE C == Code("inf15_4", n)
             L == 6 * n - 5
             K(a, s, h) == Knows("inf15_4", n, a, s, h)
             r(k) == R("inf15_4", k)
             w(k) == W("inf15_4", k)
  <1>1. Is154(C, n)
    BY Listed154
  <1> HIDE DEF C
  <1>2. /\ IsList(C, L)
        /\ C[1] = Pipe(0)
        /\ C[2] = Fork(1, <<Dup2(1, 1), Close(0), Exec(1)>>)
        /\ C[3] = Wait(1) /\ C[4] = Close(1)
        /\ \A i \in 2 .. n - 1 :
              /\ C[6 * i - 7] = Pipe(2)
              /\ C[6 * i - 6] = Fork(i, <<Dup2(0, 0), Dup2(3, 1), Close(3), Exec(i)>>)
              /\ C[6 * i - 5] = Wait(i)
              /\ C[6 * i - 4] = Close(0)
              /\ C[6 * i - 3] = Close(3)
              /\ C[6 * i - 2] = Assign(0, 2)
        /\ C[6 * n - 7] = Fork(n, <<Dup2(0, 0), Close(0), Exec(n)>>)
        /\ C[6 * n - 6] = Wait(n)
        /\ C[6 * n - 5] = Close(0)
    BY <1>1 DEF Is154
  <1>3. Len(C) = L
    BY <1>2, ListLength
  <1>4. /\ \A s, h : /\ ~K(1, s, h) /\ ~K(6 * n - 4, s, h)
                     /\ \A a \in 2 .. 4 : K(a, s, h) <=> (s = 0 /\ h = r(1)) \/ (s = 1 /\ h = w(1))
        /\ \A i \in 2 .. n - 1 : \A s, h :
             /\ K(6 * i - 7, s, h) <=> (s = 0 /\ h = r(i - 1))
             /\ \A a \in 6 * i - 6 .. 6 * i - 4 :
                  K(a, s, h) <=> (s = 0 /\ h = r(i - 1)) \/ (s = 2 /\ h = r(i)) \/ (s = 3 /\ h = w(i))
             /\ K(6 * i - 3, s, h) <=> (s = 2 /\ h = r(i)) \/ (s = 3 /\ h = w(i))
             /\ K(6 * i - 2, s, h) <=> (s = 2 /\ h = r(i))
        /\ \A i \in 2 .. n : \A s, h : K(6 * i - 7, s, h) <=> (s = 0 /\ h = r(i - 1))
        /\ \A a \in 6 * n - 7 .. 6 * n - 5 : \A s, h : K(a, s, h) <=> (s = 0 /\ h = r(n - 1))
    BY Known154
  <1>5. /\ ForkAt("inf15_4", n, 1) = 2 /\ ForkAt("inf15_4", n, n) = 6 * n - 7
        /\ \A i \in 2 .. n - 1 : ForkAt("inf15_4", n, i) = 6 * i - 6
    BY DEF ForkAt
  <1>6. /\ \A k : r(k).end = "read" /\ w(k).end = "write" /\ r(k) # w(k)
        /\ \A k : r(k) # Unset /\ w(k) # Unset
        /\ \A i, j \in 1 .. n : i # j => r(i) # r(j) /\ w(i) # w(j) /\ r(i) # w(j)
    <2>1. \A i, j \in 1 .. n : i # j => MadeAt("inf15_4", i) # MadeAt("inf15_4", j)
      BY MadeApart
    <2> QED BY <2>1, Ends
  <1>7. /\ r(1) = ReadEnd(<<1, 1>>) /\ w(1) = WriteEnd(<<1, 1>>)
        /\ \A i \in 2 .. n - 1 : r(i) = ReadEnd(<<1, 6 * i - 7>>) /\ w(i) = WriteEnd(<<1, 6 * i - 7>>)
    BY DEF R, W, Joint, MadeAt
  <1> HIDE DEF K, r, w
  <1>8. ASSUME NEW a \in 1 .. L
        PROVE  Learns("inf15_4", n, a, C[a]) /\ Orders("inf15_4", n, a, C[a])
    <2> DEFINE Sane == /\ \A s, h : K(a, s, h) => s \in 0 .. 2 * n + 2 /\ (h = Unset \/ h.end \in {"read", "write"})
                       /\ \A s, h, g : K(a, s, h) /\ K(a, s, g) => h = g
    <2>1. CASE a = 1
      <3>1. C[a] = Pipe(0)
        BY <1>2, <2>1
      <3>2. Sane
        BY <1>4, <2>1
      <3>3. \A s, h : K(2, s, h) => (s = 0 /\ h = ReadEnd(<<1, 1>>)) \/ (s = 1 /\ h = WriteEnd(<<1, 1>>))
        BY <1>4, <1>7
      <3> QED BY <3>1, <3>2, <3>3, <2>1, <1>5 DEF Learns, Orders, Pipe, K
    <2>2. CASE a = 2
      <3>1. C[a] = Fork(1, <<Dup2(1, 1), Close(0), Exec(1)>>)
        BY <1>2, <2>2
      <3>2. Sane
        BY <1>4, <1>6, <2>2
      <3>3. \A s, h : K(3, s, h) => K(2, s, h)
        BY <1>4
      <3> QED BY <3>1, <3>2, <3>3, <2>2, <1>5 DEF Learns, Orders, Fork, K
    <2>3. CASE a = 3
      <3>1. C[a] = Wait(1)
        BY <1>2, <2>3
      <3>2. Sane
        BY <1>4, <1>6, <2>3
      <3>3. \A s, h : K(4, s, h) => K(3, s, h)
        BY <1>4
      <3> QED BY <3>1, <3>2, <3>3, <2>3, <1>5 DEF Learns, Orders, Wait, K
    <2>4. CASE a = 4
      <3>1. C[a] = Close(1)
        BY <1>2, <2>4
      <3>2. Sane
        BY <1>4, <1>6, <2>4
      <3>3. K(4, 1, w(1))
        BY <1>4
      <3>4. \A s, h : K(5, s, h) => s = 0 /\ h = r(1)
        <4>1. 2 \in 2 .. n /\ 6 * 2 - 7 = 5
          OBVIOUS
        <4> QED BY <1>4, <4>1
      <3>5. \A s, h : K(5, s, h) => K(4, s, h) /\ h # w(1)
        BY <1>4, <1>6, <3>4
      <3> QED BY <3>1, <3>2, <3>3, <3>5, <2>4, <1>5 DEF Learns, Orders, Close, K
    <2>5. CASE \E i \in 2 .. n - 1 : \E q \in 0 .. 5 : a = 6 * i - 7 + q
      <3>1. PICK i \in 2 .. n - 1 : \E q \in 0 .. 5 : a = 6 * i - 7 + q
        BY <2>5
      <3>2. PICK q \in 0 .. 5 : a = 6 * i - 7 + q
        BY <3>1
      <3>3. /\ C[6 * i - 7] = Pipe(2)
            /\ C[6 * i - 6] = Fork(i, <<Dup2(0, 0), Dup2(3, 1), Close(3), Exec(i)>>)
            /\ C[6 * i - 5] = Wait(i) /\ C[6 * i - 4] = Close(0)
            /\ C[6 * i - 3] = Close(3) /\ C[6 * i - 2] = Assign(0, 2)
        BY <1>2
      <3>4. \A s, h : /\ K(6 * i - 7, s, h) <=> (s = 0 /\ h = r(i - 1))
                      /\ K(6 * i - 3, s, h) <=> (s = 2 /\ h = r(i)) \/ (s = 3 /\ h = w(i))
                      /\ K(6 * i - 2, s, h) <=> (s = 2 /\ h = r(i))
                      /\ K(6 * i - 1, s, h) <=> (s = 0 /\ h = r(i))
        <4>1. i + 1 \in 2 .. n /\ 6 * (i + 1) - 7 = 6 * i - 1 /\ (i + 1) - 1 = i
          OBVIOUS
        <4>2. \A s, h : K(6 * (i + 1) - 7, s, h) <=> (s = 0 /\ h = r((i + 1) - 1))
          BY <1>4, <4>1
        <4> QED BY <1>4, <4>1, <4>2
      <3>5. \A s, h : \A b \in 6 * i - 6 .. 6 * i - 4 :
              K(b, s, h) <=> (s = 0 /\ h = r(i - 1)) \/ (s = 2 /\ h = r(i)) \/ (s = 3 /\ h = w(i))
        BY <1>4
      <3>6. /\ r(i) # w(i) /\ r(i - 1) # r(i) /\ r(i - 1) # w(i)
            /\ ForkAt("inf15_4", n, n) = 6 * n - 7 /\ ForkAt("inf15_4", n, i) = 6 * i - 6
        BY <1>5, <1>6
      <3>7. \A k : r(k).end = "read" /\ w(k).end = "write"
        BY <1>6
      <3>8. a < ForkAt("inf15_4", n, n)
        BY <3>2, <3>6
      <3>9. CASE q = 0
        <4>1. C[a] = Pipe(2) /\ a = 6 * i - 7 /\ a + 1 = 6 * i - 6
          BY <3>3, <3>2, <3>9
        <4>2. Sane
          BY <4>1, <3>4, <3>7
        <4>3. \A s, h : K(a + 1, s, h) => \/ s = 2 /\ h = ReadEnd(<<1, a>>)
                                          \/ s = 3 /\ h = WriteEnd(<<1, a>>)
                                          \/ K(a, s, h) /\ s \notin {2, 3}
          BY <4>1, <3>4, <3>5, <1>7
        <4> QED BY <4>1, <4>2, <4>3, <3>8 DEF Learns, Orders, Pipe, K
      <3>10. CASE q = 1
        <4> DEFINE B == <<Dup2(0, 0), Dup2(3, 1), Close(3), Exec(i)>>
        <4>1. C[a] = Fork(i, B) /\ a = 6 * i - 6 /\ a + 1 = 6 * i - 5
          BY <3>3, <3>2, <3>10
        <4> HIDE DEF B
        <4>2. Sane
          BY <4>1, <3>5, <3>7
        <4>3. \A s, h : K(a + 1, s, h) => K(a, s, h)
          BY <4>1, <3>5
        <4> QED BY <4>1, <4>2, <4>3, <3>6 DEF Learns, Orders, Fork, K
      <3>11. CASE q = 2
        <4>1. C[a] = Wait(i) /\ a = 6 * i - 5 /\ a + 1 = 6 * i - 4
          BY <3>3, <3>2, <3>11
        <4>2. Sane
          BY <4>1, <3>5, <3>7
        <4>3. \A s, h : K(a + 1, s, h) => K(a, s, h)
          BY <4>1, <3>5
        <4> QED BY <4>1, <4>2, <4>3 DEF Learns, Orders, Wait, K
      <3>12. CASE q = 3
        <4>1. C[a] = Close(0) /\ a = 6 * i - 4 /\ a + 1 = 6 * i - 3
          BY <3>3, <3>2, <3>12
        <4>2. Sane
          BY <4>1, <3>5, <3>7
        <4>3. K(a, 0, r(i - 1))
          BY <4>1, <3>5
        <4>4. \A s, h : K(a + 1, s, h) => K(a, s, h) /\ r(i - 1) # h
          BY <4>1, <3>4, <3>5, <3>6
        <4> QED BY <4>1, <4>2, <4>3, <4>4 DEF Learns, Orders, Close, K
      <3>13. CASE q = 4
        <4>1. C[a] = Close(3) /\ a = 6 * i - 3 /\ a + 1 = 6 * i - 2
          BY <3>3, <3>2, <3>13
        <4>2. Sane
          BY <4>1, <3>4, <3>7
        <4>3. K(a, 3, w(i))
          BY <4>1, <3>4
        <4>4. \A s, h : K(a + 1, s, h) => K(a, s, h) /\ w(i) # h
          BY <4>1, <3>4, <3>6
        <4> QED BY <4>1, <4>2, <4>3, <4>4 DEF Learns, Orders, Close, K
      <3>14. CASE q = 5
        <4>1. C[a] = Assign(0, 2) /\ a = 6 * i - 2 /\ a + 1 = 6 * i - 1
          BY <3>3, <3>2, <3>14
        <4>2. Sane
          BY <4>1, <3>4, <3>7
        <4>3. \A s, h : K(a + 1, s, h) => s = 0 /\ K(a, 2, h)
          BY <4>1, <3>4
        <4> QED BY <4>1, <4>2, <4>3 DEF Learns, Orders, Assign, K
      <3> QED BY <3>2, <3>9, <3>10, <3>11, <3>12, <3>13, <3>14
    <2>6. CASE \E q \in 0 .. 2 : a = 6 * n - 7 + q
      <3>1. PICK q \in 0 .. 2 : a = 6 * n - 7 + q
        BY <2>6
      <3>2. \A b \in 6 * n - 7 .. 6 * n - 5 : \A s, h : K(b, s, h) <=> (s = 0 /\ h = r(n - 1))
        BY <1>4
      <3>3. Sane
        <4>1. r(n - 1).end = "read"
          BY <1>6
        <4>2. a \in 6 * n - 7 .. 6 * n - 5
          BY <3>1
        <4> QED BY <3>2, <4>1, <4>2
      <3>4. CASE q = 0
        <4> DEFINE B == <<Dup2(0, 0), Close(0), Exec(n)>>
        <4>1. C[a] = Fork(n, B) /\ a = 6 * n - 7 /\ a + 1 = 6 * n - 6
          BY <1>2, <3>1, <3>4
        <4> HIDE DEF B
        <4>2. \A s, h : K(a + 1, s, h) => K(a, s, h)
          BY <4>1, <3>2
        <4> QED BY <4>1, <4>2, <3>3, <1>5 DEF Learns, Orders, Fork, K
      <3>5. CASE q = 1
        <4>1. C[a] = Wait(n) /\ a = 6 * n - 6 /\ a + 1 = 6 * n - 5
          BY <1>2, <3>1, <3>5
        <4>2. \A s, h : K(a + 1, s, h) => K(a, s, h)
          BY <4>1, <3>2
        <4> QED BY <4>1, <4>2, <3>3 DEF Learns, Orders, Wait, K
      <3>6. CASE q = 2
        <4>1. C[a] = Close(0) /\ a = 6 * n - 5 /\ a + 1 = 6 * n - 4
          BY <1>2, <3>1, <3>6
        <4>2. \A s, h : ~K(a + 1, s, h)
          BY <4>1, <1>4
        <4>3. ~(a < ForkAt("inf15_4", n, n))
          BY <4>1, <1>5
        <4> QED BY <4>1, <4>2, <4>3, <3>3 DEF Learns, Orders, Close, K
      <3> QED BY <3>1, <3>4, <3>5, <3>6
    <2> QED BY SMTT(40), <2>1, <2>2, <2>3, <2>4, <2>5, <2>6, Places154
  <1> QED BY <1>3, <1>8 DEF Wires, C

\* How the two pairs of slots of main.c take turns.
LEMMA Turns ==
  /\ \A i \in Nat : i >= 1 =>
       /\ Out(i) \in {0, 2} /\ In(i) \in {0, 2} /\ In(i) # Out(i)
       /\ In(i + 1) = Out(i) /\ Out(i + 1) = In(i)
  /\ \A i \in Nat : i >= 2 => In(i) = Out(i - 1) /\ Out(i) = In(i - 1)
  /\ Out(1) = 0 /\ In(1) = 2 /\ Out(2) = 2 /\ In(2) = 0
  <1>1. \A i \in Nat : i >= 1 =>
          /\ (i - 1) % 2 \in {0, 1} /\ ((i + 1) - 1) % 2 = 1 - ((i - 1) % 2)
    OBVIOUS
  <1>2. \A i \in Nat : i >= 1 =>
       /\ Out(i) \in {0, 2} /\ In(i) \in {0, 2} /\ In(i) # Out(i)
       /\ In(i + 1) = Out(i) /\ Out(i + 1) = In(i)
    <2> SUFFICES ASSUME NEW i \in Nat, i >= 1
                 PROVE  /\ Out(i) \in {0, 2} /\ In(i) \in {0, 2} /\ In(i) # Out(i)
                        /\ In(i + 1) = Out(i) /\ Out(i + 1) = In(i)
      OBVIOUS
    <2>1. Out(i) = 2 * ((i - 1) % 2) /\ Out(i + 1) = 2 * (((i + 1) - 1) % 2)
      BY DEF Out
    <2>2. In(i) = 2 - Out(i) /\ In(i + 1) = 2 - Out(i + 1)
      BY DEF In
    <2> QED BY <1>1, <2>1, <2>2
  <1>3. \A i \in Nat : i >= 2 => In(i) = Out(i - 1) /\ Out(i) = In(i - 1)
    <2> SUFFICES ASSUME NEW i \in Nat, i >= 2
                 PROVE  In(i) = Out(i - 1) /\ Out(i) = In(i - 1)
      OBVIOUS
    <2>1. i - 1 \in Nat /\ i - 1 >= 1 /\ (i - 1) + 1 = i
      OBVIOUS
    <2> QED BY <1>2, <2>1
  <1>4. Out(1) = 0
    BY DEF Out
  <1> QED BY <1>2, <1>3, <1>4 DEF In

\* The list c is the text of main.c for n programs.
IsMain(c, n) ==
  /\ IsList(c, 5 * n - 2)
  /\ c[1] = Pipe(0)
  /\ c[2] = Fork(1, <<Dup2(1, 1), Close(0), Exec(1), Exit>>)
  /\ c[3] = Wait(1)
  /\ \A i \in 2 .. n - 1 :
       /\ c[5 * i - 6] = Close(In(i) + 1)
       /\ c[5 * i - 5] = Close(Out(i))
       /\ c[5 * i - 4] = Pipe(Out(i))
       /\ c[5 * i - 3] = Fork(i, Stage(i))
       /\ c[5 * i - 2] = Wait(i)
  /\ c[5 * n - 6] = Close(In(n - 1))
  /\ c[5 * n - 5] = Close(Out(n - 1) + 1)
  /\ c[5 * n - 4] = Fork(n, <<Dup2(Out(n - 1), 0), Exec(n), Exit>>)
  /\ c[5 * n - 3] = Close(Out(n - 1))
  /\ c[5 * n - 2] = Wait(n)

\* The text of main.c is that list.
LEMMA ListedMain ==
  ASSUME NEW n \in Nat, n >= 2
  PROVE  IsMain(Code("main_c", n), n)
  <1>1. Code("main_c", n) = main_c(n)
    BY DEF Code
  <1>2. IsMain(main_c(n), n)
    BY TextMain DEF IsMain
  <1> QED BY <1>1, <1>2

\* The places in the text of main.c.
LEMMA PlacesMain ==
  ASSUME NEW n \in Nat, n >= 2, NEW a \in 1 .. 5 * n - 2
  PROVE  \/ a \in 1 .. 3
         \/ \E i \in 2 .. n - 1 : \E r \in 0 .. 4 : a = 5 * i - 6 + r
         \/ \E r \in 0 .. 4 : a = 5 * n - 6 + r
  <1>1. CASE a \in 4 .. 5 * n - 7
    <2>1. /\ (a + 6) \div 5 \in 2 .. n - 1 /\ (a + 6) % 5 \in 0 .. 4
          /\ a = 5 * ((a + 6) \div 5) - 6 + ((a + 6) % 5)
      BY <1>1
    <2> QED BY <2>1
  <1>2. CASE a > 5 * n - 7
    <2>1. a - (5 * n - 6) \in 0 .. 4 /\ a = 5 * n - 6 + (a - (5 * n - 6))
      BY <1>2
    <2> QED BY <2>1
  <1> QED BY <1>1, <1>2

\* The slots that main.c uses at each of its places.
LEMMA UsedByMain ==
  ASSUME NEW n \in Nat, n >= 2
  PROVE  LET U(a, s) == Used("main_c", n, a, s)
         IN  /\ \A s : ~U(1, s) /\ \A a \in 2 .. 3 : (U(a, s) <=> s \in {0, 1})
             /\ \A i \in 2 .. n - 1 : \A s :
                  /\ U(5 * i - 6, s) <=> s \in {In(i), In(i) + 1, Out(i)}
                  /\ U(5 * i - 5, s) <=> s \in {In(i), Out(i)}
                  /\ U(5 * i - 4, s) <=> s = In(i)
                  /\ U(5 * i - 3, s) <=> s \in {In(i), Out(i), Out(i) + 1}
                  /\ U(5 * i - 2, s) <=> s \in {In(i), Out(i), Out(i) + 1}
             /\ \A a \in Nat : a > 5 * n - 7 => \A s : U(a, s) <=> s \in 0 .. 3
  <1>1. \A a, s : Used("main_c", n, a, s) <=> UsedMain(n, a, s)
    BY DEF Used
  <1>2. \A s : ~UsedMain(n, 1, s) /\ \A a \in 2 .. 3 : (UsedMain(n, a, s) <=> s \in {0, 1})
    BY DEF UsedMain
  <1>3. ASSUME NEW i \in 2 .. n - 1, NEW s
        PROVE  /\ UsedMain(n, 5 * i - 6, s) <=> s \in {In(i), In(i) + 1, Out(i)}
               /\ UsedMain(n, 5 * i - 5, s) <=> s \in {In(i), Out(i)}
               /\ UsedMain(n, 5 * i - 4, s) <=> s = In(i)
    BY DEF UsedMain
  <1>4. ASSUME NEW i \in 2 .. n - 1, NEW s
        PROVE  /\ UsedMain(n, 5 * i - 3, s) <=> s \in {In(i), Out(i), Out(i) + 1}
               /\ UsedMain(n, 5 * i - 2, s) <=> s \in {In(i), Out(i), Out(i) + 1}
    BY DEF UsedMain
  <1>5. ASSUME NEW a \in Nat, a > 5 * n - 7, NEW s
        PROVE  UsedMain(n, a, s) <=> s \in 0 .. 3
    <2>1. ~ \E k \in 2 .. n - 1 : a = 5 * k - 6 \/ a = 5 * k - 5 \/ a = 5 * k - 4 \/ a \in 5 * k - 3 .. 5 * k - 2
      BY <1>5
    <2>2. ~(a \in 2 .. 3)
      BY <1>5
    <2> QED BY <1>5, <2>1, <2>2 DEF UsedMain
  <1> QED BY <1>1, <1>2, <1>3, <1>4, <1>5

\* The text of main.c keeps the rules.
LEMMA RulesMain ==
  ASSUME NEW n \in Nat, n >= 2
  PROVE  Rules("main_c", n)
  <1> DEFINE C == Code("main_c", n)
             L == 5 * n - 2
             U(a, s) == Used("main_c", n, a, s)
  <1>1. IsMain(C, n)
    BY ListedMain
  <1> HIDE DEF C
  <1>2. /\ IsList(C, L)
        /\ C[1] = Pipe(0)
        /\ C[2] = Fork(1, <<Dup2(1, 1), Close(0), Exec(1), Exit>>)
        /\ C[3] = Wait(1)
        /\ \A i \in 2 .. n - 1 :
             /\ C[5 * i - 6] = Close(In(i) + 1)
             /\ C[5 * i - 5] = Close(Out(i))
             /\ C[5 * i - 4] = Pipe(Out(i))
             /\ C[5 * i - 3] = Fork(i, Stage(i))
             /\ C[5 * i - 2] = Wait(i)
        /\ C[5 * n - 6] = Close(In(n - 1))
        /\ C[5 * n - 5] = Close(Out(n - 1) + 1)
        /\ C[5 * n - 4] = Fork(n, <<Dup2(Out(n - 1), 0), Exec(n), Exit>>)
        /\ C[5 * n - 3] = Close(Out(n - 1))
        /\ C[5 * n - 2] = Wait(n)
    BY <1>1 DEF IsMain
  <1>3. Len(C) = L
    <2>1. L \in Nat /\ IsList(C, L)
      BY <1>2
    <2> HIDE DEF L
    <2> QED BY <2>1, ListLength
  <1>4. /\ \A s : ~U(1, s) /\ \A a \in 2 .. 3 : (U(a, s) <=> s \in {0, 1})
        /\ \A i \in 2 .. n - 1 : \A s :
             /\ U(5 * i - 6, s) <=> s \in {In(i), In(i) + 1, Out(i)}
             /\ U(5 * i - 5, s) <=> s \in {In(i), Out(i)}
             /\ U(5 * i - 4, s) <=> s = In(i)
             /\ U(5 * i - 3, s) <=> s \in {In(i), Out(i), Out(i) + 1}
             /\ U(5 * i - 2, s) <=> s \in {In(i), Out(i), Out(i) + 1}
        /\ \A a \in Nat : a > 5 * n - 7 => \A s : U(a, s) <=> s \in 0 .. 3
    BY UsedByMain
  <1>5. /\ \A i \in 2 .. n : Out(i) \in {0, 2} /\ In(i) \in {0, 2} /\ In(i) # Out(i)
        /\ Out(n - 1) \in {0, 2} /\ In(n - 1) \in {0, 2}
    BY Turns
  <1> HIDE DEF U
  <1>6. ASSUME NEW a \in 1 .. L
        PROVE  Fits(n, C[a]) /\ Slotted("main_c", n, a, C[a]) /\ Ordered("main_c", n, a, C[a])
    <2>1. CASE a = 1
      <3>1. \A s : ~U(a, s)
        BY <1>4, <2>1
      <3>2. U(a + 1, 0) /\ U(a + 1, 1)
        BY <1>4, <2>1
      <3> QED BY <1>2, <2>1, <3>1, <3>2 DEF Fits, Slotted, Ordered, Pipe, U
    <2>2. CASE a = 2
      <3> DEFINE B == <<Dup2(1, 1), Close(0), Exec(1), Exit>>
      <3>1. C[a] = Fork(1, B)
        BY <1>2, <2>2
      <3>2. InBody(n, 1, B)
        BY DEF InBody, Fits, Dup2, Exec, Close, Exit
      <3>3. 3 \in a + 1 .. L /\ C[3] = Wait(1)
        BY <1>2, <2>2
      <3>4. \A s : U(a, s) => U(a + 1, s)
        BY <2>2, <1>4
      <3> HIDE DEF B
      <3>5. Slotted("main_c", n, a, C[a])
        BY <3>1, <3>4, <1>4 DEF Slotted, Fork, U
      <3> QED BY SMTT(40), <3>1, <3>2, <3>3, <3>5, <1>3 DEF Fits, Ordered, Fork, C
    <2>3. CASE a = 3
      <3>1. \A s : U(3, s) => s \in {0, 1}
        BY <1>4
      <3>2. \A s \in {0, 1} : U(4, s)
        <4>1. CASE n = 2
          <5>1. 4 \in Nat /\ 4 > 5 * n - 7
            BY <4>1
          <5> QED BY <5>1, <1>4
        <4>2. CASE n > 2
          <5>1. 2 \in 2 .. n - 1 /\ 5 * 2 - 6 = 4
            BY <4>2
          <5>2. \A s : U(5 * 2 - 6, s) <=> s \in {In(2), In(2) + 1, Out(2)}
            BY <1>4, <5>1
          <5> QED BY <5>1, <5>2, Turns
        <4> QED BY <4>1, <4>2
      <3>3. \A s : U(a, s) => U(a + 1, s)
        BY <3>1, <3>2, <2>3
      <3> QED BY SMTT(40), <1>2, <2>3, <3>3 DEF Fits, Slotted, Ordered, Wait, U
    <2>5. CASE \E i \in 2 .. n - 1 : \E r \in 0 .. 4 : a = 5 * i - 6 + r
      <3>1. PICK i \in 2 .. n - 1 : \E r \in 0 .. 4 : a = 5 * i - 6 + r
        BY <2>5
      <3>2. PICK r \in 0 .. 4 : a = 5 * i - 6 + r
        BY <3>1
      <3>3. /\ C[5 * i - 6] = Close(In(i) + 1) /\ C[5 * i - 5] = Close(Out(i))
            /\ C[5 * i - 4] = Pipe(Out(i)) /\ C[5 * i - 3] = Fork(i, Stage(i))
            /\ C[5 * i - 2] = Wait(i)
        BY <1>2
      <3>4. \A s : /\ U(5 * i - 6, s) <=> s \in {In(i), In(i) + 1, Out(i)}
                   /\ U(5 * i - 5, s) <=> s \in {In(i), Out(i)}
                   /\ U(5 * i - 4, s) <=> s = In(i)
                   /\ U(5 * i - 3, s) <=> s \in {In(i), Out(i), Out(i) + 1}
                   /\ U(5 * i - 2, s) <=> s \in {In(i), Out(i), Out(i) + 1}
        BY <1>4
      <3>5. Out(i) \in {0, 2} /\ In(i) \in {0, 2} /\ In(i) # Out(i)
        BY <1>5
      <3>6. \A s : s \in {In(i), Out(i), Out(i) + 1} => U(5 * i - 1, s)
        <4>1. CASE i = n - 1
          <5>1. 5 * i - 1 \in Nat /\ 5 * i - 1 > 5 * n - 7
            BY <4>1
          <5>2. \A s : U(5 * i - 1, s) <=> s \in 0 .. 3
            BY <5>1, <1>4
          <5> QED BY <5>2, <3>5
        <4>2. CASE i < n - 1
          <5>1. i + 1 \in 2 .. n - 1 /\ 5 * (i + 1) - 6 = 5 * i - 1
            BY <4>2
          <5>2. \A s : U(5 * (i + 1) - 6, s) <=> s \in {In(i + 1), In(i + 1) + 1, Out(i + 1)}
            BY <5>1, <1>4
          <5>3. In(i + 1) = Out(i) /\ Out(i + 1) = In(i)
            BY Turns
          <5> QED BY <5>1, <5>2, <5>3
        <4> QED BY <4>1, <4>2
      <3>7. CASE r = 0
        <4>1. C[a] = Close(In(i) + 1) /\ a = 5 * i - 6 /\ a + 1 = 5 * i - 5
          BY <3>3, <3>2, <3>7
        <4> QED BY <4>1, <3>4, <3>5 DEF Fits, Slotted, Ordered, Close, U
      <3>8. CASE r = 1
        <4>1. C[a] = Close(Out(i)) /\ a = 5 * i - 5 /\ a + 1 = 5 * i - 4
          BY <3>3, <3>2, <3>8
        <4> QED BY <4>1, <3>4, <3>5 DEF Fits, Slotted, Ordered, Close, U
      <3>9. CASE r = 2
        <4>1. C[a] = Pipe(Out(i)) /\ a = 5 * i - 4 /\ a + 1 = 5 * i - 3
          BY <3>3, <3>2, <3>9
        <4>2. \A s : U(a, s) => s \in 0 .. 2 * n - 1 /\ s \notin {Out(i), Out(i) + 1} /\ U(a + 1, s)
          BY <4>1, <3>4, <3>5
        <4>3. U(a + 1, Out(i)) /\ U(a + 1, Out(i) + 1)
          BY <4>1, <3>4
        <4> QED BY <4>1, <4>2, <4>3, <3>5 DEF Fits, Slotted, Ordered, Pipe, U
      <3>10. CASE r = 3
        <4>1. C[a] = Fork(i, Stage(i)) /\ a = 5 * i - 3 /\ a + 1 = 5 * i - 2
          BY <3>3, <3>2, <3>10
        <4>2. InBody(n, i, Stage(i))
          BY <3>5 DEF InBody, Fits, Dup2, Exec, Close, Exit, Stage
        <4>3. 5 * i - 2 \in a + 1 .. L /\ C[5 * i - 2] = Wait(i)
          BY <1>2, <4>1
        <4>4. \A s : U(a, s) => U(a + 1, s)
          BY <4>1, <3>4
        <4>5. Slotted("main_c", n, a, C[a])
          BY <4>1, <4>4 DEF Slotted, Fork, U
        <4> QED BY <4>1, <4>2, <4>3, <4>5, <1>3 DEF Fits, Ordered, Fork, C
      <3>11. CASE r = 4
        <4>1. C[a] = Wait(i) /\ a = 5 * i - 2 /\ a + 1 = 5 * i - 1
          BY <3>3, <3>2, <3>11
        <4>2. \A s : U(a, s) => U(a + 1, s)
          BY <4>1, <3>4, <3>6
        <4> QED BY <4>1, <4>2 DEF Fits, Slotted, Ordered, Wait, U
      <3> QED BY <3>2, <3>7, <3>8, <3>9, <3>10, <3>11
    <2>6. CASE \E r \in 0 .. 4 : a = 5 * n - 6 + r
      <3>1. PICK r \in 0 .. 4 : a = 5 * n - 6 + r
        BY <2>6
      <3>2. (\A s : U(a, s) <=> s \in 0 .. 3) /\ (\A s : U(a + 1, s) <=> s \in 0 .. 3)
        <4>1. a \in Nat /\ a > 5 * n - 7 /\ a + 1 \in Nat /\ a + 1 > 5 * n - 7
          BY <3>1
        <4> QED BY <4>1, <1>4
      <3>3. \A s : U(a, s) => U(a + 1, s)
        BY <3>2
      <3>4. Out(n - 1) \in {0, 2} /\ In(n - 1) \in {0, 2}
        BY <1>5
      <3>5. CASE r = 0
        <4>1. C[a] = Close(In(n - 1))
          BY <1>2, <3>1, <3>5
        <4>2. Fits(n, C[a]) /\ Ordered("main_c", n, a, C[a])
          BY <4>1, <3>4 DEF Fits, Ordered, Close
        <4>3. Slotted("main_c", n, a, C[a])
          BY <4>1, <3>3 DEF Slotted, Close, U
        <4> QED BY <4>2, <4>3
      <3>6. CASE r = 1
        <4>1. C[a] = Close(Out(n - 1) + 1)
          BY <1>2, <3>1, <3>6
        <4>2. Fits(n, C[a]) /\ Ordered("main_c", n, a, C[a])
          BY <4>1, <3>4 DEF Fits, Ordered, Close
        <4>3. Slotted("main_c", n, a, C[a])
          BY <4>1, <3>3 DEF Slotted, Close, U
        <4> QED BY <4>2, <4>3
      <3>7. CASE r = 2
        <4> DEFINE B == <<Dup2(Out(n - 1), 0), Exec(n), Exit>>
        <4>1. C[a] = Fork(n, B) /\ a = 5 * n - 4
          BY <1>2, <3>1, <3>7
        <4>2. InBody(n, n, B)
          BY <3>4 DEF InBody, Fits, Dup2, Exec, Exit
        <4>3. 5 * n - 2 \in a + 1 .. L /\ C[5 * n - 2] = Wait(n)
          BY <1>2, <4>1
        <4> HIDE DEF B
        <4>4. Slotted("main_c", n, a, C[a])
          BY <4>1, <3>3 DEF Slotted, Fork, U
        <4> QED BY SMTT(40), <4>1, <4>2, <4>3, <4>4, <1>3 DEF Fits, Ordered, Fork, C
      <3>8. CASE r = 3
        <4>1. C[a] = Close(Out(n - 1))
          BY <1>2, <3>1, <3>8
        <4>2. Fits(n, C[a]) /\ Ordered("main_c", n, a, C[a])
          BY <4>1, <3>4 DEF Fits, Ordered, Close
        <4>3. Slotted("main_c", n, a, C[a])
          BY <4>1, <3>3 DEF Slotted, Close, U
        <4> QED BY <4>2, <4>3
      <3>9. CASE r = 4
        <4>1. C[a] = Wait(n)
          BY <1>2, <3>1, <3>9
        <4>2. Fits(n, C[a]) /\ Ordered("main_c", n, a, C[a])
          BY <4>1 DEF Fits, Ordered, Wait
        <4>3. Slotted("main_c", n, a, C[a])
          BY <4>1, <3>3 DEF Slotted, Wait, U
        <4> QED BY <4>2, <4>3
      <3> QED BY <3>1, <3>5, <3>6, <3>7, <3>8, <3>9
    <2>7. \/ a \in 1 .. 3
          \/ \E i \in 2 .. n - 1 : \E r \in 0 .. 4 : a = 5 * i - 6 + r
          \/ \E r \in 0 .. 4 : a = 5 * n - 6 + r
      BY PlacesMain
    <2>8. CASE a \in 1 .. 3
      <3>1. a = 1 \/ a = 2 \/ a = 3
        BY <2>8
      <3> QED BY <3>1, <2>1, <2>2, <2>3
    <2> QED BY <2>5, <2>6, <2>7, <2>8
  <1>7. Len(C) \in Nat /\ IsList(C, Len(C))
    BY <1>2, <1>3
  <1>8. \A a \in 1 .. Len(C) :
          Fits(n, C[a]) /\ Slotted("main_c", n, a, C[a]) /\ Ordered("main_c", n, a, C[a])
    BY <1>3, <1>6
  <1> QED BY <1>7, <1>8 DEF Rules, C

\* What main.c knows at each of its places.
LEMMA KnownMain ==
  ASSUME NEW n \in Nat, n >= 2
  PROVE  LET K(a, s, h) == Knows("main_c", n, a, s, h)
             r(k) == R("main_c", k)
             w(k) == W("main_c", k)
         IN  /\ \A s, h :
                  /\ K(1, s, h) <=> (s = 2 /\ h = Unset)
                  /\ \A a \in 2 .. 3 :
                       K(a, s, h) <=> \/ s = 0 /\ h = r(1)
                                      \/ s = 1 /\ h = w(1)
                                      \/ s = 2 /\ h = Unset
             /\ \A i \in 2 .. n - 1 : \A s, h :
                  /\ K(5 * i - 6, s, h) <=> \/ s = In(i) /\ h = r(i - 1)
                                            \/ s = In(i) + 1 /\ h = w(i - 1)
                                            \/ Before(i, s, h)
                  /\ K(5 * i - 5, s, h) <=> (s = In(i) /\ h = r(i - 1)) \/ Before(i, s, h)
                  /\ K(5 * i - 4, s, h) <=> (s = In(i) /\ h = r(i - 1))
                  /\ \A a \in 5 * i - 3 .. 5 * i - 2 :
                       K(a, s, h) <=> \/ s = In(i) /\ h = r(i - 1)
                                      \/ s = Out(i) /\ h = r(i)
                                      \/ s = Out(i) + 1 /\ h = w(i)
             /\ \A s, h :
                  /\ K(5 * n - 6, s, h) <=> \/ s = Out(n - 1) /\ h = r(n - 1)
                                            \/ s = Out(n - 1) + 1 /\ h = w(n - 1)
                                            \/ Before(n, s, h)
                  /\ K(5 * n - 5, s, h) <=> \/ s = Out(n - 1) /\ h = r(n - 1)
                                            \/ s = Out(n - 1) + 1 /\ h = w(n - 1)
                  /\ \A a \in 5 * n - 4 .. 5 * n - 3 : K(a, s, h) <=> (s = Out(n - 1) /\ h = r(n - 1))
                  /\ ~K(5 * n - 2, s, h) /\ ~K(5 * n - 1, s, h)
  <1>1. \A a, s, h : Knows("main_c", n, a, s, h) <=> KnowsMain(n, a, s, h)
    BY DEF Knows
  <1>2. \A s, h : KnowsMain(n, 1, s, h) <=> (s = 2 /\ h = Unset)
    BY DEF KnowsMain, Free
  <1>3. \A s, h : \A a \in 2 .. 3 :
          KnowsMain(n, a, s, h) <=> \/ s = 0 /\ h = R("main_c", 1)
                                    \/ s = 1 /\ h = W("main_c", 1)
                                    \/ s = 2 /\ h = Unset
    BY DEF KnowsMain, Both, Free
  <1>4. ASSUME NEW i \in 2 .. n - 1, NEW s, NEW h
        PROVE  /\ KnowsMain(n, 5 * i - 6, s, h) <=> \/ s = In(i) /\ h = R("main_c", i - 1)
                                                    \/ s = In(i) + 1 /\ h = W("main_c", i - 1)
                                                    \/ Before(i, s, h)
               /\ KnowsMain(n, 5 * i - 5, s, h) <=> (s = In(i) /\ h = R("main_c", i - 1)) \/ Before(i, s, h)
    BY DEF KnowsMain, Both, Reader
  <1>5. ASSUME NEW i \in 2 .. n - 1, NEW s, NEW h
        PROVE  KnowsMain(n, 5 * i - 4, s, h) <=> (s = In(i) /\ h = R("main_c", i - 1))
    BY DEF KnowsMain, Both, Reader
  <1>6. ASSUME NEW i \in 2 .. n - 1, NEW s, NEW h, NEW a \in 5 * i - 3 .. 5 * i - 2
        PROVE  KnowsMain(n, a, s, h) <=> \/ s = In(i) /\ h = R("main_c", i - 1)
                                         \/ s = Out(i) /\ h = R("main_c", i)
                                         \/ s = Out(i) + 1 /\ h = W("main_c", i)
    <2>1. ASSUME NEW k \in 2 .. n - 1
          PROVE  /\ a # 5 * k - 6 /\ a # 5 * k - 5
                 /\ a \in 5 * k - 4 .. 5 * k - 2 => k = i
      OBVIOUS
    <2>2. a \in 5 * i - 4 .. 5 * i - 2 /\ a \notin 2 .. 3 /\ a # 1 /\ a # 5 * n - 6 /\ a # 5 * n - 5
          /\ a \notin 5 * n - 4 .. 5 * n - 3
      OBVIOUS
    <2>3. KnowsMain(n, a, s, h) => \/ Reader("main_c", i - 1, In(i), s, h) \/ Both("main_c", i, Out(i), s, h)
      <3>1. SUFFICES ASSUME KnowsMain(n, a, s, h)
                     PROVE  \/ Reader("main_c", i - 1, In(i), s, h) \/ Both("main_c", i, Out(i), s, h)
        OBVIOUS
      <3>2. PICK k \in 2 .. n - 1 :
              \/ a \in 5 * k - 4 .. 5 * k - 2 /\ Reader("main_c", k - 1, In(k), s, h)
              \/ a \in 5 * k - 3 .. 5 * k - 2 /\ Both("main_c", k, Out(k), s, h)
        BY <3>1, <2>1, <2>2 DEF KnowsMain
      <3>3. k = i
        BY <3>2, <2>1
      <3> QED BY <3>2, <3>3
    <2>4. \/ Reader("main_c", i - 1, In(i), s, h) \/ Both("main_c", i, Out(i), s, h)
            => KnowsMain(n, a, s, h)
      BY <2>2 DEF KnowsMain
    <2> QED BY <2>3, <2>4 DEF Both, Reader
  <1>7. ASSUME NEW s, NEW h
        PROVE  /\ KnowsMain(n, 5 * n - 6, s, h) <=> \/ s = Out(n - 1) /\ h = R("main_c", n - 1)
                                                    \/ s = Out(n - 1) + 1 /\ h = W("main_c", n - 1)
                                                    \/ Before(n, s, h)
               /\ KnowsMain(n, 5 * n - 5, s, h) <=> \/ s = Out(n - 1) /\ h = R("main_c", n - 1)
                                                    \/ s = Out(n - 1) + 1 /\ h = W("main_c", n - 1)
    BY DEF KnowsMain, Both
  <1>8. ASSUME NEW s, NEW h, NEW a \in 5 * n - 4 .. 5 * n - 3
        PROVE  KnowsMain(n, a, s, h) <=> (s = Out(n - 1) /\ h = R("main_c", n - 1))
    BY DEF KnowsMain, Reader
  <1>9. ASSUME NEW s, NEW h
        PROVE  ~KnowsMain(n, 5 * n - 2, s, h) /\ ~KnowsMain(n, 5 * n - 1, s, h)
    BY DEF KnowsMain
  <1> DEFINE K(a, s, h) == Knows("main_c", n, a, s, h)
             r(k) == R("main_c", k)
             w(k) == W("main_c", k)
  <1>10. \A s, h :
           /\ K(1, s, h) <=> (s = 2 /\ h = Unset)
           /\ \A a \in 2 .. 3 :
                K(a, s, h) <=> \/ s = 0 /\ h = r(1)
                               \/ s = 1 /\ h = w(1)
                               \/ s = 2 /\ h = Unset
    BY <1>1, <1>2, <1>3
  <1>11. ASSUME NEW i \in 2 .. n - 1, NEW s, NEW h
         PROVE  /\ K(5 * i - 6, s, h) <=> \/ s = In(i) /\ h = r(i - 1)
                                          \/ s = In(i) + 1 /\ h = w(i - 1)
                                          \/ Before(i, s, h)
                /\ K(5 * i - 5, s, h) <=> (s = In(i) /\ h = r(i - 1)) \/ Before(i, s, h)
                /\ K(5 * i - 4, s, h) <=> (s = In(i) /\ h = r(i - 1))
                /\ \A a \in 5 * i - 3 .. 5 * i - 2 :
                     K(a, s, h) <=> \/ s = In(i) /\ h = r(i - 1)
                                    \/ s = Out(i) /\ h = r(i)
                                    \/ s = Out(i) + 1 /\ h = w(i)
    <2>1. /\ K(5 * i - 6, s, h) <=> \/ s = In(i) /\ h = r(i - 1)
                                    \/ s = In(i) + 1 /\ h = w(i - 1)
                                    \/ Before(i, s, h)
          /\ K(5 * i - 5, s, h) <=> (s = In(i) /\ h = r(i - 1)) \/ Before(i, s, h)
      BY <1>1, <1>4
    <2>2. K(5 * i - 4, s, h) <=> (s = In(i) /\ h = r(i - 1))
      BY <1>1, <1>5
    <2>3. \A a \in 5 * i - 3 .. 5 * i - 2 :
            K(a, s, h) <=> \/ s = In(i) /\ h = r(i - 1)
                           \/ s = Out(i) /\ h = r(i)
                           \/ s = Out(i) + 1 /\ h = w(i)
      BY <1>1, <1>6
    <2> HIDE DEF K, r, w
    <2> QED BY <2>1, <2>2, <2>3
  <1>12. ASSUME NEW s, NEW h
         PROVE  /\ K(5 * n - 6, s, h) <=> \/ s = Out(n - 1) /\ h = r(n - 1)
                                          \/ s = Out(n - 1) + 1 /\ h = w(n - 1)
                                          \/ Before(n, s, h)
                /\ K(5 * n - 5, s, h) <=> \/ s = Out(n - 1) /\ h = r(n - 1)
                                          \/ s = Out(n - 1) + 1 /\ h = w(n - 1)
    BY <1>1, <1>7
  <1>13. ASSUME NEW s, NEW h
         PROVE  /\ \A a \in 5 * n - 4 .. 5 * n - 3 : K(a, s, h) <=> (s = Out(n - 1) /\ h = r(n - 1))
                /\ ~K(5 * n - 2, s, h) /\ ~K(5 * n - 1, s, h)
    BY <1>1, <1>8, <1>9
  <1> HIDE DEF K, r, w
  <1>14. \A i \in 2 .. n - 1 : \A s, h :
           /\ K(5 * i - 6, s, h) <=> \/ s = In(i) /\ h = r(i - 1)
                                     \/ s = In(i) + 1 /\ h = w(i - 1)
                                     \/ Before(i, s, h)
           /\ K(5 * i - 5, s, h) <=> (s = In(i) /\ h = r(i - 1)) \/ Before(i, s, h)
           /\ K(5 * i - 4, s, h) <=> (s = In(i) /\ h = r(i - 1))
           /\ \A a \in 5 * i - 3 .. 5 * i - 2 :
                K(a, s, h) <=> \/ s = In(i) /\ h = r(i - 1)
                               \/ s = Out(i) /\ h = r(i)
                               \/ s = Out(i) + 1 /\ h = w(i)
    BY <1>11
  <1>15. \A s, h :
           /\ K(5 * n - 6, s, h) <=> \/ s = Out(n - 1) /\ h = r(n - 1)
                                     \/ s = Out(n - 1) + 1 /\ h = w(n - 1)
                                     \/ Before(n, s, h)
           /\ K(5 * n - 5, s, h) <=> \/ s = Out(n - 1) /\ h = r(n - 1)
                                     \/ s = Out(n - 1) + 1 /\ h = w(n - 1)
           /\ \A a \in 5 * n - 4 .. 5 * n - 3 : K(a, s, h) <=> (s = Out(n - 1) /\ h = r(n - 1))
           /\ ~K(5 * n - 2, s, h) /\ ~K(5 * n - 1, s, h)
    BY <1>12, <1>13
  <1> QED BY <1>10, <1>14, <1>15 DEF K, r, w

\* What the slot of the second last pipe refers to.
Earlier(k) == IF k = 2 THEN Unset ELSE R("main_c", k - 2)

\* main.c knows where its pipes are.
LEMMA WiresMain ==
  ASSUME NEW n \in Nat, n >= 2
  PROVE  Wires("main_c", n)
  <1> DEFINE C == Code("main_c", n)
             L == 5 * n - 2
             K(a, s, h) == Knows("main_c", n, a, s, h)
             r(k) == R("main_c", k)
             w(k) == W("main_c", k)
             F(k) == ForkAt("main_c", n, k)
  <1>1. IsMain(C, n)
    BY ListedMain
  <1> HIDE DEF C
  <1>2. /\ IsList(C, L)
        /\ C[1] = Pipe(0)
        /\ C[2] = Fork(1, <<Dup2(1, 1), Close(0), Exec(1), Exit>>)
        /\ C[3] = Wait(1)
        /\ \A i \in 2 .. n - 1 :
             /\ C[5 * i - 6] = Close(In(i) + 1)
             /\ C[5 * i - 5] = Close(Out(i))
             /\ C[5 * i - 4] = Pipe(Out(i))
             /\ C[5 * i - 3] = Fork(i, Stage(i))
             /\ C[5 * i - 2] = Wait(i)
        /\ C[5 * n - 6] = Close(In(n - 1))
        /\ C[5 * n - 5] = Close(Out(n - 1) + 1)
        /\ C[5 * n - 4] = Fork(n, <<Dup2(Out(n - 1), 0), Exec(n), Exit>>)
        /\ C[5 * n - 3] = Close(Out(n - 1))
        /\ C[5 * n - 2] = Wait(n)
    BY <1>1 DEF IsMain
  <1>3. Len(C) = L
    <2>1. L \in Nat /\ IsList(C, L)
      BY <1>2
    <2> HIDE DEF L
    <2> QED BY <2>1, ListLength
  <1>4. /\ \A s, h :
             /\ K(1, s, h) <=> (s = 2 /\ h = Unset)
             /\ \A a \in 2 .. 3 :
                  K(a, s, h) <=> \/ s = 0 /\ h = r(1)
                                 \/ s = 1 /\ h = w(1)
                                 \/ s = 2 /\ h = Unset
        /\ \A i \in 2 .. n - 1 : \A s, h :
             /\ K(5 * i - 6, s, h) <=> \/ s = In(i) /\ h = r(i - 1)
                                       \/ s = In(i) + 1 /\ h = w(i - 1)
                                       \/ Before(i, s, h)
             /\ K(5 * i - 5, s, h) <=> (s = In(i) /\ h = r(i - 1)) \/ Before(i, s, h)
             /\ K(5 * i - 4, s, h) <=> (s = In(i) /\ h = r(i - 1))
             /\ \A a \in 5 * i - 3 .. 5 * i - 2 :
                  K(a, s, h) <=> \/ s = In(i) /\ h = r(i - 1)
                                 \/ s = Out(i) /\ h = r(i)
                                 \/ s = Out(i) + 1 /\ h = w(i)
        /\ \A s, h :
             /\ K(5 * n - 6, s, h) <=> \/ s = Out(n - 1) /\ h = r(n - 1)
                                       \/ s = Out(n - 1) + 1 /\ h = w(n - 1)
                                       \/ Before(n, s, h)
             /\ K(5 * n - 5, s, h) <=> \/ s = Out(n - 1) /\ h = r(n - 1)
                                       \/ s = Out(n - 1) + 1 /\ h = w(n - 1)
             /\ \A a \in 5 * n - 4 .. 5 * n - 3 : K(a, s, h) <=> (s = Out(n - 1) /\ h = r(n - 1))
             /\ ~K(5 * n - 2, s, h) /\ ~K(5 * n - 1, s, h)
    BY KnownMain
  <1>5. /\ F(1) = 2 /\ F(n) = 5 * n - 4
        /\ \A i \in 2 .. n - 1 : F(i) = 5 * i - 3
    BY DEF ForkAt
  <1>6. /\ \A k : r(k).end = "read" /\ w(k).end = "write" /\ r(k) # w(k)
        /\ \A k : r(k) # Unset /\ w(k) # Unset
        /\ \A i, j \in 1 .. n : i # j => r(i) # r(j) /\ w(i) # w(j) /\ r(i) # w(j)
    <2>1. \A i, j \in 1 .. n : i # j => MadeAt("main_c", i) # MadeAt("main_c", j)
      BY MadeApart
    <2> QED BY <2>1, Ends
  <1>7. /\ r(1) = ReadEnd(<<1, 1>>) /\ w(1) = WriteEnd(<<1, 1>>)
        /\ \A i \in 2 .. n - 1 : r(i) = ReadEnd(<<1, 5 * i - 4>>) /\ w(i) = WriteEnd(<<1, 5 * i - 4>>)
    BY DEF R, W, Joint, MadeAt
  <1>8. /\ \A i \in 2 .. n : /\ Out(i) \in {0, 2} /\ In(i) \in {0, 2} /\ In(i) # Out(i)
                             /\ In(i) = Out(i - 1) /\ Out(i) = In(i - 1)
        /\ Out(1) = 0 /\ In(1) = 2 /\ Out(2) = 2 /\ In(2) = 0
    BY Turns
  <1>9. \A i \in 2 .. n : \A s, h : Before(i, s, h) <=> (s = Out(i) /\ h = Earlier(i))
    BY DEF Before, Earlier, Free, Reader
  <1>10. \A i \in 2 .. n :
           /\ Earlier(i) = Unset \/ Earlier(i).end = "read"
           /\ Earlier(i) # r(i - 1) /\ Earlier(i) # w(i - 1)
           /\ i > 2 => Earlier(i) = r(i - 2)
    <2> SUFFICES ASSUME NEW i \in 2 .. n
                 PROVE  /\ Earlier(i) = Unset \/ Earlier(i).end = "read"
                        /\ Earlier(i) # r(i - 1) /\ Earlier(i) # w(i - 1)
                        /\ i > 2 => Earlier(i) = r(i - 2)
      OBVIOUS
    <2>1. CASE i = 2
      BY <1>6, <2>1 DEF Earlier
    <2>2. CASE i > 2
      <3>1. Earlier(i) = r(i - 2)
        BY <2>2 DEF Earlier
      <3>2. i - 1 \in 1 .. n /\ i - 2 \in 1 .. n /\ i - 1 # i - 2
        BY <2>2
      <3> HIDE DEF r, w
      <3> QED BY <1>6, <3>1, <3>2, <2>2
    <2> QED BY <2>1, <2>2
  <1> HIDE DEF K, r, w, F
  <1>11. ASSUME NEW a \in 1 .. L
         PROVE  Learns("main_c", n, a, C[a]) /\ Orders("main_c", n, a, C[a])
    <2> DEFINE Sane == /\ \A s, h : K(a, s, h) => s \in 0 .. 2 * n + 2 /\ (h = Unset \/ h.end \in {"read", "write"})
                       /\ \A s, h, g : K(a, s, h) /\ K(a, s, g) => h = g
    <2>1. CASE a = 1
      <3>1. C[a] = Pipe(0)
        BY <1>2, <2>1
      <3>2. Sane
        BY <1>4, <2>1
      <3>3. \A s, h : K(2, s, h) => \/ s = 0 /\ h = ReadEnd(<<1, 1>>)
                                    \/ s = 1 /\ h = WriteEnd(<<1, 1>>)
                                    \/ K(1, s, h) /\ s \notin {0, 1}
        BY <1>4, <1>7
      <3>4. Orders("main_c", n, a, C[a])
        BY <3>1, <2>1, <1>5 DEF Orders, Pipe, F
      <3> QED BY <3>1, <3>2, <3>3, <3>4, <2>1 DEF Learns, Pipe, K
    <2>2. CASE a = 2
      <3> DEFINE B == <<Dup2(1, 1), Close(0), Exec(1), Exit>>
      <3>1. C[a] = Fork(1, B)
        BY <1>2, <2>2
      <3> HIDE DEF B
      <3>2. Sane
        BY <1>4, <1>6, <2>2
      <3>3. \A s, h : K(3, s, h) => K(2, s, h)
        BY <1>4
      <3>4. Orders("main_c", n, a, C[a])
        BY <3>1, <2>2, <1>5 DEF Orders, Fork, F
      <3> QED BY <3>1, <3>2, <3>3, <3>4, <2>2 DEF Learns, Fork, K
    <2>3. CASE a = 3
      <3>1. C[a] = Wait(1)
        BY <1>2, <2>3
      <3>2. Sane
        BY <1>4, <1>6, <2>3
      <3>3. \A s, h : K(4, s, h) => K(3, s, h)
        <4>1. CASE n = 2
          <5>1. 5 * n - 6 = 4 /\ n - 1 = 1
            BY <4>1
          <5>2. \A s, h : K(4, s, h) <=> \/ s = Out(1) /\ h = r(1)
                                         \/ s = Out(1) + 1 /\ h = w(1)
                                         \/ Before(2, s, h)
            BY <1>4, <4>1, <5>1
          <5> QED BY <5>2, <1>4, <1>8, <1>9 DEF Earlier
        <4>2. CASE n > 2
          <5>1. 2 \in 2 .. n - 1 /\ 5 * 2 - 6 = 4 /\ 2 - 1 = 1
            BY <4>2
          <5>2. \A s, h : K(5 * 2 - 6, s, h) <=> \/ s = In(2) /\ h = r(2 - 1)
                                                 \/ s = In(2) + 1 /\ h = w(2 - 1)
                                                 \/ Before(2, s, h)
            BY <1>4, <5>1
          <5> QED BY <5>1, <5>2, <1>4, <1>8, <1>9 DEF Earlier
        <4> QED BY <4>1, <4>2
      <3>4. Orders("main_c", n, a, C[a])
        BY <3>1 DEF Orders, Wait
      <3> QED BY <3>1, <3>2, <3>3, <3>4, <2>3 DEF Learns, Wait, K
    <2>5. CASE \E i \in 2 .. n - 1 : \E q \in 0 .. 4 : a = 5 * i - 6 + q
      <3>1. PICK i \in 2 .. n - 1 : \E q \in 0 .. 4 : a = 5 * i - 6 + q
        BY <2>5
      <3>2. PICK q \in 0 .. 4 : a = 5 * i - 6 + q
        BY <3>1
      <3>3. /\ C[5 * i - 6] = Close(In(i) + 1) /\ C[5 * i - 5] = Close(Out(i))
            /\ C[5 * i - 4] = Pipe(Out(i)) /\ C[5 * i - 3] = Fork(i, Stage(i))
            /\ C[5 * i - 2] = Wait(i)
        BY <1>2
      <3>4. \A s, h : Before(i, s, h) <=> (s = Out(i) /\ h = Earlier(i))
        BY <1>9
      <3>5. \A s, h :
              /\ K(5 * i - 6, s, h) <=> \/ s = In(i) /\ h = r(i - 1)
                                        \/ s = In(i) + 1 /\ h = w(i - 1)
                                        \/ s = Out(i) /\ h = Earlier(i)
              /\ K(5 * i - 5, s, h) <=> (s = In(i) /\ h = r(i - 1)) \/ (s = Out(i) /\ h = Earlier(i))
              /\ K(5 * i - 4, s, h) <=> (s = In(i) /\ h = r(i - 1))
        <4> SUFFICES ASSUME NEW s, NEW h
                     PROVE  /\ K(5 * i - 6, s, h) <=> \/ s = In(i) /\ h = r(i - 1)
                                                      \/ s = In(i) + 1 /\ h = w(i - 1)
                                                      \/ s = Out(i) /\ h = Earlier(i)
                            /\ K(5 * i - 5, s, h) <=> (s = In(i) /\ h = r(i - 1)) \/ (s = Out(i) /\ h = Earlier(i))
                            /\ K(5 * i - 4, s, h) <=> (s = In(i) /\ h = r(i - 1))
          OBVIOUS
        <4>1. /\ K(5 * i - 6, s, h) <=> \/ s = In(i) /\ h = r(i - 1)
                                        \/ s = In(i) + 1 /\ h = w(i - 1)
                                        \/ Before(i, s, h)
              /\ K(5 * i - 5, s, h) <=> (s = In(i) /\ h = r(i - 1)) \/ Before(i, s, h)
              /\ K(5 * i - 4, s, h) <=> (s = In(i) /\ h = r(i - 1))
          BY <1>4
        <4>2. Before(i, s, h) <=> (s = Out(i) /\ h = Earlier(i))
          BY <3>4
        <4> QED BY <4>1, <4>2
      <3>6. \A s, h : \A b \in 5 * i - 3 .. 5 * i - 2 :
              K(b, s, h) <=> \/ s = In(i) /\ h = r(i - 1)
                             \/ s = Out(i) /\ h = r(i)
                             \/ s = Out(i) + 1 /\ h = w(i)
        BY <1>4
      <3>7. \A s, h : K(5 * i - 1, s, h) => \/ s = Out(i) /\ h = r(i)
                                            \/ s = Out(i) + 1 /\ h = w(i)
                                            \/ s = In(i) /\ h = r(i - 1)
        <4>1. i + 1 \in 2 .. n /\ i + 1 > 2 /\ (i + 1) - 1 = i /\ (i + 1) - 2 = i - 1 /\ 5 * (i + 1) - 6 = 5 * i - 1
          OBVIOUS
        <4>2. /\ \A s, h : Before(i + 1, s, h) <=> (s = Out(i + 1) /\ h = Earlier(i + 1))
              /\ Earlier(i + 1) = r((i + 1) - 2)
              /\ In(i + 1) = Out((i + 1) - 1) /\ Out(i + 1) = In((i + 1) - 1)
          BY <1>8, <1>9, <1>10, <4>1
        <4>3. \A s, h : Before(i + 1, s, h) <=> (s = In(i) /\ h = r(i - 1))
          BY <4>1, <4>2
        <4>4. CASE i = n - 1
          <5>1. i + 1 = n /\ n - 1 = i /\ 5 * n - 6 = 5 * i - 1
            BY <4>4
          <5>2. \A s, h : K(5 * n - 6, s, h) <=> \/ s = Out(n - 1) /\ h = r(n - 1)
                                                 \/ s = Out(n - 1) + 1 /\ h = w(n - 1)
                                                 \/ Before(n, s, h)
            BY <1>4
          <5> QED BY <4>3, <5>1, <5>2
        <4>5. CASE i < n - 1
          <5>1. i + 1 \in 2 .. n - 1
            BY <4>5
          <5>2. \A s, h : K(5 * (i + 1) - 6, s, h) <=> \/ s = In(i + 1) /\ h = r((i + 1) - 1)
                                                       \/ s = In(i + 1) + 1 /\ h = w((i + 1) - 1)
                                                       \/ Before(i + 1, s, h)
            BY <1>4, <5>1
          <5> QED BY <4>1, <4>2, <4>3, <5>2
        <4> QED BY <4>4, <4>5
      <3>8. /\ Out(i) \in {0, 2} /\ In(i) \in {0, 2} /\ In(i) # Out(i)
            /\ Earlier(i) = Unset \/ Earlier(i).end = "read"
            /\ Earlier(i) # r(i - 1) /\ Earlier(i) # w(i - 1)
        BY <1>8, <1>10
      <3>9. /\ r(i) # w(i) /\ r(i - 1) # r(i) /\ r(i - 1) # w(i) /\ r(i - 1) # w(i - 1)
            /\ F(n) = 5 * n - 4 /\ F(i) = 5 * i - 3
            /\ a < F(n)
        BY <1>5, <1>6, <3>2
      <3>10. \A k : r(k).end = "read" /\ w(k).end = "write"
        BY <1>6
      <3>11. CASE q = 0
        <4>1. C[a] = Close(In(i) + 1) /\ a = 5 * i - 6 /\ a + 1 = 5 * i - 5
          BY <3>3, <3>2, <3>11
        <4>2. Sane
          BY <4>1, <3>5, <3>8, <3>10
        <4>3. K(a, In(i) + 1, w(i - 1))
          BY <4>1, <3>5
        <4>4. \A s, h : K(a + 1, s, h) => K(a, s, h) /\ w(i - 1) # h
          BY <4>1, <3>5, <3>8, <3>9
        <4>5. Orders("main_c", n, a, C[a])
          BY <4>1 DEF Orders, Close
        <4> QED BY <4>1, <4>2, <4>3, <4>4, <4>5 DEF Learns, Close, K
      <3>12. CASE q = 1
        <4>1. C[a] = Close(Out(i)) /\ a = 5 * i - 5 /\ a + 1 = 5 * i - 4
          BY <3>3, <3>2, <3>12
        <4>2. Sane
          BY <4>1, <3>5, <3>8, <3>10
        <4>3. K(a, Out(i), Earlier(i))
          BY <4>1, <3>5
        <4>4. \A s, h : K(a + 1, s, h) => K(a, s, h) /\ Earlier(i) # h
          BY <4>1, <3>5, <3>8, <3>9
        <4>5. Orders("main_c", n, a, C[a])
          BY <4>1 DEF Orders, Close
        <4> QED BY <4>1, <4>2, <4>3, <4>4, <4>5 DEF Learns, Close, K
      <3>13. CASE q = 2
        <4>1. C[a] = Pipe(Out(i)) /\ a = 5 * i - 4 /\ a + 1 = 5 * i - 3
          BY <3>3, <3>2, <3>13
        <4>2. Sane
          BY <4>1, <3>5, <3>8, <3>10
        <4>3. \A s, h : K(a + 1, s, h) => \/ s = Out(i) /\ h = ReadEnd(<<1, a>>)
                                          \/ s = Out(i) + 1 /\ h = WriteEnd(<<1, a>>)
                                          \/ K(a, s, h) /\ s \notin {Out(i), Out(i) + 1}
          BY <4>1, <3>5, <3>6, <3>8, <1>7
        <4>4. Orders("main_c", n, a, C[a])
          BY <4>1, <3>9 DEF Orders, Pipe, F
        <4> QED BY <4>1, <4>2, <4>3, <4>4 DEF Learns, Pipe, K
      <3>14. CASE q = 3
        <4>1. C[a] = Fork(i, Stage(i)) /\ a = 5 * i - 3 /\ a + 1 = 5 * i - 2
          BY <3>3, <3>2, <3>14
        <4>2. Sane
          BY <4>1, <3>6, <3>8, <3>10
        <4>3. \A s, h : K(a + 1, s, h) => K(a, s, h)
          BY <4>1, <3>6
        <4>4. Orders("main_c", n, a, C[a])
          BY <4>1, <3>9 DEF Orders, Fork, F
        <4> QED BY <4>1, <4>2, <4>3, <4>4 DEF Learns, Fork, K
      <3>15. CASE q = 4
        <4>1. C[a] = Wait(i) /\ a = 5 * i - 2 /\ a + 1 = 5 * i - 1
          BY <3>3, <3>2, <3>15
        <4>2. Sane
          BY <4>1, <3>6, <3>8, <3>10
        <4>3. \A s, h : K(a + 1, s, h) => K(a, s, h)
          BY <4>1, <3>6, <3>7
        <4>4. Orders("main_c", n, a, C[a])
          BY <4>1 DEF Orders, Wait
        <4> QED BY <4>1, <4>2, <4>3, <4>4 DEF Learns, Wait, K
      <3> QED BY <3>2, <3>11, <3>12, <3>13, <3>14, <3>15
    <2>6. CASE \E q \in 0 .. 4 : a = 5 * n - 6 + q
      <3>1. PICK q \in 0 .. 4 : a = 5 * n - 6 + q
        BY <2>6
      <3>2. \A s, h : Before(n, s, h) <=> (s = Out(n) /\ h = Earlier(n))
        BY <1>9
      <3>3. /\ Out(n) = In(n - 1) /\ Out(n - 1) \in {0, 2} /\ Out(n) \in {0, 2} /\ Out(n - 1) # Out(n)
            /\ Earlier(n) = Unset \/ Earlier(n).end = "read"
            /\ Earlier(n) # r(n - 1) /\ Earlier(n) # w(n - 1) /\ r(n - 1) # w(n - 1)
            /\ r(n - 1).end = "read" /\ w(n - 1).end = "write"
        BY <1>6, <1>8, <1>10
      <3>4. \A s, h :
              /\ K(5 * n - 6, s, h) <=> \/ s = Out(n - 1) /\ h = r(n - 1)
                                        \/ s = Out(n - 1) + 1 /\ h = w(n - 1)
                                        \/ s = Out(n) /\ h = Earlier(n)
              /\ K(5 * n - 5, s, h) <=> \/ s = Out(n - 1) /\ h = r(n - 1)
                                        \/ s = Out(n - 1) + 1 /\ h = w(n - 1)
              /\ K(5 * n - 4, s, h) <=> (s = Out(n - 1) /\ h = r(n - 1))
              /\ K(5 * n - 3, s, h) <=> (s = Out(n - 1) /\ h = r(n - 1))
              /\ ~K(5 * n - 2, s, h) /\ ~K(5 * n - 1, s, h)
        BY <1>4, <3>2
      <3>5. CASE q = 0
        <4>1. C[a] = Close(In(n - 1)) /\ a = 5 * n - 6 /\ a + 1 = 5 * n - 5
          BY <1>2, <3>1, <3>5
        <4>2. Sane
          BY <4>1, <3>3, <3>4
        <4>3. K(a, In(n - 1), Earlier(n))
          BY <4>1, <3>3, <3>4
        <4>4. \A s, h : K(a + 1, s, h) => K(a, s, h) /\ Earlier(n) # h
          BY <4>1, <3>3, <3>4
        <4>5. Orders("main_c", n, a, C[a])
          BY <4>1 DEF Orders, Close
        <4> QED BY <4>1, <4>2, <4>3, <4>4, <4>5 DEF Learns, Close, K
      <3>6. CASE q = 1
        <4>1. C[a] = Close(Out(n - 1) + 1) /\ a = 5 * n - 5 /\ a + 1 = 5 * n - 4
          BY <1>2, <3>1, <3>6
        <4>2. Sane
          BY <4>1, <3>3, <3>4
        <4>3. K(a, Out(n - 1) + 1, w(n - 1))
          BY <4>1, <3>4
        <4>4. \A s, h : K(a + 1, s, h) => K(a, s, h) /\ w(n - 1) # h
          BY <4>1, <3>3, <3>4
        <4>5. Orders("main_c", n, a, C[a])
          BY <4>1 DEF Orders, Close
        <4> QED BY <4>1, <4>2, <4>3, <4>4, <4>5 DEF Learns, Close, K
      <3>7. CASE q = 2
        <4> DEFINE B == <<Dup2(Out(n - 1), 0), Exec(n), Exit>>
        <4>1. C[a] = Fork(n, B) /\ a = 5 * n - 4 /\ a + 1 = 5 * n - 3
          BY <1>2, <3>1, <3>7
        <4> HIDE DEF B
        <4>2. Sane
          BY <4>1, <3>3, <3>4
        <4>3. \A s, h : K(a + 1, s, h) => K(a, s, h)
          BY <4>1, <3>4
        <4>4. Orders("main_c", n, a, C[a])
          BY <4>1, <1>5 DEF Orders, Fork, F
        <4> QED BY <4>1, <4>2, <4>3, <4>4 DEF Learns, Fork, K
      <3>8. CASE q = 3
        <4>1. C[a] = Close(Out(n - 1)) /\ a = 5 * n - 3 /\ a + 1 = 5 * n - 2
          BY <1>2, <3>1, <3>8
        <4>2. Sane
          BY <4>1, <3>3, <3>4
        <4>3. K(a, Out(n - 1), r(n - 1))
          BY <4>1, <3>4
        <4>4. \A s, h : ~K(a + 1, s, h)
          BY <4>1, <3>4
        <4>5. Orders("main_c", n, a, C[a])
          BY <4>1 DEF Orders, Close
        <4> QED BY <4>1, <4>2, <4>3, <4>4, <4>5 DEF Learns, Close, K
      <3>9. CASE q = 4
        <4>1. C[a] = Wait(n) /\ a = 5 * n - 2 /\ a + 1 = 5 * n - 1
          BY <1>2, <3>1, <3>9
        <4>2. Sane /\ \A s, h : ~K(a + 1, s, h)
          BY <4>1, <3>4
        <4>3. Orders("main_c", n, a, C[a])
          BY <4>1 DEF Orders, Wait
        <4> QED BY <4>1, <4>2, <4>3 DEF Learns, Wait, K
      <3> QED BY <3>1, <3>5, <3>6, <3>7, <3>8, <3>9
    <2>7. \/ a \in 1 .. 3
          \/ \E i \in 2 .. n - 1 : \E q \in 0 .. 4 : a = 5 * i - 6 + q
          \/ \E q \in 0 .. 4 : a = 5 * n - 6 + q
      BY PlacesMain
    <2>8. CASE a \in 1 .. 3
      <3>1. a = 1 \/ a = 2 \/ a = 3
        BY <2>8
      <3> QED BY <3>1, <2>1, <2>2, <2>3
    <2> QED BY <2>5, <2>6, <2>7, <2>8
  <1> QED BY <1>3, <1>11 DEF Wires, C

\* The short texts keep the rules.
LEMMA RulesShort ==
  /\ Rules("inf15_0", 1) /\ Rules("inf15_1", 2) /\ Rules("inf15_2", 1)
  /\ Rules("inf15_3", 1) /\ Rules("inf15_4", 1) /\ Rules("main_c", 1)
  <1>1. Rules("inf15_0", 1)
    <2> DEFINE C == Code("inf15_0", 1)
    <2>1. C = inf15_0
      BY DEF Code
    <2>2. IsList(C, 7)
      BY <2>1 DEF inf15_0, IsList
    <2>3. Len(C) = 7
      BY <2>2, ListLength
    <2>4. /\ C[1] = Pipe(0)
          /\ C[2] = Fork(1, <<Close(0), Dup2(1, 1), Exec(1)>>)
          /\ C[3] = Fork(2, <<Close(1), Read(0), Close(0)>>)
          /\ C[4] = Close(1) /\ C[5] = Close(0) /\ C[6] = Wait(1) /\ C[7] = Wait(2)
      BY <2>1 DEF inf15_0
    <2>5. /\ InBody(1, 1, <<Close(0), Dup2(1, 1), Exec(1)>>)
          /\ InBody(1, 2, <<Close(1), Read(0), Close(0)>>)
      BY DEF InBody, Fits, Close, Dup2, Exec, Read
    <2> HIDE DEF C
    <2>6. ASSUME NEW a \in 1 .. 7
          PROVE  Fits(1, C[a]) /\ Slotted("inf15_0", 1, a, C[a]) /\ Ordered("inf15_0", 1, a, C[a])
      <3>1. Fits(1, C[a])
        BY <2>4 DEF Fits, Pipe, Fork, Close, Wait
      <3>2. \A b, s : Used("inf15_0", 1, b, s) <=> b > 1 /\ s \in {0, 1}
        BY DEF Used
      <3>3. Slotted("inf15_0", 1, a, C[a])
        BY <2>4, <3>2 DEF Slotted, Pipe, Fork, Close, Wait
      <3>4. Ordered("inf15_0", 1, a, C[a])
        <4>1. C[a].op = "fork" => a \in 2 .. 3
          BY <2>4 DEF Pipe, Fork, Close, Wait
        <4>2. C[a].op \notin {"exec", "exit", "readAll"}
          BY <2>4 DEF Pipe, Fork, Close, Wait
        <4>3. C[a].op = "fork" => /\ \E j \in a + 1 .. 7 : C[j] = Wait(C[a].stage)
                                  /\ InBody(1, C[a].stage, C[a].body)
          <5>1. CASE a = 2
            <6>1. 6 \in a + 1 .. 7 /\ C[6] = Wait(C[a].stage)
              BY <2>4, <5>1 DEF Fork
            <6> QED BY <6>1, <2>4, <2>5, <5>1 DEF Fork
          <5>2. CASE a = 3
            <6>1. 7 \in a + 1 .. 7 /\ C[7] = Wait(C[a].stage)
              BY <2>4, <5>2 DEF Fork
            <6> QED BY <6>1, <2>4, <2>5, <5>2 DEF Fork
          <5> QED BY <4>1, <5>1, <5>2
        <4> QED BY <4>2, <4>3, <2>3 DEF Ordered, C
      <3> QED BY <3>1, <3>3, <3>4
    <2>8. IsList(C, Len(C)) /\ Len(C) \in Nat
      BY <2>2, <2>3
    <2>9. \A a \in 1 .. Len(C) :
            Fits(1, C[a]) /\ Slotted("inf15_0", 1, a, C[a]) /\ Ordered("inf15_0", 1, a, C[a])
      BY <2>3, <2>6
    <2> QED BY <2>8, <2>9 DEF Rules, C
  <1>2. Rules("inf15_1", 2)
    <2> DEFINE C == Code("inf15_1", 2)
    <2>1. C = inf15_1
      BY DEF Code
    <2>2. IsList(C, 7)
      BY <2>1 DEF inf15_1, IsList
    <2>3. Len(C) = 7
      BY <2>2, ListLength
    <2>4. /\ C[1] = Pipe(0)
          /\ C[2] = Fork(1, <<Dup2(1, 1), Close(1), Close(0), Exec(1)>>)
          /\ C[3] = Close(1)
          /\ C[4] = Fork(2, <<Dup2(0, 0), Close(0), Exec(2)>>)
          /\ C[5] = Close(0) /\ C[6] = Wait(1) /\ C[7] = Wait(2)
      BY <2>1 DEF inf15_1
    <2>5. /\ InBody(2, 1, <<Dup2(1, 1), Close(1), Close(0), Exec(1)>>)
          /\ InBody(2, 2, <<Dup2(0, 0), Close(0), Exec(2)>>)
      BY DEF InBody, Fits, Close, Dup2, Exec
    <2> HIDE DEF C
    <2>6. ASSUME NEW a \in 1 .. 7
          PROVE  Fits(2, C[a]) /\ Slotted("inf15_1", 2, a, C[a]) /\ Ordered("inf15_1", 2, a, C[a])
      <3>1. Fits(2, C[a])
        BY <2>4 DEF Fits, Pipe, Fork, Close, Wait
      <3>2. \A b, s : Used("inf15_1", 2, b, s) <=> b > 1 /\ s \in {0, 1}
        BY DEF Used
      <3>3. Slotted("inf15_1", 2, a, C[a])
        BY <2>4, <3>2 DEF Slotted, Pipe, Fork, Close, Wait
      <3>4. Ordered("inf15_1", 2, a, C[a])
        <4>1. C[a].op = "fork" => a = 2 \/ a = 4
          BY <2>4 DEF Pipe, Fork, Close, Wait
        <4>2. C[a].op \notin {"exec", "exit", "readAll"}
          BY <2>4 DEF Pipe, Fork, Close, Wait
        <4>3. C[a].op = "fork" => /\ \E j \in a + 1 .. 7 : C[j] = Wait(C[a].stage)
                                  /\ InBody(2, C[a].stage, C[a].body)
          <5>1. CASE a = 2
            <6>1. 6 \in a + 1 .. 7 /\ C[6] = Wait(C[a].stage)
              BY <2>4, <5>1 DEF Fork
            <6> QED BY <6>1, <2>4, <2>5, <5>1 DEF Fork
          <5>2. CASE a = 4
            <6>1. 7 \in a + 1 .. 7 /\ C[7] = Wait(C[a].stage)
              BY <2>4, <5>2 DEF Fork
            <6> QED BY <6>1, <2>4, <2>5, <5>2 DEF Fork
          <5> QED BY <4>1, <5>1, <5>2
        <4> QED BY <4>2, <4>3, <2>3 DEF Ordered, C
      <3> QED BY <3>1, <3>3, <3>4
    <2>8. IsList(C, Len(C)) /\ Len(C) \in Nat
      BY <2>2, <2>3
    <2>9. \A a \in 1 .. Len(C) :
            Fits(2, C[a]) /\ Slotted("inf15_1", 2, a, C[a]) /\ Ordered("inf15_1", 2, a, C[a])
      BY <2>3, <2>6
    <2> QED BY <2>8, <2>9 DEF Rules, C
  <1>3. Rules("inf15_2", 1)
    <2> DEFINE C == Code("inf15_2", 1)
    <2>1. C = inf15_2
      BY DEF Code
    <2>2. IsList(C, 7)
      BY <2>1 DEF inf15_2, IsList
    <2>3. Len(C) = 7
      BY <2>2, ListLength
    <2>4. /\ C[1] = Pipe(0)
          /\ C[2] = Fork(1, <<Dup2(1, 2), Close(1), Close(0), Exec(1)>>)
          /\ C[3] = Wait(1) /\ C[4] = Close(1) /\ C[5] = Dup2(0, 0)
          /\ C[6] = Close(0) /\ C[7] = ReadAll
      BY <2>1 DEF inf15_2
    <2>5. InBody(1, 1, <<Dup2(1, 2), Close(1), Close(0), Exec(1)>>)
      BY DEF InBody, Fits, Close, Dup2, Exec
    <2> HIDE DEF C
    <2>6. ASSUME NEW a \in 1 .. 7
          PROVE  Fits(1, C[a]) /\ Slotted("inf15_2", 1, a, C[a]) /\ Ordered("inf15_2", 1, a, C[a])
      <3>1. Fits(1, C[a])
        BY <2>4 DEF Fits, Pipe, Fork, Close, Wait, Dup2, ReadAll
      <3>2. \A b, s : Used("inf15_2", 1, b, s) <=> b > 1 /\ s \in {0, 1}
        BY DEF Used
      <3>3. Slotted("inf15_2", 1, a, C[a])
        BY <2>4, <3>2 DEF Slotted, Pipe, Fork, Close, Wait, Dup2, ReadAll
      <3>4. Ordered("inf15_2", 1, a, C[a])
        <4>1. C[a].op = "fork" => a = 2
          BY <2>4 DEF Pipe, Fork, Close, Wait, Dup2, ReadAll
        <4>2. C[a].op \notin {"exec", "exit"}
          BY <2>4 DEF Pipe, Fork, Close, Wait, Dup2, ReadAll
        <4>3. C[a].op = "fork" => /\ \E j \in a + 1 .. 7 : C[j] = Wait(C[a].stage)
                                  /\ InBody(1, C[a].stage, C[a].body)
          <5>1. CASE a = 2
            <6>1. 3 \in a + 1 .. 7 /\ C[3] = Wait(C[a].stage)
              BY <2>4, <5>1 DEF Fork
            <6> QED BY <6>1, <2>4, <2>5, <5>1 DEF Fork
          <5> QED BY <4>1, <5>1
        <4> QED BY <4>2, <4>3, <2>3 DEF Ordered, C
      <3> QED BY <3>1, <3>3, <3>4
    <2>8. IsList(C, Len(C)) /\ Len(C) \in Nat
      BY <2>2, <2>3
    <2>9. \A a \in 1 .. Len(C) :
            Fits(1, C[a]) /\ Slotted("inf15_2", 1, a, C[a]) /\ Ordered("inf15_2", 1, a, C[a])
      BY <2>3, <2>6
    <2> QED BY <2>8, <2>9 DEF Rules, C
  <1>4. ASSUME NEW l \in {"inf15_3", "inf15_4"}
        PROVE  Rules(l, 1)
    <2> DEFINE C == Code(l, 1)
    <2>1. C = Single
      BY DEF Code
    <2>2. IsList(C, 2)
      BY <2>1 DEF Single, IsList
    <2>3. Len(C) = 2
      BY <2>2, ListLength
    <2>4. C[1] = Fork(1, <<Exec(1)>>) /\ C[2] = Wait(1)
      BY <2>1 DEF Single
    <2>5. InBody(1, 1, <<Exec(1)>>)
      BY DEF InBody, Fits, Exec
    <2> HIDE DEF C
    <2>6. ASSUME NEW a \in 1 .. 2
          PROVE  Fits(1, C[a]) /\ Slotted(l, 1, a, C[a]) /\ Ordered(l, 1, a, C[a])
      <3>1. Fits(1, C[a])
        BY <2>4 DEF Fits, Fork, Wait
      <3>2. \A b, s : Used(l, 1, b, s) <=> b > 1 /\ s \in {0, 1}
        BY DEF Used
      <3>3. Slotted(l, 1, a, C[a])
        BY <2>4, <3>2 DEF Slotted, Fork, Wait
      <3>4. Ordered(l, 1, a, C[a])
        <4>1. C[a].op = "fork" => /\ \E j \in a + 1 .. 2 : C[j] = Wait(C[a].stage)
                                  /\ InBody(1, C[a].stage, C[a].body)
          BY <2>4, <2>5 DEF Fork, Wait
        <4>2. C[a].op \notin {"exec", "exit", "readAll"}
          BY <2>4 DEF Fork, Wait
        <4> QED BY <4>1, <4>2, <2>3 DEF Ordered, C
      <3> QED BY <3>1, <3>3, <3>4
    <2>8. IsList(C, Len(C)) /\ Len(C) \in Nat
      BY <2>2, <2>3
    <2>9. \A a \in 1 .. Len(C) :
            Fits(1, C[a]) /\ Slotted(l, 1, a, C[a]) /\ Ordered(l, 1, a, C[a])
      BY <2>3, <2>6
    <2> QED BY <2>8, <2>9 DEF Rules, C
  <1>5. Rules("main_c", 1)
    <2> DEFINE C == Code("main_c", 1)
    <2>1. C = <<Exec(1), Exit>>
      BY DEF Code
    <2>2. IsList(C, 2)
      BY <2>1, Short
    <2>3. Len(C) = 2
      BY <2>2, ListLength
    <2>4. C[1] = Exec(1) /\ C[2] = Exit
      BY <2>1
    <2> HIDE DEF C
    <2>5. ASSUME NEW a \in 1 .. 2
          PROVE  Fits(1, C[a]) /\ Slotted("main_c", 1, a, C[a]) /\ Ordered("main_c", 1, a, C[a])
      <3>1. Fits(1, C[a])
        BY <2>4 DEF Fits, Exec, Exit
      <3>2. \A b, s : Used("main_c", 1, b, s) <=> b > 1 /\ s \in {0, 1}
        BY DEF Used
      <3>3. Slotted("main_c", 1, a, C[a])
        BY <2>4, <3>2 DEF Slotted, Exec, Exit
      <3>4. Ordered("main_c", 1, a, C[a])
        <4>1. \A j \in 1 .. 2 : C[j].op # "wait" /\ C[j].op # "fork"
          BY <2>4 DEF Exec, Exit
        <4>2. C[a].op # "readAll"
          BY <2>4 DEF Exec, Exit
        <4> QED BY <4>1, <4>2, <2>3 DEF Ordered, C
      <3> QED BY <3>1, <3>3, <3>4
    <2>8. IsList(C, Len(C)) /\ Len(C) \in Nat
      BY <2>2, <2>3
    <2>9. \A a \in 1 .. Len(C) :
            Fits(1, C[a]) /\ Slotted("main_c", 1, a, C[a]) /\ Ordered("main_c", 1, a, C[a])
      BY <2>3, <2>5
    <2> QED BY <2>8, <2>9 DEF Rules, C
  <1> QED BY <1>1, <1>2, <1>3, <1>4, <1>5

\* Whatever the launcher and the number of programs, the rules are kept.
LEMMA RulesHold ==
  ASSUME NEW l \in Launchers, NEW n \in Nat, Accepts(l, n)
  PROVE  Rules(l, n)
  <1>1. CASE l \in {"inf15_0", "inf15_2"}
    BY <1>1, RulesShort DEF Accepts
  <1>2. CASE l = "inf15_1"
    BY <1>2, RulesShort DEF Accepts
  <1>3. CASE l \in {"inf15_3", "inf15_4", "main_c"}
    <2>1. n = 1 \/ n >= 2
      BY <1>3 DEF Accepts
    <2> QED BY <1>3, <2>1, RulesShort, Rules153, Rules154, RulesMain
  <1> QED BY <1>1, <1>2, <1>3 DEF Launchers

\* The text of inf15-1.c.
LEMMA Text151 ==
  LET C == Code("inf15_1", 2)
  IN  /\ Len(C) = 7
      /\ C[1] = Pipe(0)
      /\ C[2] = Fork(1, <<Dup2(1, 1), Close(1), Close(0), Exec(1)>>)
      /\ C[3] = Close(1)
      /\ C[4] = Fork(2, <<Dup2(0, 0), Close(0), Exec(2)>>)
      /\ C[5] = Close(0) /\ C[6] = Wait(1) /\ C[7] = Wait(2)
  <1>1. IsList(inf15_1, 7) /\ Code("inf15_1", 2) = inf15_1
    BY DEF Code, inf15_1, IsList
  <1>2. Len(inf15_1) = 7
    BY <1>1, ListLength
  <1> QED BY <1>1, <1>2 DEF inf15_1

\* The text of inf15-2.c.
LEMMA Text152 ==
  LET C == Code("inf15_2", 1)
  IN  /\ Len(C) = 7
      /\ C[1] = Pipe(0)
      /\ C[2] = Fork(1, <<Dup2(1, 2), Close(1), Close(0), Exec(1)>>)
      /\ C[3] = Wait(1) /\ C[4] = Close(1) /\ C[5] = Dup2(0, 0)
      /\ C[6] = Close(0) /\ C[7] = ReadAll
  <1>1. IsList(inf15_2, 7) /\ Code("inf15_2", 1) = inf15_2
    BY DEF Code, inf15_2, IsList
  <1>2. Len(inf15_2) = 7
    BY <1>1, ListLength
  <1> QED BY <1>1, <1>2 DEF inf15_2

\* inf15-1.c knows where its pipe is.
LEMMA Wires151 == Wires("inf15_1", 2)
  <1> DEFINE C == Code("inf15_1", 2)
             K(a, s, h) == Knows("inf15_1", 2, a, s, h)
             r == R("inf15_1", 1)
             w == W("inf15_1", 1)
  <1>1. /\ Len(C) = 7
        /\ C[1] = Pipe(0)
        /\ C[2] = Fork(1, <<Dup2(1, 1), Close(1), Close(0), Exec(1)>>)
        /\ C[3] = Close(1)
        /\ C[4] = Fork(2, <<Dup2(0, 0), Close(0), Exec(2)>>)
        /\ C[5] = Close(0) /\ C[6] = Wait(1) /\ C[7] = Wait(2)
    BY Text151
  <1>2. \A a, s, h : K(a, s, h) <=> \/ a \in 2 .. 3 /\ ((s = 0 /\ h = r) \/ (s = 1 /\ h = w))
                                    \/ a \in 4 .. 5 /\ s = 0 /\ h = r
    BY DEF Knows, Knows151, Both, Reader
  <1>3. r.end = "read" /\ w.end = "write" /\ r # w
    BY Ends
  <1>4. r = ReadEnd(<<1, 1>>) /\ w = WriteEnd(<<1, 1>>)
    BY DEF R, W, Joint, MadeAt
  <1>5. ForkAt("inf15_1", 2, 1) = 2 /\ ForkAt("inf15_1", 2, 2) = 4
    BY DEF ForkAt
  <1> HIDE DEF C, K, r, w
  <1>6. ASSUME NEW a \in 1 .. 7
        PROVE  Learns("inf15_1", 2, a, C[a]) /\ Orders("inf15_1", 2, a, C[a])
    <2>1. Orders("inf15_1", 2, a, C[a])
      BY <1>1, <1>5 DEF Orders, Pipe, Fork, Close, Wait
    <2>2. /\ \A s, h : K(a, s, h) => s \in 0 .. 2 * 2 + 2 /\ (h = Unset \/ h.end \in {"read", "write"})
          /\ \A s, h, g : K(a, s, h) /\ K(a, s, g) => h = g
      BY <1>2, <1>3
    <2>3. C[a].op = "pipe" =>
            \A s, h : K(a + 1, s, h) =>
              \/ s = C[a].slot /\ h = ReadEnd(<<1, a>>)
              \/ s = C[a].slot + 1 /\ h = WriteEnd(<<1, a>>)
              \/ K(a, s, h) /\ s \notin {C[a].slot, C[a].slot + 1}
      BY <1>1, <1>2, <1>4 DEF Pipe, Fork, Close, Wait
    <2>4. C[a].op = "close" =>
            /\ a < 4 => \E g : K(a, C[a].slot, g)
            /\ \A s, h : K(a + 1, s, h) =>
                 K(a, s, h) /\ \E g : K(a, C[a].slot, g) /\ (g = Unset \/ g # h)
      BY <1>1, <1>2, <1>3 DEF Pipe, Fork, Close, Wait
    <2>5. C[a].op \in {"fork", "wait"} => \A s, h : K(a + 1, s, h) => K(a, s, h)
      BY <1>1, <1>2 DEF Pipe, Fork, Close, Wait
    <2>6. C[a].op \in {"pipe", "close", "fork", "wait"}
      BY <1>1 DEF Pipe, Fork, Close, Wait
    <2>7. Learns("inf15_1", 2, a, C[a])
      BY <2>2, <2>3, <2>4, <2>5, <2>6, <1>5 DEF Learns, K
    <2> QED BY <2>1, <2>7
  <1> QED BY <1>1, <1>6 DEF Wires, C

\* inf15-2.c knows where its pipe is.
LEMMA Wires152 == Wires("inf15_2", 1)
  <1> DEFINE C == Code("inf15_2", 1)
             K(a, s, h) == Knows("inf15_2", 1, a, s, h)
             r == R("inf15_2", 1)
             w == W("inf15_2", 1)
  <1>1. /\ Len(C) = 7
        /\ C[1] = Pipe(0)
        /\ C[2] = Fork(1, <<Dup2(1, 2), Close(1), Close(0), Exec(1)>>)
        /\ C[3] = Wait(1) /\ C[4] = Close(1) /\ C[5] = Dup2(0, 0)
        /\ C[6] = Close(0) /\ C[7] = ReadAll
    BY Text152
  <1>2. \A a, s, h : K(a, s, h) <=> \/ a \in 2 .. 4 /\ ((s = 0 /\ h = r) \/ (s = 1 /\ h = w))
                                    \/ a \in 5 .. 6 /\ s = 0 /\ h = r
    BY DEF Knows, Knows152, Both, Reader
  <1>3. r.end = "read" /\ w.end = "write" /\ r # w
    BY Ends
  <1>4. r = ReadEnd(<<1, 1>>) /\ w = WriteEnd(<<1, 1>>)
    BY DEF R, W, Joint, MadeAt
  <1>5. ForkAt("inf15_2", 1, 1) = 2
    BY DEF ForkAt
  <1> HIDE DEF C, K, r, w
  <1>6. ASSUME NEW a \in 1 .. 7
        PROVE  Learns("inf15_2", 1, a, C[a]) /\ Orders("inf15_2", 1, a, C[a])
    <2>1. Orders("inf15_2", 1, a, C[a])
      BY <1>1, <1>5 DEF Orders, Pipe, Fork, Close, Wait, Dup2, ReadAll
    <2>2. /\ \A s, h : K(a, s, h) => s \in 0 .. 2 * 1 + 2 /\ (h = Unset \/ h.end \in {"read", "write"})
          /\ \A s, h, g : K(a, s, h) /\ K(a, s, g) => h = g
      BY <1>2, <1>3
    <2>3. C[a].op = "pipe" =>
            \A s, h : K(a + 1, s, h) =>
              \/ s = C[a].slot /\ h = ReadEnd(<<1, a>>)
              \/ s = C[a].slot + 1 /\ h = WriteEnd(<<1, a>>)
              \/ K(a, s, h) /\ s \notin {C[a].slot, C[a].slot + 1}
      BY <1>1, <1>2, <1>4 DEF Pipe, Fork, Close, Wait, Dup2, ReadAll
    <2>4. C[a].op = "close" =>
            /\ a < 2 => \E g : K(a, C[a].slot, g)
            /\ \A s, h : K(a + 1, s, h) =>
                 K(a, s, h) /\ \E g : K(a, C[a].slot, g) /\ (g = Unset \/ g # h)
      BY <1>1, <1>2, <1>3 DEF Pipe, Fork, Close, Wait, Dup2, ReadAll
    <2>5. C[a].op \in {"fork", "wait", "dup2", "readAll"} => \A s, h : K(a + 1, s, h) => K(a, s, h)
      BY <1>1, <1>2 DEF Pipe, Fork, Close, Wait, Dup2, ReadAll
    <2>6. C[a].op \in {"pipe", "close", "fork", "wait", "dup2", "readAll"}
      BY <1>1 DEF Pipe, Fork, Close, Wait, Dup2, ReadAll
    <2>7. Learns("inf15_2", 1, a, C[a])
      BY <2>2, <2>3, <2>4, <2>5, <2>6, <1>5 DEF Learns, K
    <2> QED BY <2>1, <2>7
  <1> QED BY <1>1, <1>6 DEF Wires, C

\* Whatever the launcher and the number of programs, it knows where its pipes are.
LEMMA WiresHold ==
  ASSUME NEW l \in Launchers, NEW n \in Nat, Linked(l, n)
  PROVE  Wires(l, n)
  <1>1. CASE l = "inf15_1" /\ n = 2
    BY <1>1, Wires151
  <1>2. CASE l = "inf15_2" /\ n = 1
    BY <1>2, Wires152
  <1>3. CASE l \in {"inf15_3", "inf15_4", "main_c"} /\ n > 1
    <2>1. n >= 2
      BY <1>3
    <2> QED BY <1>3, <2>1, Wires153, Wires154, WiresMain
  <1> QED BY <1>1, <1>2, <1>3 DEF Linked

-----------------------------------------------------------------------------
(***************************************************************************)
(* The bodies of the forks: what a child has made of its descriptors when  *)
(* it executes its program.                                                *)
(***************************************************************************)
\* The body of the k-th fork, and what the child knows when it starts.
Body(l, n, k) == Code(l, n)[ForkAt(l, n, k)].body
Facts(l, n, k, s, h) == Knows(l, n, ForkAt(l, n, k), s, h)
\* What is left of it before the b-th instruction.
Left(l, n, k, b, s, h) ==
  /\ Facts(l, n, k, s, h)
  /\ \A x \in 1 .. b - 1 : Body(l, n, k)[x].op = "close" =>
       \A g : Facts(l, n, k, Body(l, n, k)[x].slot, g) => g # h
\* The x-th instruction of the body makes something else of descriptor d.
Moves(l, n, k, x, d) == Body(l, n, k)[x].op = "dup2" /\ Body(l, n, k)[x].to = d

\* What the k-th program reads and writes.
OutFd(l) == IF l = "inf15_2" THEN 2 ELSE 1
Targets(l, n, k) == k < n \/ l = "inf15_2"
Target(l, n, k) == IF Targets(l, n, k) THEN W(l, k) ELSE Terminal
Input(l, k) == IF k = 1 THEN Terminal ELSE R(l, k - 1)

\* Before the b-th instruction descriptor d has become h, or is still what it was.
Moved(l, n, k, b, d, h) ==
  \E y \in 1 .. b - 1 : Moves(l, n, k, y, d) /\ Facts(l, n, k, Body(l, n, k)[y].slot, h)
Unmoved(l, n, k, b, d) == \A y \in 1 .. b - 1 : ~Moves(l, n, k, y, d)

\* The body only refers to what the child knows, connects the program before it executes
\* it, and until then has the pipe behind the program somewhere.
BodyRules(l, n, k) ==
  LET B == Body(l, n, k) IN
  /\ \A x \in 1 .. Len(B) : B[x].op \in {"dup2", "close"} =>
       \E g : Left(l, n, k, x, B[x].slot, g) /\ g.end \in {"read", "write"}
  /\ \A x, y \in 1 .. Len(B) : \A d : Moves(l, n, k, x, d) /\ Moves(l, n, k, y, d) => x = y
  /\ \A x \in 1 .. Len(B) : (\A y \in 1 .. x - 1 : B[y].op # "exec") =>
       /\ B[x].op \in {"dup2", "close", "exec"}
       /\ Targets(l, n, k) => \/ \E s : Left(l, n, k, x, s, W(l, k))
                              \/ Moved(l, n, k, x, OutFd(l), W(l, k))
  /\ \A x \in 1 .. Len(B) : B[x].op = "exec" =>
       /\ IF k = 1 THEN Unmoved(l, n, k, x, 0) ELSE Moved(l, n, k, x, 0, R(l, k - 1))
       /\ IF Targets(l, n, k) THEN Moved(l, n, k, x, OutFd(l), W(l, k))
          ELSE Unmoved(l, n, k, x, OutFd(l))
  /\ \E x \in 1 .. Len(B) : B[x].op = "exec"

\* Bodies of three kinds: the first program's, one in the middle, and the last one's.
\* A first program's standard output becomes the pipe, whose ends may then be closed.
LEMMA FirstBody ==
  ASSUME NEW l \in Launchers, NEW n \in Nat, n > 0, NEW s, NEW c,
         Targets(l, n, 1), Len(Body(l, n, 1)) \in 3 .. 4,
         Body(l, n, 1)[1] = Dup2(s, OutFd(l)),
         \/ /\ Body(l, n, 1)[2] = Close(c) /\ Body(l, n, 1)[3] = Exec(1)
            /\ Len(Body(l, n, 1)) = 4 => Body(l, n, 1)[4] = Exit
         \/ /\ Body(l, n, 1)[2] = Close(s) /\ Body(l, n, 1)[3] = Close(c)
            /\ Len(Body(l, n, 1)) = 4 /\ Body(l, n, 1)[4] = Exec(1)
         \/ Body(l, n, 1)[2] = Exec(1) /\ Len(Body(l, n, 1)) = 3 /\ Body(l, n, 1)[3] = Exit,
         Facts(l, n, 1, s, W(l, 1)),
         \A g : Facts(l, n, 1, s, g) => g = W(l, 1),
         Facts(l, n, 1, c, R(l, 1)), c # s
  PROVE  BodyRules(l, n, 1)
  <1> DEFINE B == Body(l, n, 1)
  <1>1. OutFd(l) \in {1, 2}
    BY DEF OutFd
  <1>2. W(l, 1).end = "write" /\ R(l, 1).end = "read" /\ W(l, 1) # R(l, 1)
    BY Ends
  <1>3. Left(l, n, 1, 1, s, W(l, 1))
    BY DEF Left
  <1>4. Left(l, n, 1, 2, c, R(l, 1)) /\ (B[2] = Close(s) => Left(l, n, 1, 2, s, W(l, 1)))
    BY DEF Left, Dup2
  <1>5. B[2] = Close(s) => Left(l, n, 1, 3, c, R(l, 1))
    BY <1>2 DEF Left, Dup2, Close
  <1>6. \A x \in 1 .. Len(B) : B[x].op \in {"dup2", "close"} =>
          \E g : Left(l, n, 1, x, B[x].slot, g) /\ g.end \in {"read", "write"}
    <2> SUFFICES ASSUME NEW x \in 1 .. Len(B), B[x].op \in {"dup2", "close"}
                 PROVE  \E g : Left(l, n, 1, x, B[x].slot, g) /\ g.end \in {"read", "write"}
      OBVIOUS
    <2>1. CASE x = 1
      BY <2>1, <1>2, <1>3 DEF Dup2
    <2>2. CASE x = 2
      BY <2>2, <1>2, <1>4 DEF Close, Exec
    <2>3. CASE x = 3
      BY <2>3, <1>2, <1>5 DEF Close, Exec, Exit
    <2>4. CASE x = 4
      BY <2>4 DEF Exec, Exit
    <2> QED BY <2>1, <2>2, <2>3, <2>4
  <1>7. \A x \in 1 .. Len(B) : B[x].op = "dup2" => x = 1
    BY DEF Close, Exec, Exit
  <1>8. \A x \in 1 .. Len(B) : \A d : Moves(l, n, 1, x, d) => x = 1 /\ d = OutFd(l)
    BY <1>7 DEF Moves, Dup2
  <1>9. \A x \in 2 .. Len(B) : Moved(l, n, 1, x, OutFd(l), W(l, 1))
    <2>1. Moves(l, n, 1, 1, OutFd(l)) /\ Facts(l, n, 1, B[1].slot, W(l, 1))
      BY DEF Moves, Dup2
    <2> QED BY <2>1 DEF Moved
  <1>10. \A x \in 1 .. Len(B) : Unmoved(l, n, 1, x, 0)
    BY <1>1, <1>8 DEF Unmoved
  <1>11. \A x \in 1 .. Len(B) : /\ x = 1 => B[x].op = "dup2"
                                /\ (\A y \in 1 .. x - 1 : B[y].op # "exec") => B[x].op \in {"dup2", "close", "exec"}
    <2> SUFFICES ASSUME NEW x \in 1 .. Len(B)
                 PROVE  /\ x = 1 => B[x].op = "dup2"
                        /\ (\A y \in 1 .. x - 1 : B[y].op # "exec") => B[x].op \in {"dup2", "close", "exec"}
      OBVIOUS
    <2>1. CASE x \in {1, 2}
      BY <2>1 DEF Dup2, Close, Exec
    <2>2. CASE x = 3
      <3>1. 2 \in 1 .. x - 1
        BY <2>2
      <3> QED BY <2>2, <3>1 DEF Dup2, Close, Exec
    <2>3. CASE x = 4
      <3>1. 3 \in 1 .. x - 1
        BY <2>3
      <3> QED BY <2>3, <3>1 DEF Dup2, Close, Exec
    <2> QED BY <2>1, <2>2, <2>3
  <1>12. \E x \in 1 .. Len(B) : B[x].op = "exec"
    <2>1. 2 \in 1 .. Len(B) /\ 3 \in 1 .. Len(B) /\ (Len(B) = 4 => 4 \in 1 .. Len(B))
      OBVIOUS
    <2>2. B[2].op = "exec" \/ B[3].op = "exec" \/ (Len(B) = 4 /\ B[4].op = "exec")
      BY DEF Exec
    <2> QED BY <2>1, <2>2
  <1>13. \A x, y \in 1 .. Len(B) : \A d : Moves(l, n, 1, x, d) /\ Moves(l, n, 1, y, d) => x = y
    BY <1>8
  <1>14. \A x \in 1 .. Len(B) : B[x].op = "exec" => x \in 2 .. Len(B)
    BY DEF Dup2
  <1>15. \A x \in 1 .. Len(B) : \/ \E q : Left(l, n, 1, x, q, W(l, 1))
                                \/ Moved(l, n, 1, x, OutFd(l), W(l, 1))
    BY <1>3, <1>9
  <1> HIDE DEF B
  <1> QED BY <1>6, <1>9, <1>10, <1>11, <1>12, <1>13, <1>14, <1>15 DEF BodyRules, B

\* The last program only has its standard input moved.
LEMMA LastBody ==
  ASSUME NEW l \in Launchers, NEW n \in Nat, n > 1, NEW s, l # "inf15_2",
         Len(Body(l, n, n)) = 3, Body(l, n, n)[1] = Dup2(s, 0),
         \/ Body(l, n, n)[2] = Close(s) /\ Body(l, n, n)[3] = Exec(n)
         \/ Body(l, n, n)[2] = Exec(n) /\ Body(l, n, n)[3] = Exit,
         Facts(l, n, n, s, R(l, n - 1))
  PROVE  BodyRules(l, n, n)
  <1> DEFINE B == Body(l, n, n)
  <1>1. OutFd(l) = 1 /\ ~Targets(l, n, n)
    BY DEF OutFd, Targets
  <1>2. R(l, n - 1).end = "read"
    BY Ends
  <1>3. Left(l, n, n, 1, s, R(l, n - 1)) /\ Left(l, n, n, 2, s, R(l, n - 1))
    BY DEF Left, Dup2
  <1>4. \A x \in 1 .. 3 : /\ B[x].op = "dup2" => x = 1
                          /\ B[x].op = "close" => x = 2 /\ B[x].slot = s
                          /\ B[x].op = "exec" => x > 1
                          /\ x < 3 => B[x].op \in {"dup2", "close", "exec"}
    BY DEF Dup2, Close, Exec, Exit
  <1>5. \A x \in 1 .. 3 : \A d : Moves(l, n, n, x, d) => x = 1 /\ d = 0
    BY <1>4 DEF Moves, Dup2
  <1>6. Moves(l, n, n, 1, 0) /\ B[1].slot = s
    BY DEF Moves, Dup2
  <1>7. B[2].op = "exec" \/ B[3].op = "exec"
    BY DEF Exec
  <1>8. (\A y \in 1 .. 3 - 1 : B[y].op # "exec") => B[3].op = "exec"
    BY <1>7
  <1> HIDE DEF B
  <1>9. \A x \in 1 .. 3 : B[x].op \in {"dup2", "close"} =>
          \E g : Left(l, n, n, x, B[x].slot, g) /\ g.end \in {"read", "write"}
    BY <1>2, <1>3, <1>4, <1>6
  <1>10. \A x \in 1 .. 3 : (\A y \in 1 .. x - 1 : B[y].op # "exec") => B[x].op \in {"dup2", "close", "exec"}
    BY <1>4, <1>8
  <1>11. \A x \in 2 .. 3 : Moved(l, n, n, x, 0, R(l, n - 1)) /\ Unmoved(l, n, n, x, 1)
    BY <1>5, <1>6 DEF Moved, Unmoved, B
  <1>12. \E x \in 1 .. 3 : B[x].op = "exec"
    BY <1>7
  <1> QED BY <1>1, <1>4, <1>5, <1>9, <1>10, <1>11, <1>12 DEF BodyRules, B

\* A program in the middle has both of them moved.
LEMMA MiddleBody ==
  ASSUME NEW l \in Launchers, NEW n \in Nat, NEW k \in 2 .. n - 1, NEW i, NEW o, l # "inf15_2",
         \/ /\ Len(Body(l, n, k)) = 3 /\ Body(l, n, k)[1] = Dup2(o, 1)
            /\ Body(l, n, k)[2] = Dup2(i, 0) /\ Body(l, n, k)[3] = Exec(k)
         \/ /\ Len(Body(l, n, k)) = 4 /\ Body(l, n, k)[1] = Dup2(i, 0)
            /\ Body(l, n, k)[2] = Dup2(o, 1) /\ Body(l, n, k)[3] = Close(o)
            /\ Body(l, n, k)[4] = Exec(k)
         \/ /\ Len(Body(l, n, k)) = 5 /\ Body(l, n, k)[1] = Dup2(o, 1)
            /\ \E c : /\ Body(l, n, k)[2] = Close(c) /\ Facts(l, n, k, c, R(l, k))
                      /\ \A g : Facts(l, n, k, c, g) => g = R(l, k)
            /\ Body(l, n, k)[3] = Dup2(i, 0)
            /\ Body(l, n, k)[4] = Exec(k) /\ Body(l, n, k)[5] = Exit,
         Facts(l, n, k, i, R(l, k - 1)), Facts(l, n, k, o, W(l, k)),
         R(l, k) # R(l, k - 1)
  PROVE  BodyRules(l, n, k)
  <1> DEFINE B == Body(l, n, k)
  <1>1. OutFd(l) = 1 /\ Targets(l, n, k)
    BY DEF OutFd, Targets
  <1>2. R(l, k).end = "read" /\ R(l, k - 1).end = "read" /\ W(l, k).end = "write" /\ W(l, k) # R(l, k)
    BY Ends
  <1>3. Left(l, n, k, 1, o, W(l, k)) /\ Left(l, n, k, 1, i, R(l, k - 1))
    BY DEF Left
  <1>4. CASE /\ Len(B) = 3 /\ B[1] = Dup2(o, 1) /\ B[2] = Dup2(i, 0) /\ B[3] = Exec(k)
    <2>1. Left(l, n, k, 2, i, R(l, k - 1)) /\ Left(l, n, k, 2, o, W(l, k))
      BY <1>4 DEF Left, Dup2
    <2>2. /\ \A x \in 1 .. 3 : B[x].op = "dup2" => x < 3
          /\ B[3].op = "exec" /\ \A x \in 1 .. 3 : B[x].op = "exec" => x = 3
          /\ \A x \in 1 .. 3 : B[x].op \in {"dup2", "close", "exec"}
          /\ B[1].slot = o /\ B[2].slot = i
      BY <1>4 DEF Dup2, Exec
    <2>3. \A x \in 1 .. 3 : \A d : Moves(l, n, k, x, d) <=> (x = 1 /\ d = 1) \/ (x = 2 /\ d = 0)
      BY <1>4 DEF Moves, Dup2, Exec
    <2>4. Moved(l, n, k, 3, 0, R(l, k - 1)) /\ Moved(l, n, k, 3, 1, W(l, k))
      BY <2>2, <2>3 DEF Moved, B
    <2> HIDE DEF B
    <2>5. \A x \in 1 .. 3 : B[x].op \in {"dup2", "close"} =>
            \E g : Left(l, n, k, x, B[x].slot, g) /\ g.end \in {"read", "write"}
      <3>1. ASSUME NEW x \in 1 .. 3, B[x].op \in {"dup2", "close"}
            PROVE  \E g : Left(l, n, k, x, B[x].slot, g) /\ g.end \in {"read", "write"}
        <4>1. x = 1 \/ x = 2
          BY <3>1, <2>2
        <4> QED BY <4>1, <1>2, <1>3, <2>1, <2>2
      <3> QED BY <3>1
    <2>6. \A x \in 1 .. 3 : (\E s : Left(l, n, k, x, s, W(l, k))) \/ Moved(l, n, k, x, 1, W(l, k))
      BY <1>3, <2>1, <2>4
    <2>7. \E x \in 1 .. 3 : B[x].op = "exec"
      BY <2>2
    <2>8. \A x, y \in 1 .. 3 : \A d : Moves(l, n, k, x, d) /\ Moves(l, n, k, y, d) => x = y
      BY <2>3
    <2> QED BY <1>1, <1>4, <2>2, <2>4, <2>5, <2>6, <2>7, <2>8 DEF BodyRules, B
  <1>5. CASE /\ Len(B) = 4 /\ B[1] = Dup2(i, 0) /\ B[2] = Dup2(o, 1) /\ B[3] = Close(o) /\ B[4] = Exec(k)
    <2>1. Left(l, n, k, 2, o, W(l, k)) /\ Left(l, n, k, 3, o, W(l, k))
      BY <1>5 DEF Left, Dup2
    <2>2. /\ \A x \in 1 .. 4 : B[x].op \in {"dup2", "close"} => x < 4
          /\ B[4].op = "exec" /\ \A x \in 1 .. 4 : B[x].op = "exec" => x = 4
          /\ \A x \in 1 .. 4 : B[x].op \in {"dup2", "close", "exec"}
          /\ B[1].slot = i /\ B[2].slot = o /\ B[3].slot = o
      BY <1>5 DEF Dup2, Exec, Close
    <2>3. \A x \in 1 .. 4 : \A d : Moves(l, n, k, x, d) <=> (x = 2 /\ d = 1) \/ (x = 1 /\ d = 0)
      BY <1>5 DEF Moves, Dup2, Exec, Close
    <2>4. Moved(l, n, k, 4, 0, R(l, k - 1)) /\ Moved(l, n, k, 4, 1, W(l, k)) /\ Moved(l, n, k, 3, 1, W(l, k))
      BY <2>2, <2>3 DEF Moved, B
    <2> HIDE DEF B
    <2>5. \A x \in 1 .. 4 : B[x].op \in {"dup2", "close"} =>
            \E g : Left(l, n, k, x, B[x].slot, g) /\ g.end \in {"read", "write"}
      <3>1. ASSUME NEW x \in 1 .. 4, B[x].op \in {"dup2", "close"}
            PROVE  \E g : Left(l, n, k, x, B[x].slot, g) /\ g.end \in {"read", "write"}
        <4>1. x = 1 \/ x = 2 \/ x = 3
          BY <3>1, <2>2
        <4> QED BY <4>1, <1>2, <1>3, <2>1, <2>2
      <3> QED BY <3>1
    <2>6. \A x \in 1 .. 4 : (\E s : Left(l, n, k, x, s, W(l, k))) \/ Moved(l, n, k, x, 1, W(l, k))
      BY <1>3, <2>1, <2>4
    <2>7. \E x \in 1 .. 4 : B[x].op = "exec"
      BY <2>2
    <2>8. \A x, y \in 1 .. 4 : \A d : Moves(l, n, k, x, d) /\ Moves(l, n, k, y, d) => x = y
      BY <2>3
    <2> QED BY <1>1, <1>5, <2>2, <2>4, <2>5, <2>6, <2>7, <2>8 DEF BodyRules, B
  <1>6. ASSUME NEW c, Len(B) = 5, B[1] = Dup2(o, 1), B[2] = Close(c), Facts(l, n, k, c, R(l, k)),
               \A g : Facts(l, n, k, c, g) => g = R(l, k),
               B[3] = Dup2(i, 0), B[4] = Exec(k), B[5] = Exit
        PROVE  BodyRules(l, n, k)
    <2>1. /\ Left(l, n, k, 2, c, R(l, k)) /\ Left(l, n, k, 2, o, W(l, k))
          /\ Left(l, n, k, 3, i, R(l, k - 1))
      BY <1>2, <1>6 DEF Left, Dup2, Close
    <2>2. /\ \A x \in 1 .. 5 : B[x].op \in {"dup2", "close"} => x < 4
          /\ B[4].op = "exec" /\ \A x \in 1 .. 5 : B[x].op = "exec" => x = 4
          /\ \A x \in 1 .. 4 : B[x].op \in {"dup2", "close", "exec"}
          /\ B[1].slot = o /\ B[2].slot = c /\ B[3].slot = i
      BY <1>6 DEF Dup2, Exec, Close, Exit
    <2>3. \A x \in 1 .. 5 : \A d : Moves(l, n, k, x, d) <=> (x = 1 /\ d = 1) \/ (x = 3 /\ d = 0)
      BY <1>6 DEF Moves, Dup2, Exec, Close, Exit
    <2>4. /\ Moved(l, n, k, 4, 0, R(l, k - 1))
          /\ \A x \in 2 .. 5 : Moved(l, n, k, x, 1, W(l, k))
      BY <2>2, <2>3 DEF Moved, B
    <2> HIDE DEF B
    <2>5. \A x \in 1 .. 5 : B[x].op \in {"dup2", "close"} =>
            \E g : Left(l, n, k, x, B[x].slot, g) /\ g.end \in {"read", "write"}
      <3>1. ASSUME NEW x \in 1 .. 5, B[x].op \in {"dup2", "close"}
            PROVE  \E g : Left(l, n, k, x, B[x].slot, g) /\ g.end \in {"read", "write"}
        <4>1. x = 1 \/ x = 2 \/ x = 3
          BY <3>1, <2>2
        <4> QED BY <4>1, <1>2, <1>3, <2>1, <2>2
      <3> QED BY <3>1
    <2>6. \A x \in 1 .. 5 : (\E s : Left(l, n, k, x, s, W(l, k))) \/ Moved(l, n, k, x, 1, W(l, k))
      BY <1>3, <2>1, <2>4
    <2>7. \E x \in 1 .. 5 : B[x].op = "exec"
      BY <2>2
    <2>8. \A x, y \in 1 .. 5 : \A d : Moves(l, n, k, x, d) /\ Moves(l, n, k, y, d) => x = y
      BY <2>3
    <2>9. \A x \in 1 .. 5 : (\A y \in 1 .. x - 1 : B[y].op # "exec") => B[x].op \in {"dup2", "close", "exec"}
      <3>1. ASSUME NEW x \in 1 .. 5, \A y \in 1 .. x - 1 : B[y].op # "exec"
            PROVE  B[x].op \in {"dup2", "close", "exec"}
        <4>1. x # 5
          <5>1. SUFFICES ASSUME x = 5 PROVE FALSE
            OBVIOUS
          <5>2. 4 \in 1 .. x - 1
            BY <5>1
          <5> QED BY <5>2, <3>1, <2>2
        <4> QED BY <4>1, <2>2
      <3> QED BY <3>1
    <2> QED BY <1>1, <1>6, <2>2, <2>4, <2>5, <2>6, <2>7, <2>8, <2>9 DEF BodyRules, B
  <1> QED BY <1>4, <1>5, <1>6

\* Every program is forked at its place, from a body that connects it.
Forking(l, n) ==
  /\ \A k \in 1 .. n :
       /\ ForkAt(l, n, k) \in 1 .. Len(Code(l, n))
       /\ \E b : Code(l, n)[ForkAt(l, n, k)] = Fork(k, b)
       /\ BodyRules(l, n, k)
\* The forks come one after the other, and a pipe is made before the program that writes to
\* it is forked.
Apart(l, n) ==
  /\ \A j, k \in 1 .. n : j < k => ForkAt(l, n, j) < ForkAt(l, n, k)
  /\ \A k \in 1 .. n : Targets(l, n, k) => MadeAt(l, k) \in 1 .. ForkAt(l, n, k) - 1
  /\ \A j, k \in 1 .. n : Targets(l, n, j) /\ Targets(l, n, k) /\ j # k => MadeAt(l, j) # MadeAt(l, k)

\* It is so for every launcher and every number of programs.
LEMMA AreApart ==
  ASSUME NEW l \in Launchers, NEW n \in Nat, Linked(l, n)
  PROVE  Apart(l, n)
  <1>1. \A j, k \in 1 .. n : j < k => ForkAt(l, n, j) < ForkAt(l, n, k)
    BY DEF ForkAt, Linked, Launchers
  <1>2. \A k \in 1 .. n : Targets(l, n, k) => MadeAt(l, k) \in 1 .. ForkAt(l, n, k) - 1
    BY DEF ForkAt, MadeAt, Targets, Linked, Launchers
  <1>3. \A j, k \in 1 .. n : Targets(l, n, j) /\ Targets(l, n, k) /\ j # k => MadeAt(l, j) # MadeAt(l, k)
    BY DEF MadeAt, Targets, Linked, Launchers
  <1> QED BY <1>1, <1>2, <1>3 DEF Apart

\* inf15-1.c forks as it should.
LEMMA Forking151 == Forking("inf15_1", 2)
  <1>1. ForkAt("inf15_1", 2, 1) = 2 /\ ForkAt("inf15_1", 2, 2) = 4
    BY DEF ForkAt
  <1> DEFINE B1 == <<Dup2(1, 1), Close(1), Close(0), Exec(1)>>
             B2 == <<Dup2(0, 0), Close(0), Exec(2)>>
  <1>2. /\ Len(Code("inf15_1", 2)) = 7
        /\ Code("inf15_1", 2)[2] = Fork(1, B1) /\ Code("inf15_1", 2)[4] = Fork(2, B2)
    BY Text151
  <1>3. Body("inf15_1", 2, 1) = B1 /\ Body("inf15_1", 2, 2) = B2
    BY <1>1, <1>2 DEF Body, Fork
  <1>4. /\ \A s, h : Facts("inf15_1", 2, 1, s, h) <=>
              (s = 0 /\ h = R("inf15_1", 1)) \/ (s = 1 /\ h = W("inf15_1", 1))
        /\ \A s, h : Facts("inf15_1", 2, 2, s, h) <=> (s = 0 /\ h = R("inf15_1", 1))
    BY <1>1 DEF Facts, Knows, Knows151, Both, Reader
  <1>5. BodyRules("inf15_1", 2, 1)
    <2>1. OutFd("inf15_1") = 1 /\ Targets("inf15_1", 2, 1) /\ "inf15_1" \in Launchers
      BY DEF OutFd, Targets, Launchers
    <2>2. Len(B1) = 4 /\ B1[1] = Dup2(1, 1) /\ B1[2] = Close(1) /\ B1[3] = Close(0) /\ B1[4] = Exec(1)
      OBVIOUS
    <2> QED BY <1>3, <1>4, <2>1, <2>2, FirstBody
  <1>6. BodyRules("inf15_1", 2, 2)
    <2>1. "inf15_1" \in Launchers
      BY DEF Launchers
    <2>2. Len(B2) = 3 /\ B2[1] = Dup2(0, 0) /\ B2[2] = Close(0) /\ B2[3] = Exec(2)
      OBVIOUS
    <2>3. Facts("inf15_1", 2, 2, 0, R("inf15_1", 2 - 1))
      BY <1>4
    <2> QED BY <1>3, <2>1, <2>2, <2>3, LastBody
  <1>7. \A k \in 1 .. 2 : k = 1 \/ k = 2
    OBVIOUS
  <1>8. /\ ForkAt("inf15_1", 2, 1) \in 1 .. Len(Code("inf15_1", 2))
        /\ ForkAt("inf15_1", 2, 2) \in 1 .. Len(Code("inf15_1", 2))
    BY <1>1, <1>2
  <1>9. /\ \E b : Code("inf15_1", 2)[ForkAt("inf15_1", 2, 1)] = Fork(1, b)
        /\ \E b : Code("inf15_1", 2)[ForkAt("inf15_1", 2, 2)] = Fork(2, b)
    BY <1>1, <1>2
  <1> QED BY <1>5, <1>6, <1>7, <1>8, <1>9 DEF Forking

\* inf15-2.c forks as it should.
LEMMA Forking152 == Forking("inf15_2", 1)
  <1>1. ForkAt("inf15_2", 1, 1) = 2
    BY DEF ForkAt
  <1> DEFINE B1 == <<Dup2(1, 2), Close(1), Close(0), Exec(1)>>
  <1>2. Len(Code("inf15_2", 1)) = 7 /\ Code("inf15_2", 1)[2] = Fork(1, B1)
    BY Text152
  <1>3. Body("inf15_2", 1, 1) = B1
    BY <1>1, <1>2 DEF Body, Fork
  <1>4. \A s, h : Facts("inf15_2", 1, 1, s, h) <=>
              (s = 0 /\ h = R("inf15_2", 1)) \/ (s = 1 /\ h = W("inf15_2", 1))
    BY <1>1 DEF Facts, Knows, Knows152, Both, Reader
  <1>5. BodyRules("inf15_2", 1, 1)
    <2>1. OutFd("inf15_2") = 2 /\ Targets("inf15_2", 1, 1) /\ "inf15_2" \in Launchers
      BY DEF OutFd, Targets, Launchers
    <2>2. Len(B1) = 4 /\ B1[1] = Dup2(1, 2) /\ B1[2] = Close(1) /\ B1[3] = Close(0) /\ B1[4] = Exec(1)
      OBVIOUS
    <2> QED BY <1>3, <1>4, <2>1, <2>2, FirstBody
  <1>6. \A k \in 1 .. 1 : k = 1
    OBVIOUS
  <1>7. ForkAt("inf15_2", 1, 1) \in 1 .. Len(Code("inf15_2", 1))
    BY <1>1, <1>2
  <1>8. \E b : Code("inf15_2", 1)[ForkAt("inf15_2", 1, 1)] = Fork(1, b)
    BY <1>1, <1>2
  <1> QED BY <1>5, <1>6, <1>7, <1>8 DEF Forking

\* inf15-3.c forks as it should.
LEMMA Forking153 ==
  ASSUME NEW n \in Nat, n >= 2
  PROVE  Forking("inf15_3", n)
  <1> DEFINE C == Code("inf15_3", n)
             L == 5 * n + 4
             r(k) == R("inf15_3", k)
             w(k) == W("inf15_3", k)
  <1>1. C = inf15_3(n)
    BY Code153
  <1> HIDE DEF C
  <1>2. /\ IsList(C, L)
        /\ C[n + 2] = Fork(1, <<Dup2(3, 1), Exec(1), Exit>>)
        /\ \A i \in 2 .. n - 1 :
             C[n + 1 + i] = Fork(i, <<Dup2(2 * i + 1, 1), Dup2(2 * (i - 1), 0), Exec(i)>>)
        /\ C[2 * n + 1] = Fork(n, <<Dup2(2 * n - 2, 0), Exec(n), Exit>>)
    BY <1>1, Text153
  <1>3. Len(C) = L
    <2>1. L \in Nat /\ IsList(C, L)
      BY <1>2
    <2> HIDE DEF L
    <2> QED BY <2>1, ListLength
  <1>4. \A k : ForkAt("inf15_3", n, k) = n + 1 + k
    BY DEF ForkAt
  <1>5. \A k : Body("inf15_3", n, k) = C[n + 1 + k].body
    BY <1>4 DEF Body, C
  <1>6. \A k \in 1 .. n : \A s, h :
          Facts("inf15_3", n, k, s, h) <=> \E j \in 0 .. n : (s = 2 * j /\ h = r(j)) \/ (s = 2 * j + 1 /\ h = w(j))
    BY <1>4 DEF Facts, Knows, Knows153, Both
  <1>7. \A k \in 1 .. n : \A j \in 0 .. n : /\ Facts("inf15_3", n, k, 2 * j, r(j))
                                            /\ Facts("inf15_3", n, k, 2 * j + 1, w(j))
                                            /\ \A g : Facts("inf15_3", n, k, 2 * j + 1, g) => g = w(j)
    BY <1>6
  <1>8. "inf15_3" \in Launchers /\ OutFd("inf15_3") = 1 /\ Targets("inf15_3", n, 1)
    BY DEF Launchers, OutFd, Targets
  <1>9. BodyRules("inf15_3", n, 1)
    <2>1. C[n + 2].body = <<Dup2(3, 1), Exec(1), Exit>>
      BY <1>2 DEF Fork
    <2>2. n + 1 + 1 = n + 2
      OBVIOUS
    <2> DEFINE B == Body("inf15_3", n, 1)
    <2>3. B = <<Dup2(3, 1), Exec(1), Exit>>
      BY <1>5, <2>1, <2>2
    <2>4. Len(B) = 3 /\ B[1] = Dup2(3, 1) /\ B[2] = Exec(1) /\ B[3] = Exit
      BY <2>3
    <2>5. 1 \in 1 .. n /\ 1 \in 0 .. n /\ 2 * 1 + 1 = 3 /\ 2 * 1 = 2
      OBVIOUS
    <2>6. /\ Facts("inf15_3", n, 1, 3, w(1)) /\ Facts("inf15_3", n, 1, 2, r(1))
          /\ \A g : Facts("inf15_3", n, 1, 3, g) => g = w(1)
      BY <1>7, <2>5
    <2> HIDE DEF C
    <2> QED BY <1>8, <2>4, <2>6, FirstBody
  <1>10. ASSUME NEW k \in 2 .. n - 1
         PROVE  BodyRules("inf15_3", n, k)
    <2> DEFINE B == Body("inf15_3", n, k)
    <2>1. B = <<Dup2(2 * k + 1, 1), Dup2(2 * (k - 1), 0), Exec(k)>>
      <3>1. C[n + 1 + k] = Fork(k, <<Dup2(2 * k + 1, 1), Dup2(2 * (k - 1), 0), Exec(k)>>)
        BY <1>2
      <3>2. C[n + 1 + k].body = <<Dup2(2 * k + 1, 1), Dup2(2 * (k - 1), 0), Exec(k)>>
        BY <3>1 DEF Fork
      <3> QED BY <1>5, <3>2
    <2>2. Len(B) = 3 /\ B[1] = Dup2(2 * k + 1, 1) /\ B[2] = Dup2(2 * (k - 1), 0) /\ B[3] = Exec(k)
      BY <2>1
    <2>3. k \in 1 .. n /\ k \in 0 .. n /\ k - 1 \in 0 .. n /\ k # k - 1
      OBVIOUS
    <2>4. Facts("inf15_3", n, k, 2 * k + 1, w(k)) /\ Facts("inf15_3", n, k, 2 * (k - 1), r(k - 1))
      BY <1>7, <2>3
    <2>5. r(k) # r(k - 1)
      BY <2>3, MadeApart, Ends
    <2> HIDE DEF B
    <2> QED BY <1>8, <2>2, <2>4, <2>5, MiddleBody DEF B
  <1>11. BodyRules("inf15_3", n, n)
    <2> DEFINE B == Body("inf15_3", n, n)
    <2>1. n + 1 + n = 2 * n + 1 /\ 2 * (n - 1) = 2 * n - 2 /\ n \in 1 .. n /\ n - 1 \in 0 .. n
      OBVIOUS
    <2>2. B = <<Dup2(2 * n - 2, 0), Exec(n), Exit>>
      BY <1>2, <1>5, <2>1 DEF Fork
    <2>3. Len(B) = 3 /\ B[1] = Dup2(2 * n - 2, 0) /\ B[2] = Exec(n) /\ B[3] = Exit
      BY <2>2
    <2>4. Facts("inf15_3", n, n, 2 * n - 2, r(n - 1))
      BY <1>7, <2>1
    <2> QED BY <1>8, <2>3, <2>4, LastBody
  <1>12. ASSUME NEW k \in 1 .. n
         PROVE  /\ ForkAt("inf15_3", n, k) \in 1 .. Len(C)
                /\ \E b : C[ForkAt("inf15_3", n, k)] = Fork(k, b)
                /\ BodyRules("inf15_3", n, k)
    <2>1. ForkAt("inf15_3", n, k) \in 1 .. Len(C)
      BY <1>3, <1>4
    <2>2. BodyRules("inf15_3", n, k)
      <3>1. k = 1 \/ k \in 2 .. n - 1 \/ k = n
        OBVIOUS
      <3> QED BY <3>1, <1>9, <1>10, <1>11
    <2>3. \E b : C[n + 1 + k] = Fork(k, b)
      <3>1. k = 1 \/ k \in 2 .. n - 1 \/ k = n
        OBVIOUS
      <3>2. n + 1 + 1 = n + 2 /\ n + 1 + n = 2 * n + 1
        OBVIOUS
      <3> QED BY <3>1, <3>2, <1>2
    <2> QED BY <2>1, <2>2, <2>3, <1>4
  <1> QED BY <1>12 DEF Forking, C

\* inf15-4.c forks as it should.
LEMMA Forking154 ==
  ASSUME NEW n \in Nat, n >= 2
  PROVE  Forking("inf15_4", n)
  <1> DEFINE C == Code("inf15_4", n)
             L == 6 * n - 5
             K(a, s, h) == Knows("inf15_4", n, a, s, h)
             F(k, s, h) == Facts("inf15_4", n, k, s, h)
             r(k) == R("inf15_4", k)
             w(k) == W("inf15_4", k)
  <1>1. Is154(C, n)
    BY Listed154
  <1> HIDE DEF C
  <1>2. /\ IsList(C, L)
        /\ C[2] = Fork(1, <<Dup2(1, 1), Close(0), Exec(1)>>)
        /\ \A i \in 2 .. n - 1 : C[6 * i - 6] = Fork(i, <<Dup2(0, 0), Dup2(3, 1), Close(3), Exec(i)>>)
        /\ C[6 * n - 7] = Fork(n, <<Dup2(0, 0), Close(0), Exec(n)>>)
    BY <1>1 DEF Is154
  <1>3. Len(C) = L
    <2>1. L \in Nat /\ IsList(C, L)
      BY <1>2
    <2> HIDE DEF L
    <2> QED BY <2>1, ListLength
  <1>4. /\ ForkAt("inf15_4", n, 1) = 2 /\ ForkAt("inf15_4", n, n) = 6 * n - 7
        /\ \A i \in 2 .. n - 1 : ForkAt("inf15_4", n, i) = 6 * i - 6
    BY DEF ForkAt
  <1>5. /\ \A s, h : \A a \in 2 .. 4 : K(a, s, h) <=> (s = 0 /\ h = r(1)) \/ (s = 1 /\ h = w(1))
        /\ \A i \in 2 .. n - 1 : \A s, h : \A a \in 6 * i - 6 .. 6 * i - 4 :
             K(a, s, h) <=> (s = 0 /\ h = r(i - 1)) \/ (s = 2 /\ h = r(i)) \/ (s = 3 /\ h = w(i))
        /\ \A a \in 6 * n - 7 .. 6 * n - 5 : \A s, h : K(a, s, h) <=> (s = 0 /\ h = r(n - 1))
    BY ZenonT(60), Known154
  <1>6. "inf15_4" \in Launchers /\ OutFd("inf15_4") = 1 /\ Targets("inf15_4", n, 1)
    BY DEF Launchers, OutFd, Targets
  <1> HIDE DEF r, w
  <1>7. BodyRules("inf15_4", n, 1)
    <2> DEFINE B == Body("inf15_4", n, 1)
    <2>1. B = <<Dup2(1, 1), Close(0), Exec(1)>>
      BY <1>2, <1>4 DEF Body, Fork, C
    <2>2. Len(B) = 3 /\ B[1] = Dup2(1, 1) /\ B[2] = Close(0) /\ B[3] = Exec(1)
      BY <2>1
    <2>3. F(1, 1, w(1)) /\ F(1, 0, r(1)) /\ \A g : F(1, 1, g) => g = w(1)
      BY <1>4, <1>5 DEF Facts
    <2> HIDE DEF C
    <2> QED BY <1>6, <2>2, <2>3, FirstBody DEF r, w
  <1>8. ASSUME NEW k \in 2 .. n - 1
         PROVE  BodyRules("inf15_4", n, k)
    <2> DEFINE B == Body("inf15_4", n, k)
    <2>1. B = <<Dup2(0, 0), Dup2(3, 1), Close(3), Exec(k)>>
      <3>1. C[6 * k - 6] = Fork(k, <<Dup2(0, 0), Dup2(3, 1), Close(3), Exec(k)>>)
        BY <1>2
      <3>2. C[6 * k - 6].body = <<Dup2(0, 0), Dup2(3, 1), Close(3), Exec(k)>>
        BY <3>1 DEF Fork
      <3>3. B = C[6 * k - 6].body
        BY <1>4 DEF Body, C
      <3> QED BY <3>2, <3>3
    <2>2. Len(B) = 4 /\ B[1] = Dup2(0, 0) /\ B[2] = Dup2(3, 1) /\ B[3] = Close(3) /\ B[4] = Exec(k)
      BY <2>1
    <2>3. F(k, 0, r(k - 1)) /\ F(k, 3, w(k))
      <3>1. ForkAt("inf15_4", n, k) = 6 * k - 6 /\ 6 * k - 6 \in 6 * k - 6 .. 6 * k - 4
        BY <1>4
      <3>2. \A s, h : F(k, s, h) <=> K(6 * k - 6, s, h)
        BY <3>1 DEF Facts
      <3> HIDE DEF F
      <3> QED BY <3>1, <3>2, <1>5
    <2>4. r(k) # r(k - 1)
      <3>1. k \in 0 .. n /\ k - 1 \in 0 .. n /\ k # k - 1 /\ k > 0 /\ k - 1 > 0
        OBVIOUS
      <3> QED BY <3>1, MadeApart, Ends DEF r
    <2> HIDE DEF B
    <2> QED BY <1>6, <2>2, <2>3, <2>4, MiddleBody DEF B, r, w
  <1>9. BodyRules("inf15_4", n, n)
    <2> DEFINE B == Body("inf15_4", n, n)
    <2>1. B = <<Dup2(0, 0), Close(0), Exec(n)>>
      BY <1>2, <1>4 DEF Body, Fork, C
    <2>2. Len(B) = 3 /\ B[1] = Dup2(0, 0) /\ B[2] = Close(0) /\ B[3] = Exec(n)
      BY <2>1
    <2>3. F(n, 0, r(n - 1))
      BY <1>4, <1>5 DEF Facts
    <2> QED BY <1>6, <2>2, <2>3, LastBody DEF r
  <1>10. ASSUME NEW k \in 1 .. n
         PROVE  /\ ForkAt("inf15_4", n, k) \in 1 .. Len(C)
                /\ \E b : C[ForkAt("inf15_4", n, k)] = Fork(k, b)
                /\ BodyRules("inf15_4", n, k)
    <2>1. k = 1 \/ k \in 2 .. n - 1 \/ k = n
      OBVIOUS
    <2>2. ForkAt("inf15_4", n, k) \in 1 .. Len(C)
      BY <1>3, <1>4, <2>1
    <2>3. BodyRules("inf15_4", n, k)
      BY <2>1, <1>7, <1>8, <1>9
    <2>4. \E b : C[ForkAt("inf15_4", n, k)] = Fork(k, b)
      BY <2>1, <1>2, <1>4
    <2> QED BY <2>2, <2>3, <2>4
  <1> QED BY <1>10 DEF Forking, C

\* main.c forks as it should.
LEMMA ForkingMain ==
  ASSUME NEW n \in Nat, n >= 2
  PROVE  Forking("main_c", n)
  <1> DEFINE C == Code("main_c", n)
             L == 5 * n - 2
             K(a, s, h) == Knows("main_c", n, a, s, h)
             F(k, s, h) == Facts("main_c", n, k, s, h)
             r(k) == R("main_c", k)
             w(k) == W("main_c", k)
  <1>1. IsMain(C, n)
    BY ListedMain
  <1> HIDE DEF C
  <1>2. /\ IsList(C, L)
        /\ C[2] = Fork(1, <<Dup2(1, 1), Close(0), Exec(1), Exit>>)
        /\ \A i \in 2 .. n - 1 : C[5 * i - 3] = Fork(i, Stage(i))
        /\ C[5 * n - 4] = Fork(n, <<Dup2(Out(n - 1), 0), Exec(n), Exit>>)
    BY <1>1 DEF IsMain
  <1>3. Len(C) = L
    <2>1. L \in Nat /\ IsList(C, L)
      BY <1>2
    <2> HIDE DEF L
    <2> QED BY <2>1, ListLength
  <1>4. /\ ForkAt("main_c", n, 1) = 2 /\ ForkAt("main_c", n, n) = 5 * n - 4
        /\ \A i \in 2 .. n - 1 : ForkAt("main_c", n, i) = 5 * i - 3
    BY DEF ForkAt
  <1>5. /\ \A s, h : \A a \in 2 .. 3 : K(a, s, h) <=> \/ s = 0 /\ h = r(1)
                                                      \/ s = 1 /\ h = w(1)
                                                      \/ s = 2 /\ h = Unset
        /\ \A i \in 2 .. n - 1 : \A s, h : \A a \in 5 * i - 3 .. 5 * i - 2 :
             K(a, s, h) <=> (s = In(i) /\ h = r(i - 1)) \/ (s = Out(i) /\ h = r(i)) \/ (s = Out(i) + 1 /\ h = w(i))
        /\ \A s, h : \A a \in 5 * n - 4 .. 5 * n - 3 : K(a, s, h) <=> (s = Out(n - 1) /\ h = r(n - 1))
    BY ZenonT(60), KnownMain
  <1>6. "main_c" \in Launchers /\ OutFd("main_c") = 1 /\ Targets("main_c", n, 1)
    BY DEF Launchers, OutFd, Targets
  <1> HIDE DEF r, w
  <1>7. BodyRules("main_c", n, 1)
    <2> DEFINE B == Body("main_c", n, 1)
    <2>1. B = <<Dup2(1, 1), Close(0), Exec(1), Exit>>
      BY <1>2, <1>4 DEF Body, Fork, C
    <2>2. Len(B) = 4 /\ B[1] = Dup2(1, 1) /\ B[2] = Close(0) /\ B[3] = Exec(1) /\ B[4] = Exit
      BY <2>1
    <2>3. F(1, 1, w(1)) /\ F(1, 0, r(1)) /\ \A g : F(1, 1, g) => g = w(1)
      BY <1>4, <1>5 DEF Facts
    <2> QED BY <1>6, <2>2, <2>3, FirstBody DEF r, w
  <1>8. ASSUME NEW k \in 2 .. n - 1
        PROVE  BodyRules("main_c", n, k)
    <2> DEFINE B == Body("main_c", n, k)
    <2>1. B = Stage(k)
      <3>1. C[5 * k - 3] = Fork(k, Stage(k))
        BY <1>2
      <3>2. C[5 * k - 3].body = Stage(k)
        BY <3>1 DEF Fork
      <3>3. B = C[5 * k - 3].body
        BY <1>4 DEF Body, C
      <3> QED BY <3>2, <3>3
    <2>2. /\ Len(B) = 5 /\ B[1] = Dup2(Out(k) + 1, 1) /\ B[2] = Close(Out(k)) /\ B[3] = Dup2(In(k), 0)
          /\ B[4] = Exec(k) /\ B[5] = Exit
      BY <2>1 DEF Stage
    <2>3. In(k) # Out(k) /\ Out(k) \in {0, 2}
      BY Turns
    <2>4. \A s, h : F(k, s, h) <=> (s = In(k) /\ h = r(k - 1)) \/ (s = Out(k) /\ h = r(k)) \/ (s = Out(k) + 1 /\ h = w(k))
      <3>1. ForkAt("main_c", n, k) = 5 * k - 3 /\ 5 * k - 3 \in 5 * k - 3 .. 5 * k - 2
        BY <1>4
      <3>2. \A s, h : F(k, s, h) <=> K(5 * k - 3, s, h)
        BY <3>1 DEF Facts
      <3> HIDE DEF F
      <3> QED BY <3>1, <3>2, <1>5
    <2>5. /\ F(k, In(k), r(k - 1)) /\ F(k, Out(k) + 1, w(k)) /\ F(k, Out(k), r(k))
          /\ \A g : F(k, Out(k), g) => g = r(k)
      <3> HIDE DEF F
      <3> QED BY <2>3, <2>4
    <2>6. r(k) # r(k - 1)
      <3>1. k \in 0 .. n /\ k - 1 \in 0 .. n /\ k # k - 1 /\ k > 0 /\ k - 1 > 0
        OBVIOUS
      <3> QED BY <3>1, MadeApart, Ends DEF r
    <2> HIDE DEF B
    <2> QED BY <1>6, <2>2, <2>5, <2>6, MiddleBody DEF B, r, w
  <1>9. BodyRules("main_c", n, n)
    <2> DEFINE B == Body("main_c", n, n)
    <2>1. B = <<Dup2(Out(n - 1), 0), Exec(n), Exit>>
      BY <1>2, <1>4 DEF Body, Fork, C
    <2>2. Len(B) = 3 /\ B[1] = Dup2(Out(n - 1), 0) /\ B[2] = Exec(n) /\ B[3] = Exit
      BY <2>1
    <2>3. F(n, Out(n - 1), r(n - 1))
      BY <1>4, <1>5 DEF Facts
    <2> QED BY <1>6, <2>2, <2>3, LastBody DEF r
  <1>10. ASSUME NEW k \in 1 .. n
         PROVE  /\ ForkAt("main_c", n, k) \in 1 .. Len(C)
                /\ \E b : C[ForkAt("main_c", n, k)] = Fork(k, b)
                /\ BodyRules("main_c", n, k)
    <2>1. k = 1 \/ k \in 2 .. n - 1 \/ k = n
      OBVIOUS
    <2>2. ForkAt("main_c", n, k) \in 1 .. Len(C)
      BY <1>3, <1>4, <2>1
    <2>3. BodyRules("main_c", n, k)
      BY <2>1, <1>7, <1>8, <1>9
    <2>4. \E b : C[ForkAt("main_c", n, k)] = Fork(k, b)
      BY <2>1, <1>2, <1>4
    <2> QED BY <2>2, <2>3, <2>4
  <1> QED BY <1>10 DEF Forking, C

\* Whatever the launcher and the number of programs, it forks as it should.
LEMMA ForkingHolds ==
  ASSUME NEW l \in Launchers, NEW n \in Nat, Linked(l, n)
  PROVE  Forking(l, n) /\ Apart(l, n)
  <1>1. CASE l = "inf15_1" /\ n = 2
    BY <1>1, Forking151, AreApart
  <1>2. CASE l = "inf15_2" /\ n = 1
    BY <1>2, Forking152, AreApart
  <1>3. CASE l \in {"inf15_3", "inf15_4", "main_c"} /\ n > 1
    <2>1. n >= 2
      BY <1>3
    <2> QED BY <1>3, <2>1, Forking153, Forking154, ForkingMain, AreApart
  <1> QED BY <1>1, <1>2, <1>3 DEF Linked

\* The programs a launcher waits for before anybody reads what they write: the pipe
\* is made just before the program is forked, and the wait is what comes next.
IsEager(l, n, k) == l = "inf15_2" \/ (l \in {"inf15_4", "main_c"} /\ k < n)
Eager(l, n, k) ==
  LET F == ForkAt(l, n, k)
      C == Code(l, n)
  IN  /\ F - 1 \in 1 .. Len(C) /\ F + 1 \in 1 .. Len(C)
      /\ MadeAt(l, k) = F - 1 /\ C[F - 1].op = "pipe" /\ C[F + 1] = Wait(k)
      /\ \A j \in F .. Len(C) : C[j].op = "wait" => C[j].stage >= k
      /\ \E s : Knows(l, n, F + 1, s, R(l, k))

\* inf15-2.c waits so.
LEMMA Eager152 == Eager("inf15_2", 1, 1)
  <1> DEFINE C == Code("inf15_2", 1)
  <1>1. /\ Len(C) = 7 /\ C[1] = Pipe(0) /\ C[3] = Wait(1)
        /\ C[2].op # "wait" /\ C[4].op # "wait" /\ C[5].op # "wait" /\ C[6].op # "wait" /\ C[7].op # "wait"
    BY Text152 DEF Fork, Close, Dup2, ReadAll
  <1>2. ForkAt("inf15_2", 1, 1) = 2 /\ MadeAt("inf15_2", 1) = 1
    BY DEF ForkAt, MadeAt
  <1>3. Knows("inf15_2", 1, 3, 0, R("inf15_2", 1))
    BY DEF Knows, Knows152, Both
  <1> HIDE DEF C
  <1>4. C[1].op = "pipe" /\ C[3].stage = 1
    BY <1>1 DEF Pipe, Wait
  <1>5. \A j \in 2 .. 7 : C[j].op = "wait" => C[j].stage >= 1
    <2> SUFFICES ASSUME NEW j \in 2 .. 7, C[j].op = "wait" PROVE C[j].stage >= 1
      OBVIOUS
    <2>1. j = 2 \/ j = 3 \/ j = 4 \/ j = 5 \/ j = 6 \/ j = 7
      OBVIOUS
    <2>2. j = 3
      BY <1>1, <2>1
    <2> QED BY <1>4, <2>2
  <1> QED BY SMTT(40), <1>1, <1>2, <1>3, <1>4, <1>5 DEF Eager, C

\* inf15-4.c waits so, for all but the last program.
LEMMA Eager154 ==
  ASSUME NEW n \in Nat, n >= 2, NEW k \in 1 .. n - 1
  PROVE  Eager("inf15_4", n, k)
  <1> DEFINE C == Code("inf15_4", n)
             L == 6 * n - 5
             F == ForkAt("inf15_4", n, k)
  <1>1. Is154(C, n)
    BY Listed154
  <1> HIDE DEF C
  <1>2. /\ IsList(C, L) /\ C[1].op = "pipe" /\ C[2].op = "fork" /\ C[3] = Wait(1) /\ C[4].op = "close"
        /\ \A i \in 2 .. n - 1 :
             /\ C[6 * i - 7].op = "pipe" /\ C[6 * i - 6].op = "fork" /\ C[6 * i - 5] = Wait(i)
             /\ C[6 * i - 4].op = "close" /\ C[6 * i - 3].op = "close" /\ C[6 * i - 2].op = "assign"
        /\ C[6 * n - 7].op = "fork" /\ C[6 * n - 6] = Wait(n) /\ C[6 * n - 5].op = "close"
    <2>1. /\ IsList(C, L) /\ C[3] = Wait(1) /\ C[6 * n - 6] = Wait(n)
          /\ \A i \in 2 .. n - 1 : C[6 * i - 5] = Wait(i)
      BY <1>1 DEF Is154
    <2>2. C[1].op = "pipe" /\ C[2].op = "fork" /\ C[4].op = "close"
      BY <1>1 DEF Is154, Pipe, Fork, Close
    <2>3. C[6 * n - 7].op = "fork" /\ C[6 * n - 5].op = "close"
      BY <1>1 DEF Is154, Fork, Close
    <2>4. ASSUME NEW i \in 2 .. n - 1
          PROVE  /\ C[6 * i - 7].op = "pipe" /\ C[6 * i - 6].op = "fork"
                 /\ C[6 * i - 4].op = "close" /\ C[6 * i - 3].op = "close" /\ C[6 * i - 2].op = "assign"
      <3>1. /\ C[6 * i - 7] = Pipe(2)
            /\ C[6 * i - 6] = Fork(i, <<Dup2(0, 0), Dup2(3, 1), Close(3), Exec(i)>>)
            /\ C[6 * i - 4] = Close(0) /\ C[6 * i - 3] = Close(3) /\ C[6 * i - 2] = Assign(0, 2)
        BY <1>1 DEF Is154
      <3> QED BY <3>1 DEF Pipe, Fork, Close, Assign
    <2> QED BY <2>1, <2>2, <2>3, <2>4
  <1>3. Len(C) = L
    <2>1. L \in Nat /\ IsList(C, L)
      BY <1>2
    <2> HIDE DEF L
    <2> QED BY <2>1, ListLength
  <1>4. /\ k = 1 => F = 2 /\ MadeAt("inf15_4", k) = 1
        /\ k > 1 => F = 6 * k - 6 /\ MadeAt("inf15_4", k) = 6 * k - 7
    BY DEF ForkAt, MadeAt
  <1>5. F - 1 \in 1 .. L /\ F + 1 \in 1 .. L /\ MadeAt("inf15_4", k) = F - 1
    BY <1>4
  <1>6. C[F - 1].op = "pipe" /\ C[F + 1] = Wait(k)
    <2>1. CASE k = 1
      BY <2>1, <1>2, <1>4
    <2>2. CASE k > 1
      <3>1. k \in 2 .. n - 1 /\ F - 1 = 6 * k - 7 /\ F + 1 = 6 * k - 5
        BY <2>2, <1>4
      <3> QED BY <3>1, <1>2
    <2> QED BY <2>1, <2>2
  <1>7. ASSUME NEW j \in F .. L, C[j].op = "wait" PROVE C[j].stage >= k
    <2>1. j \in 1 .. L
      BY <1>4
    <2>2. CASE j \in 1 .. 4
      <3>1. j = 3
        BY <1>2, <1>7, <2>2
      <3>2. C[j].stage = 1
        BY <3>1, <1>2 DEF Wait
      <3>3. k = 1
        BY <3>1, <1>4
      <3> QED BY <3>2, <3>3
    <2>3. ASSUME NEW i \in 2 .. n - 1, NEW r \in 0 .. 5, j = 6 * i - 7 + r PROVE C[j].stage >= k
      <3>1. r = 0 \/ r = 1 \/ r = 2 \/ r = 3 \/ r = 4 \/ r = 5
        OBVIOUS
      <3>2. j = 6 * i - 7 \/ j = 6 * i - 6 \/ j = 6 * i - 5 \/ j = 6 * i - 4 \/ j = 6 * i - 3 \/ j = 6 * i - 2
        BY <2>3, <3>1
      <3>3. /\ C[6 * i - 7].op # "wait" /\ C[6 * i - 6].op # "wait"
            /\ C[6 * i - 4].op # "wait" /\ C[6 * i - 3].op # "wait" /\ C[6 * i - 2].op # "wait"
        BY <1>2
      <3>4. j = 6 * i - 5
        BY <3>2, <3>3, <1>7
      <3>5. C[j].stage = i
        <4>1. C[j] = Wait(i)
          BY <3>4, <1>2
        <4> QED BY <4>1 DEF Wait
      <3>6. i >= k
        BY <3>4, <1>4
      <3> QED BY <3>5, <3>6
    <2>4. ASSUME NEW r \in 0 .. 2, j = 6 * n - 7 + r PROVE C[j].stage >= k
      <3>1. j = 6 * n - 7 \/ j = 6 * n - 6 \/ j = 6 * n - 5
        BY <2>4
      <3>2. j = 6 * n - 6
        BY <3>1, <1>2, <1>7
      <3>3. C[j].stage = n
        BY <3>2, <1>2 DEF Wait
      <3> QED BY <3>3
    <2> QED BY <2>1, <2>2, <2>3, <2>4, Places154
  <1>8. \E s : Knows("inf15_4", n, F + 1, s, R("inf15_4", k))
    <2>1. CASE k = 1
      <3>1. Knows154(n, 3, 0, R("inf15_4", 1))
        BY DEF Knows154, Both
      <3> QED BY <3>1, <2>1, <1>4 DEF Knows
    <2>2. CASE k > 1
      <3>1. k \in 2 .. n - 1 /\ F + 1 \in 6 * k - 6 .. 6 * k - 3
        BY <2>2, <1>4
      <3>2. Both("inf15_4", k, 2, 2, R("inf15_4", k))
        BY DEF Both
      <3>3. Knows154(n, F + 1, 2, R("inf15_4", k))
        BY <3>1, <3>2 DEF Knows154
      <3> QED BY <3>3 DEF Knows
    <2> QED BY <2>1, <2>2
  <1> HIDE DEF F, L
  <1>9. /\ F - 1 \in 1 .. Len(C) /\ F + 1 \in 1 .. Len(C)
        /\ \A j \in F .. Len(C) : C[j].op = "wait" => C[j].stage >= k
    BY <1>3, <1>5, <1>7
  <1> QED BY <1>5, <1>6, <1>8, <1>9 DEF Eager, C, F

\* main.c waits so, for all but the last program.
LEMMA EagerMain ==
  ASSUME NEW n \in Nat, n >= 2, NEW k \in 1 .. n - 1
  PROVE  Eager("main_c", n, k)
  <1> DEFINE C == Code("main_c", n)
             L == 5 * n - 2
             F == ForkAt("main_c", n, k)
  <1>1. IsMain(C, n)
    BY ListedMain
  <1> HIDE DEF C
  <1>2. /\ IsList(C, L) /\ C[1].op = "pipe" /\ C[2].op = "fork" /\ C[3] = Wait(1)
        /\ \A i \in 2 .. n - 1 :
             /\ C[5 * i - 6].op = "close" /\ C[5 * i - 5].op = "close" /\ C[5 * i - 4].op = "pipe"
             /\ C[5 * i - 3].op = "fork" /\ C[5 * i - 2] = Wait(i)
        /\ C[5 * n - 6].op = "close" /\ C[5 * n - 5].op = "close" /\ C[5 * n - 4].op = "fork"
        /\ C[5 * n - 3].op = "close" /\ C[5 * n - 2] = Wait(n)
    <2>1. /\ IsList(C, L) /\ C[3] = Wait(1) /\ C[5 * n - 2] = Wait(n)
          /\ \A i \in 2 .. n - 1 : C[5 * i - 2] = Wait(i)
      BY <1>1 DEF IsMain
    <2>2. C[1].op = "pipe" /\ C[2].op = "fork"
      BY <1>1 DEF IsMain, Pipe, Fork
    <2>3. /\ C[5 * n - 6].op = "close" /\ C[5 * n - 5].op = "close" /\ C[5 * n - 4].op = "fork"
          /\ C[5 * n - 3].op = "close"
      BY <1>1 DEF IsMain, Fork, Close
    <2>4. ASSUME NEW i \in 2 .. n - 1
          PROVE  /\ C[5 * i - 6].op = "close" /\ C[5 * i - 5].op = "close"
                 /\ C[5 * i - 4].op = "pipe" /\ C[5 * i - 3].op = "fork"
      <3>1. /\ C[5 * i - 6] = Close(In(i) + 1) /\ C[5 * i - 5] = Close(Out(i))
            /\ C[5 * i - 4] = Pipe(Out(i)) /\ C[5 * i - 3] = Fork(i, Stage(i))
        BY <1>1 DEF IsMain
      <3> QED BY <3>1 DEF Pipe, Fork, Close
    <2> QED BY <2>1, <2>2, <2>3, <2>4
  <1>3. Len(C) = L
    <2>1. L \in Nat /\ IsList(C, L)
      BY <1>2
    <2> HIDE DEF L
    <2> QED BY <2>1, ListLength
  <1>4. /\ k = 1 => F = 2 /\ MadeAt("main_c", k) = 1
        /\ k > 1 => F = 5 * k - 3 /\ MadeAt("main_c", k) = 5 * k - 4
    BY DEF ForkAt, MadeAt
  <1>5. F - 1 \in 1 .. L /\ F + 1 \in 1 .. L /\ MadeAt("main_c", k) = F - 1
    BY <1>4
  <1>6. C[F - 1].op = "pipe" /\ C[F + 1] = Wait(k)
    <2>1. CASE k = 1
      BY <2>1, <1>2, <1>4
    <2>2. CASE k > 1
      <3>1. k \in 2 .. n - 1 /\ F - 1 = 5 * k - 4 /\ F + 1 = 5 * k - 2
        BY <2>2, <1>4
      <3> QED BY <3>1, <1>2
    <2> QED BY <2>1, <2>2
  <1>7. ASSUME NEW j \in F .. L, C[j].op = "wait" PROVE C[j].stage >= k
    <2>1. j \in 1 .. L
      BY <1>4
    <2>2. CASE j \in 1 .. 3
      <3>1. j = 3
        BY <1>2, <1>7, <2>2
      <3>2. C[j].stage = 1
        BY <3>1, <1>2 DEF Wait
      <3>3. k = 1
        BY <3>1, <1>4
      <3> QED BY <3>2, <3>3
    <2>3. ASSUME NEW i \in 2 .. n - 1, NEW r \in 0 .. 4, j = 5 * i - 6 + r PROVE C[j].stage >= k
      <3>1. r = 0 \/ r = 1 \/ r = 2 \/ r = 3 \/ r = 4
        OBVIOUS
      <3>2. j = 5 * i - 6 \/ j = 5 * i - 5 \/ j = 5 * i - 4 \/ j = 5 * i - 3 \/ j = 5 * i - 2
        BY <2>3, <3>1
      <3>3. /\ C[5 * i - 6].op # "wait" /\ C[5 * i - 5].op # "wait"
            /\ C[5 * i - 4].op # "wait" /\ C[5 * i - 3].op # "wait"
        BY <1>2
      <3>4. j = 5 * i - 2
        BY <3>2, <3>3, <1>7
      <3>5. C[j].stage = i
        <4>1. C[j] = Wait(i)
          BY <3>4, <1>2
        <4> QED BY <4>1 DEF Wait
      <3>6. i >= k
        BY <3>4, <1>4
      <3> QED BY <3>5, <3>6
    <2>4. ASSUME NEW r \in 0 .. 4, j = 5 * n - 6 + r PROVE C[j].stage >= k
      <3>1. j = 5 * n - 6 \/ j = 5 * n - 5 \/ j = 5 * n - 4 \/ j = 5 * n - 3 \/ j = 5 * n - 2
        BY <2>4
      <3>2. j = 5 * n - 2
        BY <3>1, <1>2, <1>7
      <3>3. C[j].stage = n
        BY <3>2, <1>2 DEF Wait
      <3> QED BY <3>3
    <2> QED BY <2>1, <2>2, <2>3, <2>4, PlacesMain
  <1>8. \E s : Knows("main_c", n, F + 1, s, R("main_c", k))
    <2>1. CASE k = 1
      <3>1. KnowsMain(n, 3, 0, R("main_c", 1))
        BY DEF KnowsMain, Both
      <3> QED BY <3>1, <2>1, <1>4 DEF Knows
    <2>2. CASE k > 1
      <3>1. k \in 2 .. n - 1 /\ F + 1 \in 5 * k - 3 .. 5 * k - 2
        BY <2>2, <1>4
      <3>2. Both("main_c", k, Out(k), Out(k), R("main_c", k))
        BY DEF Both
      <3>3. KnowsMain(n, F + 1, Out(k), R("main_c", k))
        BY <3>1, <3>2 DEF KnowsMain
      <3> QED BY <3>3 DEF Knows
    <2> QED BY <2>1, <2>2
  <1> HIDE DEF F, L
  <1>9. /\ F - 1 \in 1 .. Len(C) /\ F + 1 \in 1 .. Len(C)
        /\ \A j \in F .. Len(C) : C[j].op = "wait" => C[j].stage >= k
    BY <1>3, <1>5, <1>7
  <1> QED BY <1>5, <1>6, <1>8, <1>9 DEF Eager, C, F

\* Whoever is said to wait so does.
LEMMA EagerHolds ==
  ASSUME NEW l \in Launchers, NEW n \in Nat, Linked(l, n), NEW k \in 1 .. n, IsEager(l, n, k)
  PROVE  Eager(l, n, k)
  <1>1. CASE l = "inf15_2"
    <2>1. n = 1 /\ k = 1
      BY <1>1 DEF Linked
    <2> QED BY <1>1, <2>1, Eager152
  <1>2. CASE l = "inf15_4"
    BY <1>2, Eager154 DEF Linked, IsEager
  <1>3. CASE l = "main_c"
    BY <1>3, EagerMain DEF Linked, IsEager
  <1> QED BY <1>1, <1>2, <1>3 DEF IsEager

\* Only inf15-2.c reads by itself to the end, at its last place, from its standard
\* input, which is the pipe then.
LEMMA ReadAll152 ==
  LET C == Code("inf15_2", 1)
  IN  /\ Len(C) = 7 /\ C[5] = Dup2(0, 0) /\ C[6] = Close(0) /\ C[7] = ReadAll
      /\ \A a \in 1 .. 6 : C[a].op # "readAll"
      /\ C[1].op = "pipe" /\ C[2].op = "fork" /\ C[3].op = "wait" /\ C[4].op = "close"
      /\ Knows("inf15_2", 1, 5, 0, R("inf15_2", 1)) /\ Knows("inf15_2", 1, 6, 0, R("inf15_2", 1))
  <1> DEFINE C == Code("inf15_2", 1)
  <1>1. /\ Len(C) = 7 /\ C[5] = Dup2(0, 0) /\ C[6] = Close(0) /\ C[7] = ReadAll
        /\ C[1].op = "pipe" /\ C[2].op = "fork" /\ C[3].op = "wait" /\ C[4].op = "close"
    BY Text152 DEF Pipe, Fork, Wait, Close
  <1>2. Knows("inf15_2", 1, 5, 0, R("inf15_2", 1)) /\ Knows("inf15_2", 1, 6, 0, R("inf15_2", 1))
    BY DEF Knows, Knows152, Reader
  <1> HIDE DEF C
  <1>3. \A a \in 1 .. 6 : C[a].op # "readAll"
    <2> SUFFICES ASSUME NEW a \in 1 .. 6 PROVE C[a].op # "readAll"
      OBVIOUS
    <2>1. a = 1 \/ a = 2 \/ a = 3 \/ a = 4 \/ a = 5 \/ a = 6
      OBVIOUS
    <2>2. C[5].op = "dup2" /\ C[6].op = "close"
      BY <1>1 DEF Dup2, Close
    <2> QED BY <1>1, <2>1, <2>2
  <1> QED BY <1>1, <1>2, <1>3 DEF C

-----------------------------------------------------------------------------
\* Every set of natural numbers that is not empty has a least element.
LEMMA LeastElement ==
  ASSUME NEW K \in SUBSET Nat, K # {}
  PROVE  \E x \in K : \A y \in K : x <= y
  <1> DEFINE U == {0 .. x : x \in K}
  <1>1. U \subseteq FiniteSubsetsOf(Nat) /\ U # {}
    <2>1. ASSUME NEW x \in Nat PROVE IsFiniteSet(0 .. x) /\ 0 .. x \subseteq Nat
      BY FS_Interval
    <2>2. QED BY <2>1 DEF FiniteSubsetsOf
  <1>2. PICK u \in U : \A v \in U : ~ (<<v, u>> \in StrictSubsetOrdering(Nat))
    BY <1>1, FS_StrictSubsetOrderingWellFounded, WFMin
  <1>3. PICK x \in K : u = 0 .. x
    OBVIOUS
  <1>4. ASSUME NEW y \in K, y < x PROVE FALSE
    <2>1. 0 .. y \in U /\ 0 .. y \subseteq 0 .. x /\ x \in 0 .. x /\ x \notin 0 .. y
      BY <1>4
    <2>2. 0 .. y \in SUBSET Nat /\ 0 .. x \in SUBSET Nat
      OBVIOUS
    <2>3. <<0 .. y, 0 .. x>> \in StrictSubsetOrdering(Nat)
      BY <2>1, <2>2 DEF StrictSubsetOrdering
    <2>4. QED BY <1>2, <1>3, <2>1, <2>3
  <1>5. QED BY <1>4

\* Induction: K holds the numbers a claim is true of.
LEMMA Induction ==
  ASSUME NEW K, 0 \in K, \A n \in Nat : n \in K => n + 1 \in K
  PROVE  \A n \in Nat : n \in K
  <1> DEFINE U == {n \in Nat : n \notin K}
  <1> SUFFICES ASSUME U # {} PROVE FALSE
    OBVIOUS
  <1>1. PICK x \in U : \A y \in U : x <= y
    BY LeastElement
  <1>2. x \in Nat /\ x # 0 /\ x \notin K
    OBVIOUS
  <1>3. x - 1 \in Nat /\ x - 1 \notin U /\ (x - 1) + 1 = x
    BY <1>1, <1>2
  <1>4. x - 1 \in K
    BY <1>3
  <1> QED BY <1>2, <1>3, <1>4

(***************************************************************************)
(* The types, and what a step of a process changes.                        *)
(***************************************************************************)
Handles == [pipe : Nat \X Nat, end : {"terminal", "closed", "read", "write"}]
SlotMaps == [Slots -> Fds \cup {-1}]
FdMaps == [Fds -> Handles]
Procs ==
  [parent : Nat, stage : 0 .. Stages + 1, state : {"launcher", "program", "ended"},
   at : Nat, inside : Nat, slots : SlotMaps, fds : FdMaps,
   took : Nat, wrote : Nat, eof : BOOLEAN]

Chosen == launcher \in Launchers /\ line \in Lines /\ Accepts(launcher, Stages)
Typed ==
  /\ Chosen
  /\ procs \in Seq(Procs) /\ Len(procs) > 0
  /\ \A k \in DOMAIN pipes : pipes[k] \in 0 .. Capacity
  /\ procs[1].parent = 0
  /\ \A p \in DOMAIN procs : p # 1 => procs[p].parent \in 1 .. p - 1
  /\ \A p \in DOMAIN procs : \A d \in Fds : procs[p].fds[d].pipe \in DOMAIN pipes \cup {<<0, 0>>}

\* The text of the chosen launcher keeps the rules.
LEMMA Context ==
  ASSUME Chosen
  PROVE  /\ Stages \in Nat /\ Stages > 0 /\ Text = Code(launcher, Stages)
         /\ Len(Text) \in Nat /\ IsList(Text, Len(Text))
         /\ \A a \in 1 .. Len(Text) :
              /\ Fits(Stages, Text[a]) /\ Slotted(launcher, Stages, a, Text[a])
              /\ Ordered(launcher, Stages, a, Text[a])
         /\ \A k \in 1 .. Stages : line[k].known \in BOOLEAN /\ line[k].reads \in BOOLEAN /\ line[k].writes \in Nat
         /\ Capacity \in Nat /\ Capacity > 0
  <1> DEFINE S == [known : BOOLEAN, reads : BOOLEAN, writes : Nat]
  <1>1. line \in Seq(S)
    BY LinesAssumption DEF Chosen
  <1>2. Stages \in Nat /\ \A k \in 1 .. Stages : line[k] \in S
    <2> HIDE DEF S
    <2> QED BY <1>1 DEF Stages
  <1>3. Stages > 0
    BY <1>2 DEF Chosen, Accepts, Launchers
  <1>4. Text = Code(launcher, Stages)
    <2>1. Stages \in {Len(given) : given \in Lines}
      BY DEF Chosen, Stages
    <2> QED BY <2>1 DEF Text, Texts, Chosen
  <1>5. Rules(launcher, Stages)
    BY <1>2, RulesHold DEF Chosen
  <1>6. /\ Len(Text) \in Nat /\ IsList(Text, Len(Text))
        /\ \A a \in 1 .. Len(Text) :
             /\ Fits(Stages, Text[a]) /\ Slotted(launcher, Stages, a, Text[a])
             /\ Ordered(launcher, Stages, a, Text[a])
    BY <1>4, <1>5 DEF Rules
  <1>7. Capacity \in Nat /\ Capacity > 0
    BY CapacityAssumption
  <1>8. ASSUME NEW k \in 1 .. Stages
        PROVE  line[k].known \in BOOLEAN /\ line[k].reads \in BOOLEAN /\ line[k].writes \in Nat
    BY <1>2
  <1> QED BY <1>2, <1>3, <1>4, <1>6, <1>7, <1>8

\* What the wiring needs of the text, when there is something to connect.
IsLinked == Linked(launcher, Stages)

\* The text of a launcher that connects programs knows its pipes and forks as it should.
LEMMA LinkedContext ==
  ASSUME Chosen, IsLinked
  PROVE  /\ \A a \in 1 .. Len(Text) :
              Learns(launcher, Stages, a, Text[a]) /\ Orders(launcher, Stages, a, Text[a])
         /\ Forking(launcher, Stages) /\ Apart(launcher, Stages)
  <1>1. Stages \in Nat /\ launcher \in Launchers /\ Linked(launcher, Stages)
    BY Context DEF Chosen, IsLinked
  <1>2. Wires(launcher, Stages) /\ Forking(launcher, Stages) /\ Apart(launcher, Stages)
    BY <1>1, WiresHold, ForkingHolds
  <1> QED BY <1>2, Context DEF Wires

\* Nothing about the text changes.
LEMMA TextStays ==
  ASSUME Same
  PROVE  /\ launcher' = launcher /\ line' = line /\ Stages' = Stages /\ Text' = Text
         /\ Fds' = Fds /\ Slots' = Slots /\ Procs' = Procs /\ SlotMaps' = SlotMaps /\ FdMaps' = FdMaps /\ Chosen' = Chosen /\ IsLinked' = IsLinked
         /\ AllKnown' = AllKnown
  <1>1. launcher' = launcher /\ line' = line
    BY DEF Same
  <1>2. Stages' = Stages
    BY <1>1 DEF Stages
  <1>3. Text' = Text /\ Fds' = Fds /\ Slots' = Slots
    BY <1>1, <1>2 DEF Text, Fds, Slots
  <1>6. SlotMaps' = SlotMaps /\ FdMaps' = FdMaps
    BY <1>3 DEF SlotMaps, FdMaps
  <1>4. Procs' = Procs
    BY <1>2, <1>6 DEF Procs
  <1>5. Chosen' = Chosen /\ IsLinked' = IsLinked /\ AllKnown' = AllKnown
    BY <1>1, <1>2 DEF Chosen, IsLinked, AllKnown
  <1> QED BY <1>1, <1>2, <1>3, <1>4, <1>5, <1>6

-----------------------------------------------------------------------------
\* What a step of p leaves alone, and what it leaves p.
Others(p) ==
  /\ Len(procs') = Len(procs) /\ DOMAIN procs' = DOMAIN procs
  /\ \A q \in DOMAIN procs : q # p => procs'[q] = procs[q]
\* One process more.
Grown(p) ==
  /\ Len(procs') = Len(procs) + 1 /\ DOMAIN procs' = DOMAIN procs \cup {Len(procs) + 1}
  /\ Len(procs) + 1 \notin DOMAIN procs
  /\ \A q \in DOMAIN procs : q # p => procs'[q] = procs[q]
SameKin(p) == procs'[p].parent = procs[p].parent /\ procs'[p].stage = procs[p].stage
SameData(p) ==
  procs'[p].took = procs[p].took /\ procs'[p].wrote = procs[p].wrote /\ procs'[p].eof = procs[p].eof
SameFiles(p) == procs'[p].fds = procs[p].fds /\ procs'[p].slots = procs[p].slots
SameState(p) == procs'[p].state = procs[p].state
SamePlace(p) == procs'[p].at = procs[p].at /\ procs'[p].inside = procs[p].inside
\* To the next instruction, in the body of a fork or behind it.
InBodyYet(p) == procs[p].inside # 0 /\ procs[p].inside < Len(Text[procs[p].at].body)
Onward(p) ==
  IF InBodyYet(p)
  THEN procs'[p].at = procs[p].at /\ procs'[p].inside = procs[p].inside + 1
  ELSE procs'[p].at = procs[p].at + 1 /\ procs'[p].inside = 0
SamePipes == pipes' = pipes

\* The types of the fields of a process.
LEMMA TypedProc ==
  ASSUME Typed, NEW p \in DOMAIN procs
  PROVE  /\ procs[p] \in Procs /\ p \in 1 .. Len(procs) /\ Len(procs) \in Nat /\ DOMAIN procs = 1 .. Len(procs)
         /\ procs[p].at \in Nat /\ procs[p].inside \in Nat /\ procs[p].stage \in 0 .. Stages + 1
         /\ procs[p].state \in {"launcher", "program", "ended"} /\ procs[p].parent \in Nat
         /\ procs[p].slots \in SlotMaps /\ procs[p].fds \in FdMaps
         /\ procs[p].took \in Nat /\ procs[p].wrote \in Nat /\ procs[p].eof \in BOOLEAN
  <1>1. procs[p] \in Procs /\ p \in 1 .. Len(procs) /\ Len(procs) \in Nat /\ DOMAIN procs = 1 .. Len(procs)
    BY DEF Typed
  <1> QED BY <1>1 DEF Procs

\* A process with another value of one of its fields.
LEMMA PutParent ==
  ASSUME NEW r \in Procs, NEW x \in Nat
  PROVE  LET u == [r EXCEPT !.parent = x]
         IN  /\ u \in Procs /\ u.parent = x
             /\ u.stage = r.stage /\ u.state = r.state /\ u.at = r.at /\ u.inside = r.inside /\ u.slots = r.slots
             /\ u.fds = r.fds /\ u.took = r.took /\ u.wrote = r.wrote /\ u.eof = r.eof
  BY DEF Procs

LEMMA PutStage ==
  ASSUME NEW r \in Procs, NEW x \in 0 .. Stages + 1
  PROVE  LET u == [r EXCEPT !.stage = x]
         IN  /\ u \in Procs /\ u.stage = x
             /\ u.parent = r.parent /\ u.state = r.state /\ u.at = r.at /\ u.inside = r.inside /\ u.slots = r.slots
             /\ u.fds = r.fds /\ u.took = r.took /\ u.wrote = r.wrote /\ u.eof = r.eof
  BY DEF Procs

LEMMA PutState ==
  ASSUME NEW r \in Procs, NEW x \in {"launcher", "program", "ended"}
  PROVE  LET u == [r EXCEPT !.state = x]
         IN  /\ u \in Procs /\ u.state = x
             /\ u.parent = r.parent /\ u.stage = r.stage /\ u.at = r.at /\ u.inside = r.inside /\ u.slots = r.slots
             /\ u.fds = r.fds /\ u.took = r.took /\ u.wrote = r.wrote /\ u.eof = r.eof
  BY DEF Procs

LEMMA PutAt ==
  ASSUME NEW r \in Procs, NEW x \in Nat
  PROVE  LET u == [r EXCEPT !.at = x]
         IN  /\ u \in Procs /\ u.at = x
             /\ u.parent = r.parent /\ u.stage = r.stage /\ u.state = r.state /\ u.inside = r.inside /\ u.slots = r.slots
             /\ u.fds = r.fds /\ u.took = r.took /\ u.wrote = r.wrote /\ u.eof = r.eof
  BY DEF Procs

LEMMA PutInside ==
  ASSUME NEW r \in Procs, NEW x \in Nat
  PROVE  LET u == [r EXCEPT !.inside = x]
         IN  /\ u \in Procs /\ u.inside = x
             /\ u.parent = r.parent /\ u.stage = r.stage /\ u.state = r.state /\ u.at = r.at /\ u.slots = r.slots
             /\ u.fds = r.fds /\ u.took = r.took /\ u.wrote = r.wrote /\ u.eof = r.eof
  BY DEF Procs

LEMMA PutSlots ==
  ASSUME NEW r \in Procs, NEW x \in SlotMaps
  PROVE  LET u == [r EXCEPT !.slots = x]
         IN  /\ u \in Procs /\ u.slots = x
             /\ u.parent = r.parent /\ u.stage = r.stage /\ u.state = r.state /\ u.at = r.at /\ u.inside = r.inside
             /\ u.fds = r.fds /\ u.took = r.took /\ u.wrote = r.wrote /\ u.eof = r.eof
  BY DEF Procs

LEMMA PutFds ==
  ASSUME NEW r \in Procs, NEW x \in FdMaps
  PROVE  LET u == [r EXCEPT !.fds = x]
         IN  /\ u \in Procs /\ u.fds = x
             /\ u.parent = r.parent /\ u.stage = r.stage /\ u.state = r.state /\ u.at = r.at /\ u.inside = r.inside
             /\ u.slots = r.slots /\ u.took = r.took /\ u.wrote = r.wrote /\ u.eof = r.eof
  BY DEF Procs

LEMMA PutTook ==
  ASSUME NEW r \in Procs, NEW x \in Nat
  PROVE  LET u == [r EXCEPT !.took = x]
         IN  /\ u \in Procs /\ u.took = x
             /\ u.parent = r.parent /\ u.stage = r.stage /\ u.state = r.state /\ u.at = r.at /\ u.inside = r.inside
             /\ u.slots = r.slots /\ u.fds = r.fds /\ u.wrote = r.wrote /\ u.eof = r.eof
  BY DEF Procs

LEMMA PutWrote ==
  ASSUME NEW r \in Procs, NEW x \in Nat
  PROVE  LET u == [r EXCEPT !.wrote = x]
         IN  /\ u \in Procs /\ u.wrote = x
             /\ u.parent = r.parent /\ u.stage = r.stage /\ u.state = r.state /\ u.at = r.at /\ u.inside = r.inside
             /\ u.slots = r.slots /\ u.fds = r.fds /\ u.took = r.took /\ u.eof = r.eof
  BY DEF Procs

LEMMA PutEof ==
  ASSUME NEW r \in Procs, NEW x \in BOOLEAN
  PROVE  LET u == [r EXCEPT !.eof = x]
         IN  /\ u \in Procs /\ u.eof = x
             /\ u.parent = r.parent /\ u.stage = r.stage /\ u.state = r.state /\ u.at = r.at /\ u.inside = r.inside
             /\ u.slots = r.slots /\ u.fds = r.fds /\ u.took = r.took /\ u.wrote = r.wrote
  BY DEF Procs

\* A process at its next instruction is the same otherwise.
LEMMA SteppedProc ==
  ASSUME Typed, NEW p \in DOMAIN procs
  PROVE  /\ Stepped(p) \in Procs
         /\ Stepped(p).parent = procs[p].parent /\ Stepped(p).stage = procs[p].stage
         /\ Stepped(p).state = procs[p].state
         /\ Stepped(p).fds = procs[p].fds /\ Stepped(p).slots = procs[p].slots
         /\ Stepped(p).took = procs[p].took /\ Stepped(p).wrote = procs[p].wrote
         /\ Stepped(p).eof = procs[p].eof
         /\ IF InBodyYet(p)
            THEN Stepped(p).at = procs[p].at /\ Stepped(p).inside = procs[p].inside + 1
            ELSE Stepped(p).at = procs[p].at + 1 /\ Stepped(p).inside = 0
  <1>1. procs[p] \in Procs
    BY TypedProc
  <1>2. CASE InBodyYet(p)
    <2>1. Stepped(p) = [procs[p] EXCEPT !.inside = @ + 1]
      BY <1>2 DEF Stepped, InBodyYet
    <2>2. Stepped(p) \in Procs
      BY <1>1, <2>1 DEF Procs
    <2> QED BY <1>1, <1>2, <2>1, <2>2 DEF Procs
  <1>3. CASE ~InBodyYet(p)
    <2>1. Stepped(p) = [procs[p] EXCEPT !.at = @ + 1, !.inside = 0]
      BY <1>3 DEF Stepped, InBodyYet
    <2>2. procs[p].at + 1 \in Nat /\ 0 \in Nat
      BY <1>1, TypedProc
    <2> DEFINE u == [procs[p] EXCEPT !.at = procs[p].at + 1]
    <2>3. u \in Procs /\ Stepped(p) = [u EXCEPT !.inside = 0]
      BY <1>1, <2>1, <2>2, PutAt
    <2>4. /\ u.parent = procs[p].parent /\ u.stage = procs[p].stage /\ u.state = procs[p].state
          /\ u.slots = procs[p].slots /\ u.fds = procs[p].fds /\ u.at = procs[p].at + 1
          /\ u.took = procs[p].took /\ u.wrote = procs[p].wrote /\ u.eof = procs[p].eof
      BY <1>1, <2>2, PutAt
    <2> HIDE DEF u
    <2> QED BY <1>3, <2>2, <2>3, <2>4, PutInside
  <1> QED BY <1>2, <1>3

\* Only one process becomes something else.
LEMMA BecomesOne ==
  ASSUME Typed, NEW p \in DOMAIN procs, NEW proc, Becomes(p, proc)
  PROVE  Others(p) /\ procs'[p] = proc
  <1>1. procs \in Seq(Procs)
    BY DEF Typed
  <1>2. procs' = [procs EXCEPT ![p] = proc]
    BY DEF Becomes
  <1>3. DOMAIN procs' = DOMAIN procs /\ procs'[p] = proc /\ \A q \in DOMAIN procs : q # p => procs'[q] = procs[q]
    BY <1>1, <1>2
  <1>4. Len(procs') = Len(procs)
    BY <1>1, <1>2
  <1> QED BY <1>3, <1>4 DEF Others

\* A process is at an instruction of the text, or in the body of a fork there.
Placed ==
  \A p \in DOMAIN procs :
    /\ procs[p].at \in 1 .. Len(Text) + 1
    /\ procs[p].inside # 0 =>
         /\ procs[p].at \in 1 .. Len(Text) /\ Text[procs[p].at].op = "fork"
         /\ procs[p].inside \in 1 .. Len(Text[procs[p].at].body)
         /\ procs[p].stage = Text[procs[p].at].stage

\* What is known of a process at an instruction.
LEMMA Running ==
  ASSUME Typed, Placed, NEW p \in DOMAIN procs, NEW op, Runs(p, op)
  PROVE  /\ procs[p].state = "launcher" /\ procs[p].at \in 1 .. Len(Text)
         /\ Instr(p).op = op /\ Fits(Stages, Instr(p))
         /\ procs[p].inside = 0 =>
              /\ Instr(p) = Text[procs[p].at]
              /\ Slotted(launcher, Stages, procs[p].at, Instr(p))
              /\ Ordered(launcher, Stages, procs[p].at, Instr(p))
         /\ procs[p].inside # 0 =>
              /\ Instr(p) = Text[procs[p].at].body[procs[p].inside]
              /\ procs[p].inside \in 1 .. Len(Text[procs[p].at].body)
              /\ Text[procs[p].at].op = "fork" /\ procs[p].stage = Text[procs[p].at].stage
              /\ op \in {"dup2", "close", "exec", "exit", "read"}
              /\ op = "exec" => Instr(p).stage = procs[p].stage
  <1>1. procs[p].state = "launcher" /\ procs[p].at <= Len(Text) /\ Instr(p).op = op
    BY DEF Runs
  <1>2. procs[p].at \in 1 .. Len(Text) + 1 /\ Len(Text) \in Nat
    BY Context DEF Placed, Typed
  <1>3. procs[p].at \in 1 .. Len(Text)
    BY <1>1, <1>2
  <1>4. /\ Fits(Stages, Text[procs[p].at])
        /\ Slotted(launcher, Stages, procs[p].at, Text[procs[p].at])
        /\ Ordered(launcher, Stages, procs[p].at, Text[procs[p].at])
    BY <1>3, Context DEF Typed
  <1>5. CASE procs[p].inside = 0
    <2>1. Instr(p) = Text[procs[p].at]
      BY <1>5 DEF Instr
    <2> QED BY <1>1, <1>3, <1>4, <1>5, <2>1
  <1>6. CASE procs[p].inside # 0
    <2>1. Instr(p) = Text[procs[p].at].body[procs[p].inside]
      BY <1>6 DEF Instr
    <2>2. /\ procs[p].inside \in 1 .. Len(Text[procs[p].at].body)
          /\ Text[procs[p].at].op = "fork" /\ procs[p].stage = Text[procs[p].at].stage
      BY <1>6 DEF Placed
    <2>3. InBody(Stages, Text[procs[p].at].stage, Text[procs[p].at].body)
      BY <1>4, <2>2 DEF Ordered
    <2>4. /\ Fits(Stages, Instr(p))
          /\ Instr(p).op \in {"dup2", "close", "exec", "exit", "read"}
          /\ Instr(p).op = "exec" => Instr(p).stage = procs[p].stage
      BY <2>1, <2>2, <2>3 DEF InBody
    <2> QED BY <1>1, <1>3, <1>6, <2>1, <2>2, <2>4
  <1> QED BY <1>5, <1>6

-----------------------------------------------------------------------------
\* What the instructions do.
LEMMA DoesPipe ==
  ASSUME Typed, Placed, NEW p \in DOMAIN procs, MakePipe(p),
         NEW x \in Fds, NEW y \in Fds, x # y, procs[p].fds[x] = Nothing, procs[p].fds[y] = Nothing
  PROVE  LET k == <<p, procs[p].at>>
             s == Instr(p).slot
         IN  /\ Others(p) /\ SameKin(p) /\ SameState(p) /\ Onward(p) /\ SameData(p)
             /\ procs'[p] \in Procs
             /\ DOMAIN pipes' = DOMAIN pipes \cup {k} /\ pipes'[k] = 0
             /\ \A j \in DOMAIN pipes : j # k => pipes'[j] = pipes[j]
             /\ \E r, w \in Fds :
                  /\ r # w /\ procs[p].fds[r] = Nothing /\ procs[p].fds[w] = Nothing
                  /\ \A d \in Fds : procs'[p].fds[d] = IF d = r THEN ReadEnd(k)
                                                       ELSE IF d = w THEN WriteEnd(k)
                                                       ELSE procs[p].fds[d]
                  /\ \A t \in Slots : procs'[p].slots[t] = IF t = s THEN r
                                                           ELSE IF t = s + 1 THEN w
                                                           ELSE procs[p].slots[t]
  <1> DEFINE k == <<p, procs[p].at>>
             s == Instr(p).slot
             free == {d \in Fds : procs[p].fds[d] = Nothing}
             r == Min(free)
             w == Min(free \ {r})
             u == Stepped(p)
             nf == [u.fds EXCEPT ![r] = ReadEnd(k), ![w] = WriteEnd(k)]
             ns == [u.slots EXCEPT ![s] = r, ![s + 1] = w]
  <1>1. /\ pipes' = [z \in DOMAIN pipes \cup {k} |-> IF z = k THEN 0 ELSE pipes[z]]
        /\ Becomes(p, [Stepped(p) EXCEPT
                !.fds[r] = ReadEnd(k), !.fds[w] = WriteEnd(k),
                !.slots[Instr(p).slot] = r, !.slots[Instr(p).slot + 1] = w])
    BY DEF MakePipe
  <1>2. /\ u \in Procs /\ u.fds = procs[p].fds /\ u.slots = procs[p].slots
        /\ u.parent = procs[p].parent /\ u.stage = procs[p].stage /\ u.state = procs[p].state
        /\ u.took = procs[p].took /\ u.wrote = procs[p].wrote /\ u.eof = procs[p].eof
        /\ IF InBodyYet(p) THEN u.at = procs[p].at /\ u.inside = procs[p].inside + 1
           ELSE u.at = procs[p].at + 1 /\ u.inside = 0
    BY SteppedProc
  <1>3. r \in free /\ w \in free \ {r}
    <2>1. free \in SUBSET Nat /\ x \in free /\ y \in free
      BY SMTT(40), Context DEF Fds, Typed
    <2>2. \A S \in SUBSET Nat : S # {} => Min(S) \in S
      BY LeastElement DEF Min
    <2>3. r \in free
      BY <2>1, <2>2
    <2>4. free \ {r} \in SUBSET Nat /\ free \ {r} # {}
      BY SMTT(40), <2>1
    <2>5. w \in free \ {r}
      BY <2>2, <2>4
    <2> QED BY <2>3, <2>5
  <1>4. r \in Fds /\ w \in Fds /\ r # w /\ procs[p].fds[r] = Nothing /\ procs[p].fds[w] = Nothing
    BY <1>3
  <1>5. s \in Slots /\ s + 1 \in Slots /\ s \in Nat /\ Stages \in Nat
    <2>1. Fits(Stages, Instr(p)) /\ Instr(p).op = "pipe" /\ Stages \in Nat
      BY Running, Context DEF MakePipe, Typed
    <2>2. Instr(p).slot \in 0 .. 2 * Stages + 1
      BY <2>1 DEF Fits
    <2> QED BY <2>1, <2>2 DEF Slots
  <1>6. procs[p].fds \in FdMaps /\ procs[p].slots \in SlotMaps /\ p \in Nat /\ procs[p].at \in Nat
    BY TypedProc
  <1> HIDE DEF free, r, w, u, s
  <1>7. k \in Nat \X Nat
    BY <1>6
  <1>8. ReadEnd(k) \in Handles /\ WriteEnd(k) \in Handles
    BY <1>7 DEF Handles, ReadEnd, WriteEnd
  <1> HIDE DEF k
  <1>9. /\ nf \in FdMaps
        /\ \A d \in Fds : nf[d] = IF d = r THEN ReadEnd(k) ELSE IF d = w THEN WriteEnd(k) ELSE procs[p].fds[d]
    BY <1>2, <1>4, <1>6, <1>8 DEF FdMaps
  <1>10. /\ ns \in SlotMaps
         /\ \A t \in Slots : ns[t] = IF t = s THEN r ELSE IF t = s + 1 THEN w ELSE procs[p].slots[t]
    BY <1>2, <1>4, <1>5, <1>6 DEF SlotMaps
  <1> DEFINE v == [u EXCEPT !.fds = nf]
  <1>11. Becomes(p, [v EXCEPT !.slots = ns])
    <2>1. [Stepped(p) EXCEPT
                !.fds[r] = ReadEnd(k), !.fds[w] = WriteEnd(k),
                !.slots[Instr(p).slot] = r, !.slots[Instr(p).slot + 1] = w]
          = [[u EXCEPT !.fds = nf] EXCEPT !.slots = ns]
      BY <1>2, <1>4, <1>5, <1>6 DEF u, s, Procs, FdMaps, SlotMaps
    <2> QED BY <1>1, <2>1
  <1>12. Others(p) /\ procs'[p] = [v EXCEPT !.slots = ns]
    BY <1>11, BecomesOne
  <1>13. /\ v \in Procs /\ v.fds = nf /\ v.parent = u.parent /\ v.stage = u.stage /\ v.state = u.state
         /\ v.at = u.at /\ v.inside = u.inside /\ v.took = u.took /\ v.wrote = u.wrote /\ v.eof = u.eof
    BY <1>2, <1>9, PutFds
  <1> HIDE DEF v, nf, ns
  <1>14. LET z == procs'[p]
         IN  /\ z \in Procs /\ z.slots = ns /\ z.fds = nf
             /\ z.parent = u.parent /\ z.stage = u.stage /\ z.state = u.state
             /\ z.at = u.at /\ z.inside = u.inside /\ z.took = u.took /\ z.wrote = u.wrote /\ z.eof = u.eof
    BY <1>10, <1>12, <1>13, PutSlots
  <1>15. SameKin(p) /\ SameState(p) /\ Onward(p) /\ SameData(p)
    BY <1>2, <1>14 DEF SameKin, SameState, Onward, SameData
  <1>16. /\ DOMAIN pipes' = DOMAIN pipes \cup {k} /\ pipes'[k] = 0
         /\ \A j \in DOMAIN pipes : j # k => pipes'[j] = pipes[j]
    BY <1>1
  <1> QED BY <1>4, <1>9, <1>10, <1>12, <1>14, <1>15, <1>16 DEF k, s

\* dup2 () gives one descriptor what the slot refers to.
LEMMA DoesDup2 ==
  ASSUME Typed, Placed, NEW p \in DOMAIN procs, Redirect(p)
  PROVE  LET h == Handle(p, Instr(p).slot)
         IN  /\ Others(p) /\ SameKin(p) /\ SameState(p) /\ Onward(p) /\ SameData(p) /\ SamePipes
             /\ procs'[p] \in Procs /\ procs'[p].slots = procs[p].slots
             /\ \A d \in Fds : procs'[p].fds[d] = IF d = Instr(p).to /\ h # Nothing THEN h ELSE procs[p].fds[d]
             /\ h = Nothing \/ \E d \in Fds : h = procs[p].fds[d]
  <1> DEFINE h == Handle(p, Instr(p).slot)
             t == Instr(p).to
             u == Stepped(p)
             nf == [u.fds EXCEPT ![t] = IF h = Nothing THEN @ ELSE h]
  <1>1. /\ Becomes(p, [Stepped(p) EXCEPT !.fds[t] = IF h = Nothing THEN @ ELSE h])
        /\ UNCHANGED pipes
    BY DEF Redirect
  <1>2. /\ u \in Procs /\ u.fds = procs[p].fds /\ u.slots = procs[p].slots
        /\ u.parent = procs[p].parent /\ u.stage = procs[p].stage /\ u.state = procs[p].state
        /\ u.took = procs[p].took /\ u.wrote = procs[p].wrote /\ u.eof = procs[p].eof
        /\ IF InBodyYet(p) THEN u.at = procs[p].at /\ u.inside = procs[p].inside + 1
           ELSE u.at = procs[p].at + 1 /\ u.inside = 0
    BY SteppedProc
  <1>3. t \in Fds
    <2>1. Fits(Stages, Instr(p)) /\ Instr(p).op = "dup2" /\ Stages \in Nat
      BY Running, Context DEF Redirect, Typed
    <2>2. t \in 0 .. 2
      BY <2>1 DEF Fits
    <2> QED BY <2>1, <2>2 DEF Fds
  <1>4. procs[p].fds \in FdMaps /\ procs[p].slots \in SlotMaps
    BY TypedProc
  <1>5. h = Nothing \/ \E d \in Fds : h = procs[p].fds[d]
    BY DEF Handle
  <1>6. Nothing \in Handles
    BY DEF Nothing, Handles
  <1>7. h \in Handles
    BY <1>4, <1>5, <1>6 DEF FdMaps
  <1>11. Becomes(p, [u EXCEPT !.fds = nf])
    BY <1>1
  <1> HIDE DEF h, t, u
  <1>8. /\ nf \in FdMaps
        /\ \A d \in Fds : nf[d] = IF d = t /\ h # Nothing THEN h ELSE procs[p].fds[d]
    BY <1>2, <1>3, <1>4, <1>7 DEF FdMaps
  <1> HIDE DEF nf
  <1>12. Others(p) /\ procs'[p] = [u EXCEPT !.fds = nf]
    BY <1>11, BecomesOne
  <1>13. LET v == procs'[p] IN
         /\ v \in Procs /\ v.fds = nf /\ v.parent = u.parent /\ v.stage = u.stage /\ v.state = u.state
         /\ v.at = u.at /\ v.inside = u.inside /\ v.took = u.took /\ v.wrote = u.wrote /\ v.eof = u.eof
         /\ v.slots = u.slots
    BY <1>2, <1>8, <1>12, PutFds
  <1>15. SameKin(p) /\ SameState(p) /\ Onward(p) /\ SameData(p) /\ SamePipes
    BY <1>1, <1>2, <1>13 DEF SameKin, SameState, Onward, SameData, SamePipes
  <1> QED BY <1>2, <1>5, <1>8, <1>12, <1>13, <1>15 DEF h, t

\* close () leaves nothing of one descriptor.
LEMMA DoesClose ==
  ASSUME Typed, Placed, NEW p \in DOMAIN procs, CloseSlot(p)
  PROVE  LET c == procs[p].slots[Instr(p).slot]
         IN  /\ Others(p) /\ SameKin(p) /\ SameState(p) /\ Onward(p) /\ SameData(p) /\ SamePipes
             /\ procs'[p] \in Procs /\ procs'[p].slots = procs[p].slots
             /\ \A d \in Fds : procs'[p].fds[d] = IF d = c THEN Nothing ELSE procs[p].fds[d]
  <1> DEFINE c == procs[p].slots[Instr(p).slot]
             u == Stepped(p)
             nf == [e \in Fds |-> IF e = c THEN Nothing ELSE u.fds[e]]
  <1>1. Becomes(p, [u EXCEPT !.fds = nf]) /\ UNCHANGED pipes
    <2>1. u \in Procs
      BY SteppedProc
    <2> QED BY <2>1 DEF CloseSlot, Procs
  <1>2. /\ u \in Procs /\ u.fds = procs[p].fds /\ u.slots = procs[p].slots
        /\ u.parent = procs[p].parent /\ u.stage = procs[p].stage /\ u.state = procs[p].state
        /\ u.took = procs[p].took /\ u.wrote = procs[p].wrote /\ u.eof = procs[p].eof
        /\ IF InBodyYet(p) THEN u.at = procs[p].at /\ u.inside = procs[p].inside + 1
           ELSE u.at = procs[p].at + 1 /\ u.inside = 0
    BY SteppedProc
  <1>4. procs[p].fds \in FdMaps /\ procs[p].slots \in SlotMaps
    BY TypedProc
  <1>6. Nothing \in Handles
    BY DEF Nothing, Handles
  <1> HIDE DEF c, u
  <1>8. /\ nf \in FdMaps
        /\ \A d \in Fds : nf[d] = IF d = c THEN Nothing ELSE procs[p].fds[d]
    BY <1>2, <1>4, <1>6 DEF FdMaps
  <1> HIDE DEF nf
  <1>12. Others(p) /\ procs'[p] = [u EXCEPT !.fds = nf]
    BY <1>1, BecomesOne
  <1>13. LET v == procs'[p] IN
         /\ v \in Procs /\ v.fds = nf /\ v.parent = u.parent /\ v.stage = u.stage /\ v.state = u.state
         /\ v.at = u.at /\ v.inside = u.inside /\ v.took = u.took /\ v.wrote = u.wrote /\ v.eof = u.eof
         /\ v.slots = u.slots
    BY <1>2, <1>8, <1>12, PutFds
  <1>15. SameKin(p) /\ SameState(p) /\ Onward(p) /\ SameData(p) /\ SamePipes
    BY <1>1, <1>2, <1>13 DEF SameKin, SameState, Onward, SameData, SamePipes
  <1> QED BY <1>2, <1>8, <1>12, <1>13, <1>15 DEF c

\* An assignment changes one slot.
LEMMA DoesAssign ==
  ASSUME Typed, Placed, NEW p \in DOMAIN procs, AssignSlot(p)
  PROVE  /\ Others(p) /\ SameKin(p) /\ SameState(p) /\ Onward(p) /\ SameData(p) /\ SamePipes
         /\ procs'[p] \in Procs /\ procs'[p].fds = procs[p].fds
         /\ \A s \in Slots : procs'[p].slots[s] = IF s = Instr(p).slot THEN procs[p].slots[Instr(p).from]
                                                  ELSE procs[p].slots[s]
  <1> DEFINE t == Instr(p).slot
             from == Instr(p).from
             u == Stepped(p)
             ns == [u.slots EXCEPT ![t] = procs[p].slots[from]]
  <1>1. Becomes(p, [u EXCEPT !.slots[t] = procs[p].slots[from]]) /\ UNCHANGED pipes
    BY DEF AssignSlot
  <1>2. /\ u \in Procs /\ u.fds = procs[p].fds /\ u.slots = procs[p].slots
        /\ u.parent = procs[p].parent /\ u.stage = procs[p].stage /\ u.state = procs[p].state
        /\ u.took = procs[p].took /\ u.wrote = procs[p].wrote /\ u.eof = procs[p].eof
        /\ IF InBodyYet(p) THEN u.at = procs[p].at /\ u.inside = procs[p].inside + 1
           ELSE u.at = procs[p].at + 1 /\ u.inside = 0
    BY SteppedProc
  <1>3. t \in Slots /\ from \in Slots
    <2>1. Fits(Stages, Instr(p)) /\ Instr(p).op = "assign" /\ Stages \in Nat
      BY Running, Context DEF AssignSlot, Typed
    <2>2. t \in 0 .. 2 * Stages + 2 /\ from \in 0 .. 2 * Stages + 2
      BY <2>1 DEF Fits
    <2> QED BY <2>1, <2>2 DEF Slots
  <1>4. procs[p].slots \in SlotMaps
    BY TypedProc
  <1>11. Becomes(p, [u EXCEPT !.slots = ns])
    BY <1>1
  <1> HIDE DEF t, from, u
  <1>8. /\ ns \in SlotMaps
        /\ \A s \in Slots : ns[s] = IF s = t THEN procs[p].slots[from] ELSE procs[p].slots[s]
    BY <1>2, <1>3, <1>4 DEF SlotMaps
  <1> HIDE DEF ns
  <1>12. Others(p) /\ procs'[p] = [u EXCEPT !.slots = ns]
    BY <1>11, BecomesOne
  <1>13. LET v == procs'[p] IN
         /\ v \in Procs /\ v.fds = u.fds /\ v.parent = u.parent /\ v.stage = u.stage /\ v.state = u.state
         /\ v.at = u.at /\ v.inside = u.inside /\ v.took = u.took /\ v.wrote = u.wrote /\ v.eof = u.eof
         /\ v.slots = ns
    BY <1>2, <1>8, <1>12, PutSlots
  <1>15. SameKin(p) /\ SameState(p) /\ Onward(p) /\ SameData(p) /\ SamePipes
    BY <1>1, <1>2, <1>13 DEF SameKin, SameState, Onward, SameData, SamePipes
  <1> QED BY <1>2, <1>8, <1>12, <1>13, <1>15 DEF t, from

\* A fork has no body of its own inside another: the launcher itself forks.
LEMMA DoesFork ==
  ASSUME Typed, Placed, NEW p \in DOMAIN procs, ForkChild(p)
  PROVE  LET c == Len(procs) + 1
         IN  /\ Grown(p) /\ SameKin(p) /\ SameState(p) /\ Onward(p) /\ SameData(p) /\ SameFiles(p) /\ SamePipes
             /\ procs'[p] \in Procs /\ procs'[c] \in Procs
             /\ procs'[c].parent = p /\ procs'[c].stage = Instr(p).stage /\ procs'[c].state = procs[p].state
             /\ procs'[c].at = procs[p].at /\ procs'[c].inside = 1
             /\ procs'[c].slots = procs[p].slots /\ procs'[c].fds = procs[p].fds
             /\ procs'[c].took = procs[p].took /\ procs'[c].wrote = procs[p].wrote
             /\ procs'[c].eof = procs[p].eof
             /\ procs' \in Seq(Procs)
  <1> DEFINE u == Stepped(p)
             k == Instr(p).stage
             a == [procs[p] EXCEPT !.parent = p]
             b == [a EXCEPT !.stage = k]
             c == [b EXCEPT !.inside = 1]
  <1>1. procs' = Append([procs EXCEPT ![p] = u], c) /\ UNCHANGED pipes
    BY DEF ForkChild
  <1>2. /\ u \in Procs /\ u.fds = procs[p].fds /\ u.slots = procs[p].slots
        /\ u.parent = procs[p].parent /\ u.stage = procs[p].stage /\ u.state = procs[p].state
        /\ u.took = procs[p].took /\ u.wrote = procs[p].wrote /\ u.eof = procs[p].eof
        /\ IF InBodyYet(p) THEN u.at = procs[p].at /\ u.inside = procs[p].inside + 1
           ELSE u.at = procs[p].at + 1 /\ u.inside = 0
    BY SteppedProc
  <1>3. k \in 0 .. Stages + 1
    <2>1. Fits(Stages, Instr(p)) /\ Instr(p).op = "fork" /\ Stages \in Nat
      BY Running, Context DEF ForkChild, Typed
    <2> QED BY <2>1 DEF Fits
  <1>4. procs[p] \in Procs /\ p \in Nat /\ procs \in Seq(Procs)
    BY TypedProc DEF Typed
  <1> HIDE DEF u, k
  <1>5. /\ a \in Procs /\ a.parent = p /\ a.state = procs[p].state /\ a.at = procs[p].at
        /\ a.slots = procs[p].slots /\ a.fds = procs[p].fds
        /\ a.took = procs[p].took /\ a.wrote = procs[p].wrote /\ a.eof = procs[p].eof
    BY <1>4, PutParent
  <1> HIDE DEF a
  <1>6. /\ b \in Procs /\ b.parent = p /\ b.state = procs[p].state /\ b.at = procs[p].at
        /\ b.slots = procs[p].slots /\ b.fds = procs[p].fds /\ b.stage = k
        /\ b.took = procs[p].took /\ b.wrote = procs[p].wrote /\ b.eof = procs[p].eof
    BY <1>3, <1>5, PutStage
  <1> HIDE DEF b
  <1>7. /\ c \in Procs /\ c.parent = p /\ c.state = procs[p].state /\ c.at = procs[p].at
        /\ c.slots = procs[p].slots /\ c.fds = procs[p].fds /\ c.stage = k /\ c.inside = 1
        /\ c.took = procs[p].took /\ c.wrote = procs[p].wrote /\ c.eof = procs[p].eof
    BY <1>6, PutInside
  <1> HIDE DEF c
  <1> DEFINE e == [procs EXCEPT ![p] = u]
  <1>8. /\ e \in Seq(Procs) /\ Len(e) = Len(procs) /\ DOMAIN e = DOMAIN procs /\ e[p] = u
        /\ \A q \in DOMAIN procs : q # p => e[q] = procs[q]
    BY <1>2, <1>4
  <1> HIDE DEF e
  <1>9. procs' = Append(e, c)
    BY <1>1 DEF e
  <1>10. /\ procs' \in Seq(Procs) /\ Len(procs') = Len(procs) + 1 /\ procs'[Len(procs) + 1] = c
         /\ DOMAIN procs' = DOMAIN procs \cup {Len(procs) + 1} /\ Len(procs) + 1 \notin DOMAIN procs
         /\ \A q \in DOMAIN procs : procs'[q] = e[q]
    BY <1>4, <1>7, <1>8, <1>9
  <1>11. procs'[p] = u /\ \A q \in DOMAIN procs : q # p => procs'[q] = procs[q]
    BY <1>8, <1>10
  <1>12. Grown(p)
    BY <1>10, <1>11 DEF Grown
  <1>15. SameKin(p) /\ SameState(p) /\ Onward(p) /\ SameData(p) /\ SameFiles(p) /\ SamePipes
    BY <1>1, <1>2, <1>11 DEF SameKin, SameState, Onward, SameData, SamePipes, SameFiles
  <1> QED BY <1>2, <1>7, <1>10, <1>11, <1>12, <1>15 DEF k

\* A known program replaces the launcher, an unknown one does not.
LEMMA DoesExec ==
  ASSUME Typed, Placed, NEW p \in DOMAIN procs, Execute(p)
  PROVE  /\ Others(p) /\ procs'[p].parent = procs[p].parent /\ SameData(p) /\ SamePipes
         /\ procs'[p] \in Procs /\ procs'[p].slots = procs[p].slots
         /\ ~line[Instr(p).stage].known => SameKin(p) /\ SameState(p) /\ Onward(p) /\ SameFiles(p)
         /\ line[Instr(p).stage].known =>
              /\ SamePlace(p) /\ procs'[p].state = "program" /\ procs'[p].stage = Instr(p).stage
              /\ \A d \in Fds : /\ d < 3 => procs'[p].fds[d] = procs[p].fds[d]
                                /\ procs'[p].fds[d] \in {procs[p].fds[d], Nothing}
  <1> DEFINE u == Stepped(p)
             k == Instr(p).stage
             nf == IF launcher = "inf15_3" THEN [d \in Fds |-> IF d < 3 THEN procs[p].fds[d] ELSE Nothing]
                   ELSE procs[p].fds
             a == [procs[p] EXCEPT !.state = "program"]
             b == [a EXCEPT !.stage = k]
             c == [b EXCEPT !.fds = nf]
  <1>1. UNCHANGED pipes /\ procs[p] \in Procs /\ procs[p].fds \in FdMaps
    BY TypedProc DEF Execute
  <1>2. CASE ~line[k].known
    <2>1. Becomes(p, u)
      BY <1>2 DEF Execute
    <2>2. Others(p) /\ procs'[p] = u
      BY <2>1, BecomesOne
    <2>3. u \in Procs /\ SameKin(p) /\ SameState(p) /\ Onward(p) /\ SameData(p) /\ SameFiles(p) /\ SamePipes
      BY <1>1, <2>2, SteppedProc DEF SameKin, SameState, Onward, SameData, SamePipes, SameFiles
    <2> QED BY <1>2, <2>2, <2>3 DEF SameKin, SameFiles
  <1>3. CASE line[k].known
    <2>1. k \in 0 .. Stages + 1
      <3>1. Fits(Stages, Instr(p)) /\ Instr(p).op = "exec" /\ Stages \in Nat
        BY Running, Context DEF Execute, Typed
      <3>2. k \in 1 .. Stages
        BY <3>1 DEF Fits
      <3> QED BY <3>1, <3>2
    <2>2. Becomes(p, [procs[p] EXCEPT
               !.state = "program", !.stage = Instr(p).stage,
               !.fds = IF launcher = "inf15_3"
                       THEN [d \in Fds |-> IF d < 3 THEN @[d] ELSE Nothing] ELSE @])
      BY <1>3 DEF Execute
    <2>3. Becomes(p, c)
      BY <1>1, <2>1, <2>2 DEF Procs
    <2>4. Nothing \in Handles
      BY DEF Nothing, Handles
    <2>5. /\ nf \in FdMaps
          /\ \A d \in Fds : /\ d < 3 => nf[d] = procs[p].fds[d]
                            /\ nf[d] \in {procs[p].fds[d], Nothing}
      BY <1>1, <2>4 DEF FdMaps
    <2> HIDE DEF nf, k
    <2>6. /\ a \in Procs /\ a.parent = procs[p].parent /\ a.state = "program" /\ a.at = procs[p].at
          /\ a.inside = procs[p].inside /\ a.slots = procs[p].slots
          /\ a.took = procs[p].took /\ a.wrote = procs[p].wrote /\ a.eof = procs[p].eof
      BY <1>1, PutState
    <2> HIDE DEF a
    <2>7. /\ b \in Procs /\ b.parent = procs[p].parent /\ b.state = "program" /\ b.at = procs[p].at
          /\ b.inside = procs[p].inside /\ b.slots = procs[p].slots /\ b.stage = k
          /\ b.took = procs[p].took /\ b.wrote = procs[p].wrote /\ b.eof = procs[p].eof
      BY <2>1, <2>6, PutStage
    <2> HIDE DEF b
    <2>8. /\ c \in Procs /\ c.parent = procs[p].parent /\ c.state = "program" /\ c.at = procs[p].at
          /\ c.inside = procs[p].inside /\ c.slots = procs[p].slots /\ c.stage = k /\ c.fds = nf
          /\ c.took = procs[p].took /\ c.wrote = procs[p].wrote /\ c.eof = procs[p].eof
      BY <2>5, <2>7, PutFds
    <2> HIDE DEF c
    <2>9. Others(p) /\ procs'[p] = c
      BY <2>3, BecomesOne
    <2>10. SameData(p) /\ SamePlace(p) /\ SamePipes
      BY <1>1, <2>8, <2>9 DEF SameData, SamePlace, SamePipes
    <2> QED BY <1>3, <2>5, <2>8, <2>9, <2>10 DEF k
  <1> QED BY <1>2, <1>3

\* waitpid () changes nothing but the place.
LEMMA DoesWait ==
  ASSUME Typed, Placed, NEW p \in DOMAIN procs, WaitFor(p)
  PROVE  /\ Others(p) /\ SameKin(p) /\ SameState(p) /\ Onward(p) /\ SameData(p) /\ SameFiles(p) /\ SamePipes
         /\ procs'[p] \in Procs
  <1>1. Others(p) /\ procs'[p] = Stepped(p)
    BY BecomesOne DEF WaitFor
  <1> QED BY <1>1, SteppedProc DEF WaitFor, SameKin, SameState, Onward, SameData, SamePipes, SameFiles

\* Every way to end: the launcher's exit, the end of a program, a write nobody can read.
Ends1(p) ==
  /\ Others(p) /\ SameKin(p) /\ SamePlace(p) /\ SameData(p) /\ SameFiles(p) /\ SamePipes
  /\ procs'[p] \in Procs /\ procs'[p].state = "ended"

\* Ending changes nothing but the state.
LEMMA DoesEnd ==
  ASSUME Typed, NEW p \in DOMAIN procs, Becomes(p, [procs[p] EXCEPT !.state = "ended"]), UNCHANGED pipes
  PROVE  Ends1(p)
  <1> DEFINE a == [procs[p] EXCEPT !.state = "ended"]
  <1>1. Others(p) /\ procs'[p] = a
    BY BecomesOne
  <1>2. /\ a \in Procs /\ a.parent = procs[p].parent /\ a.state = "ended" /\ a.at = procs[p].at
        /\ a.inside = procs[p].inside /\ a.slots = procs[p].slots /\ a.stage = procs[p].stage
        /\ a.fds = procs[p].fds
        /\ a.took = procs[p].took /\ a.wrote = procs[p].wrote /\ a.eof = procs[p].eof
    BY TypedProc, PutState
  <1> HIDE DEF a
  <1> QED BY <1>1, <1>2 DEF Ends1, SameKin, SamePlace, SameData, SameFiles, SamePipes

\* One unit is taken, or the end is seen, or one unit is written.
Moves1(p) ==
  /\ Others(p) /\ SameKin(p) /\ SameState(p) /\ SameFiles(p) /\ procs'[p] \in Procs
\* Only the pipe k changes, to n.
OnePipe(k, n) ==
  /\ DOMAIN pipes' = DOMAIN pipes
  /\ k \in DOMAIN pipes => pipes'[k] = n
  /\ \A j \in DOMAIN pipes : j # k => pipes'[j] = pipes[j]
Takes(p, h) ==
  /\ Moves1(p) /\ h.end = "read" /\ pipes[h.pipe] > 0 /\ OnePipe(h.pipe, pipes[h.pipe] - 1)
  /\ procs'[p].took = procs[p].took + 1 /\ procs'[p].wrote = procs[p].wrote /\ procs'[p].eof = procs[p].eof
Sees(p, h) ==
  /\ Moves1(p) /\ AtEnd(h) /\ SamePipes
  /\ procs'[p].took = procs[p].took /\ procs'[p].wrote = procs[p].wrote /\ procs'[p].eof = TRUE
Puts(p) ==
  /\ Moves1(p) /\ SamePlace(p)
  /\ procs'[p].took = procs[p].took /\ procs'[p].wrote = procs[p].wrote + 1 /\ procs'[p].eof = procs[p].eof

\* Reading a unit takes it from the pipe.
LEMMA DoesTake ==
  ASSUME Typed, NEW p \in DOMAIN procs, NEW h, NEW u \in Procs, Reads(p, h, u),
         u.parent = procs[p].parent, u.stage = procs[p].stage, u.state = procs[p].state,
         u.fds = procs[p].fds, u.slots = procs[p].slots,
         u.took = procs[p].took, u.wrote = procs[p].wrote, u.eof = procs[p].eof
  PROVE  Takes(p, h) /\ procs'[p].at = u.at /\ procs'[p].inside = u.inside
  <1>1. /\ h.end = "read" /\ pipes[h.pipe] > 0
        /\ pipes' = [pipes EXCEPT ![h.pipe] = @ - 1]
        /\ Becomes(p, [u EXCEPT !.took = @ + 1])
    BY DEF Reads
  <1> DEFINE v == [u EXCEPT !.took = u.took + 1]
  <1>2. Others(p) /\ procs'[p] = v
    BY <1>1, BecomesOne
  <1>3. u.took + 1 \in Nat
    BY DEF Procs
  <1>4. /\ v \in Procs /\ v.parent = u.parent /\ v.stage = u.stage /\ v.state = u.state
        /\ v.at = u.at /\ v.inside = u.inside /\ v.slots = u.slots /\ v.fds = u.fds
        /\ v.took = u.took + 1 /\ v.wrote = u.wrote /\ v.eof = u.eof
    BY <1>3, PutTook
  <1> HIDE DEF v
  <1>5. OnePipe(h.pipe, pipes[h.pipe] - 1)
    BY <1>1 DEF OnePipe
  <1>6. Moves1(p)
    BY <1>2, <1>4 DEF Moves1, SameKin, SameState, SameFiles
  <1> QED BY <1>1, <1>2, <1>4, <1>5, <1>6 DEF Takes

\* The single read of inf15-0.c takes a unit or does nothing.
LEMMA DoesReadOnce ==
  ASSUME Typed, NEW p \in DOMAIN procs, ReadOnce(p)
  PROVE  /\ Onward(p)
         /\ \/ Takes(p, Handle(p, Instr(p).slot))
            \/ Moves1(p) /\ SameData(p) /\ SamePipes
  <1>1. CASE Reads(p, Handle(p, Instr(p).slot), Stepped(p))
    <2>1. /\ Takes(p, Handle(p, Instr(p).slot))
          /\ procs'[p].at = Stepped(p).at /\ procs'[p].inside = Stepped(p).inside
      BY <1>1, SteppedProc, DoesTake
    <2> QED BY <2>1, SteppedProc DEF Onward
  <1>2. CASE Becomes(p, Stepped(p)) /\ UNCHANGED pipes
    <2>1. Others(p) /\ procs'[p] = Stepped(p)
      BY <1>2, BecomesOne
    <2> QED BY <1>2, <2>1, SteppedProc DEF Moves1, SameKin, SameState, Onward, SameData, SamePipes, SameFiles
  <1> QED BY <1>1, <1>2 DEF ReadOnce

\* Somebody at the end of the input.
LEMMA DoesSee ==
  ASSUME Typed, NEW p \in DOMAIN procs, NEW h, NEW u \in Procs, AtEnd(h),
         Becomes(p, [u EXCEPT !.eof = TRUE]), UNCHANGED pipes,
         u.parent = procs[p].parent, u.stage = procs[p].stage, u.state = procs[p].state,
         u.fds = procs[p].fds, u.slots = procs[p].slots,
         u.took = procs[p].took, u.wrote = procs[p].wrote
  PROVE  Sees(p, h) /\ procs'[p].at = u.at /\ procs'[p].inside = u.inside
  <1> DEFINE v == [u EXCEPT !.eof = TRUE]
  <1>2. Others(p) /\ procs'[p] = v
    BY BecomesOne
  <1>4. /\ v \in Procs /\ v.parent = u.parent /\ v.stage = u.stage /\ v.state = u.state
        /\ v.at = u.at /\ v.inside = u.inside /\ v.slots = u.slots /\ v.fds = u.fds
        /\ v.took = u.took /\ v.wrote = u.wrote /\ v.eof = TRUE
    BY PutEof
  <1> HIDE DEF v
  <1>6. Moves1(p)
    BY <1>2, <1>4 DEF Moves1, SameKin, SameState, SameFiles
  <1> QED BY <1>2, <1>4, <1>6 DEF Sees, SamePipes

\* The loop of inf15-2.c takes a unit or sees the end.
LEMMA DoesReadLoop ==
  ASSUME Typed, NEW p \in DOMAIN procs, ReadLoop(p)
  PROVE  \/ SamePlace(p) /\ Takes(p, procs[p].fds[0])
         \/ Onward(p) /\ Sees(p, procs[p].fds[0])
  <1>1. CASE Reads(p, procs[p].fds[0], procs[p])
    <2>1. Takes(p, procs[p].fds[0]) /\ SamePlace(p)
      BY <1>1, TypedProc, DoesTake DEF SamePlace
    <2> QED BY <2>1
  <1>2. CASE /\ AtEnd(procs[p].fds[0])
             /\ Becomes(p, [Stepped(p) EXCEPT !.eof = TRUE]) /\ UNCHANGED pipes
    <2>1. /\ Sees(p, procs[p].fds[0])
          /\ procs'[p].at = Stepped(p).at /\ procs'[p].inside = Stepped(p).inside
      BY <1>2, SteppedProc, DoesSee
    <2> QED BY <2>1, SteppedProc DEF Onward
  <1> QED BY <1>1, <1>2 DEF ReadLoop

\* A program takes a unit or sees the end.
LEMMA DoesReadInput ==
  ASSUME Typed, NEW p \in DOMAIN procs, ReadInput(p)
  PROVE  /\ SamePlace(p) /\ procs[p].state = "program"
         /\ Takes(p, procs[p].fds[0]) \/ Sees(p, procs[p].fds[0])
  <1>1. CASE Reads(p, procs[p].fds[0], procs[p])
    <2>1. Takes(p, procs[p].fds[0]) /\ SamePlace(p)
      BY <1>1, TypedProc, DoesTake DEF SamePlace
    <2> QED BY <2>1 DEF ReadInput
  <1>2. CASE /\ AtEnd(procs[p].fds[0])
             /\ Becomes(p, [procs[p] EXCEPT !.eof = TRUE]) /\ UNCHANGED pipes
    <2>1. Sees(p, procs[p].fds[0]) /\ SamePlace(p)
      BY <1>2, TypedProc, DoesSee DEF SamePlace
    <2> QED BY <2>1 DEF ReadInput
  <1> QED BY <1>1, <1>2 DEF ReadInput

\* A program puts a unit in its output, or ends because nobody can read it.
LEMMA DoesWrite ==
  ASSUME Typed, NEW p \in DOMAIN procs, WriteOutput(p)
  PROVE  LET h == Output(p)
         IN  /\ procs[p].state = "program" /\ procs[p].wrote < Program(p).writes
             /\ \/ /\ h.end = "write" /\ HasReaders(h.pipe) /\ pipes[h.pipe] < Capacity
                   /\ Puts(p) /\ OnePipe(h.pipe, pipes[h.pipe] + 1)
                \/ h.end = "write" /\ ~HasReaders(h.pipe) /\ Ends1(p)
                \/ h.end # "write" /\ Puts(p) /\ SamePipes
  <1> DEFINE h == Output(p)
  <1>1. procs[p].state = "program" /\ procs[p].wrote < Program(p).writes
    BY DEF WriteOutput
  <1>2. ASSUME Becomes(p, [procs[p] EXCEPT !.wrote = @ + 1]) PROVE Puts(p)
    <2> DEFINE v == [procs[p] EXCEPT !.wrote = procs[p].wrote + 1]
    <2>1. Others(p) /\ procs'[p] = v
      BY <1>2, BecomesOne
    <2>2. procs[p] \in Procs /\ procs[p].wrote + 1 \in Nat
      BY TypedProc
    <2>3. /\ v \in Procs /\ v.parent = procs[p].parent /\ v.stage = procs[p].stage /\ v.state = procs[p].state
          /\ v.at = procs[p].at /\ v.inside = procs[p].inside /\ v.slots = procs[p].slots /\ v.fds = procs[p].fds
          /\ v.took = procs[p].took /\ v.wrote = procs[p].wrote + 1 /\ v.eof = procs[p].eof
      BY <2>2, PutWrote
    <2> HIDE DEF v
    <2>4. Moves1(p) /\ SamePlace(p)
      BY <2>1, <2>3 DEF Moves1, SameKin, SameState, SameFiles, SamePlace
    <2> QED BY <2>1, <2>3, <2>4 DEF Puts
  <1>3. CASE /\ h.end = "write" /\ HasReaders(h.pipe) /\ pipes[h.pipe] < Capacity
             /\ pipes' = [pipes EXCEPT ![h.pipe] = @ + 1]
             /\ Becomes(p, [procs[p] EXCEPT !.wrote = @ + 1])
    <2>1. OnePipe(h.pipe, pipes[h.pipe] + 1)
      BY <1>3 DEF OnePipe
    <2>2. Puts(p)
      BY <1>2, <1>3
    <2> QED BY <1>1, <1>3, <2>1, <2>2
  <1>4. CASE /\ h.end = "write" /\ ~HasReaders(h.pipe)
             /\ Becomes(p, [procs[p] EXCEPT !.state = "ended"])
             /\ UNCHANGED pipes
    BY <1>1, <1>4, DoesEnd
  <1>5. CASE /\ h.end # "write"
             /\ Becomes(p, [procs[p] EXCEPT !.wrote = @ + 1])
             /\ UNCHANGED pipes
    <2>1. Puts(p)
      BY <1>2, <1>5
    <2> QED BY <1>1, <1>5, <2>1 DEF SamePipes
  <1> QED BY <1>3, <1>4, <1>5 DEF WriteOutput

-----------------------------------------------------------------------------
\* Every step of a process is one of these.
LEMMA StepIsSame ==
  ASSUME Next PROVE Same \/ UNCHANGED vars
  BY ZenonT(60) DEF Next, Finished, Process, Launch, MakePipe, Redirect, CloseSlot, AssignSlot, ForkChild, Execute,
         WaitFor, ExitLauncher, ReadOnce, ReadLoop, Reads, ReadInput, WriteOutput, EndProgram

\* Every descriptor a launcher still has open, but the first three, is in a slot in use.
Room ==
  \A p \in DOMAIN procs : procs[p].state = "launcher" /\ procs[p].at <= Len(Text) =>
    \A d \in Fds : d > 2 /\ procs[p].fds[d] # Nothing =>
      \E s \in Slots : Used(launcher, Stages, procs[p].at, s) /\ procs[p].slots[s] = d

\* So pipe () finds two free descriptors, by the pigeonhole principle.
LEMMA FreePair ==
  ASSUME Typed, Placed, Room, NEW p \in DOMAIN procs, Runs(p, "pipe")
  PROVE  \E x, y \in Fds : x # y /\ procs[p].fds[x] = Nothing /\ procs[p].fds[y] = Nothing
  <1> DEFINE n == Stages
             D == 3 .. 2 * n + 4
             free == {d \in D : procs[p].fds[d] = Nothing}
             T == 0 .. 2 * n - 1
  <1>1. n \in Nat /\ n > 0
    BY Context DEF Typed
  <1>2. D \subseteq Fds
    BY <1>1 DEF Fds
  <1>3. \A d \in D : d \notin free => \E s \in T : procs[p].slots[s] = d
    <2> SUFFICES ASSUME NEW d \in D, d \notin free PROVE \E s \in T : procs[p].slots[s] = d
      OBVIOUS
    <2>1. /\ procs[p].inside = 0 /\ Slotted(launcher, n, procs[p].at, Instr(p)) /\ Instr(p).op = "pipe"
          /\ procs[p].state = "launcher" /\ procs[p].at \in 1 .. Len(Text)
      BY Running
    <2>2. d \in Fds /\ d > 2 /\ procs[p].fds[d] # Nothing
      BY <1>1, <1>2
    <2>3. PICK s \in Slots : Used(launcher, n, procs[p].at, s) /\ procs[p].slots[s] = d
      BY <2>1, <2>2 DEF Room
    <2>4. s \in T
      BY <2>1, <2>3 DEF Slotted
    <2> QED BY <2>3, <2>4
  <1>4. SUFFICES ASSUME ~ \E x, y \in free : x # y PROVE FALSE
    BY <1>2
  <1>5. PICK z \in D : \A d \in D : d # z => d \notin free
    <2>1. CASE free = {}
      <3>1. 3 \in D
        BY <1>1
      <3> QED BY <2>1, <3>1
    <2>2. CASE free # {}
      <3>1. PICK z \in free : TRUE
        BY <2>2
      <3> QED BY <1>4, <3>1
    <2> QED BY <2>1, <2>2
  <1> DEFINE S == D \ {z}
             f == [d \in S |-> CHOOSE s \in T : procs[p].slots[s] = d]
  <1>6. \A d \in S : f[d] \in T /\ procs[p].slots[f[d]] = d
    BY <1>3, <1>5
  <1>7. IsFiniteSet(D) /\ Cardinality(D) = 2 * n + 2 /\ IsFiniteSet(T) /\ Cardinality(T) = 2 * n
    <2>1. 3 \in Int /\ 2 * n + 4 \in Int /\ 0 \in Int /\ 2 * n - 1 \in Int
      BY <1>1
    <2>2. IsFiniteSet(D) /\ Cardinality(D) = IF 3 > 2 * n + 4 THEN 0 ELSE (2 * n + 4) - 3 + 1
      BY <2>1, FS_Interval
    <2>3. IsFiniteSet(T) /\ Cardinality(T) = IF 0 > 2 * n - 1 THEN 0 ELSE (2 * n - 1) - 0 + 1
      BY <2>1, FS_Interval
    <2> HIDE DEF D, T
    <2> QED BY <1>1, <2>2, <2>3
  <1>8. IsFiniteSet(S) /\ Cardinality(S) = 2 * n + 1
    <2>1. IsFiniteSet(S) /\ Cardinality(S) = Cardinality(D) - 1
      BY <1>5, <1>7, FS_RemoveElement
    <2> HIDE DEF S, D
    <2> QED BY <1>1, <1>7, <2>1
  <1>9. f \in [S -> T]
    BY <1>6
  <1>10. Cardinality(T) < Cardinality(S)
    <2> HIDE DEF S, T
    <2> QED BY <1>1, <1>7, <1>8
  <1> HIDE DEF S, T, f, D
  <1>11. \E d, e \in S : d # e /\ f[d] = f[e]
    BY <1>7, <1>8, <1>9, <1>10, FS_PigeonHole
  <1> QED BY <1>6, <1>11

\* Apart from its descriptors and slots, a process only steps on in pipe ().
LEMMA MakesPipe ==
  ASSUME Typed, Placed, Room, NEW p \in DOMAIN procs, MakePipe(p)
  PROVE  Others(p) /\ SameKin(p) /\ SameState(p) /\ Onward(p) /\ SameData(p)
  <1>1. Runs(p, "pipe")
    BY DEF MakePipe
  <1>2. PICK x, y \in Fds : x # y /\ procs[p].fds[x] = Nothing /\ procs[p].fds[y] = Nothing
    BY <1>1, FreePair
  <1> QED BY ZenonT(60), <1>2, DoesPipe

-----------------------------------------------------------------------------
\* The processes stay a function of their numbers.
IsFun(f) == f = [x \in DOMAIN f |-> f[x]]

\* They do in every step that forks nobody.
LEMMA ProcsIsFun ==
  ASSUME Typed, NEW p \in DOMAIN procs, Process(p), ~ForkChild(p)
  PROVE  IsFun(procs')
  <1>1. procs = [x \in DOMAIN procs |-> procs[x]]
    BY DEF Typed
  <1>2. ASSUME NEW proc, Becomes(p, proc) PROVE IsFun(procs')
    <2>1. procs' = [procs EXCEPT ![p] = proc]
      BY <1>2 DEF Becomes
    <2> QED BY <1>1, <2>1 DEF IsFun
  <1>3. \E proc : Becomes(p, proc)
    BY DEF Process, Launch, MakePipe, Redirect, CloseSlot, AssignSlot, Execute,
         WaitFor, ExitLauncher, ReadOnce, ReadLoop, Reads, ReadInput, WriteOutput, EndProgram
  <1> QED BY <1>2, <1>3

\* The types are kept when one process changes that keeps its own.
LEMMA TypedWhen ==
  ASSUME Typed, Same, NEW p \in DOMAIN procs, IsFun(procs'), Others(p),
         procs'[p] \in Procs, procs'[p].parent = procs[p].parent,
         DOMAIN pipes \subseteq DOMAIN pipes', \A k \in DOMAIN pipes' : pipes'[k] \in 0 .. Capacity,
         \A d \in Fds : procs'[p].fds[d].pipe \in DOMAIN pipes' \cup {<<0, 0>>}
  PROVE  Typed'
  <1>1. DOMAIN procs = 1 .. Len(procs) /\ Len(procs) \in Nat /\ Len(procs) > 0
    BY TypedProc DEF Typed
  <1>2. /\ DOMAIN procs' = DOMAIN procs /\ Len(procs') = Len(procs)
        /\ \A q \in DOMAIN procs : q # p => procs'[q] = procs[q]
    BY DEF Others
  <1>3. \A q \in DOMAIN procs : procs'[q] \in Procs
    BY <1>2, TypedProc
  <1>4. procs' \in Seq(Procs)
    BY <1>1, <1>2, <1>3 DEF IsFun
  <1>5. procs'[1].parent = 0 /\ \A q \in DOMAIN procs : q # 1 => procs'[q].parent \in 1 .. q - 1
    BY <1>1, <1>2 DEF Typed
  <1>6. \A q \in DOMAIN procs : \A d \in Fds : procs'[q].fds[d].pipe \in DOMAIN pipes' \cup {<<0, 0>>}
    BY <1>2 DEF Typed
  <1>7. Chosen' /\ Procs' = Procs /\ Fds' = Fds
    BY TextStays DEF Typed
  <1> QED BY <1>1, <1>2, <1>4, <1>5, <1>6, <1>7 DEF Typed

\* The types are kept when a pipe changes by one.
LEMMA TypedTake ==
  ASSUME Typed, NEW k, NEW i \in {-1, 1}, pipes[k] + i \in 0 .. Capacity, OnePipe(k, pipes[k] + i)
  PROVE  DOMAIN pipes' = DOMAIN pipes /\ \A j \in DOMAIN pipes' : pipes'[j] \in 0 .. Capacity
  BY DEF OnePipe, Typed

\* Every step keeps the types.
LEMMA TypedStep ==
  ASSUME Typed, Placed, Room, Same, NEW p \in DOMAIN procs, Process(p)
  PROVE  Typed'
  <1>1. /\ \A d \in Fds : procs[p].fds[d].pipe \in DOMAIN pipes \cup {<<0, 0>>}
        /\ \A k \in DOMAIN pipes : pipes[k] \in 0 .. Capacity
        /\ Capacity \in Nat /\ Capacity > 0
    BY Context DEF Typed
  <1>2. ASSUME ~ForkChild(p), Others(p), procs'[p] \in Procs, procs'[p].parent = procs[p].parent, SamePipes,
               \A d \in Fds : procs'[p].fds[d].pipe \in DOMAIN pipes \cup {<<0, 0>>}
        PROVE  Typed'
    <2>1. IsFun(procs')
      BY <1>2, ProcsIsFun
    <2>2. DOMAIN pipes' = DOMAIN pipes /\ \A k \in DOMAIN pipes' : pipes'[k] \in 0 .. Capacity
      BY <1>1, <1>2 DEF SamePipes
    <2> QED BY <1>2, <2>1, <2>2, TypedWhen
  <1>3. ASSUME ~ForkChild(p), Moves1(p), \/ SamePipes
                                         \/ \E k : \E i \in {-1, 1} : pipes[k] + i \in 0 .. Capacity /\ OnePipe(k, pipes[k] + i)
        PROVE  Typed'
    <2>1. IsFun(procs')
      BY <1>3, ProcsIsFun
    <2>2. DOMAIN pipes' = DOMAIN pipes /\ \A k \in DOMAIN pipes' : pipes'[k] \in 0 .. Capacity
      BY <1>1, <1>3, TypedTake DEF SamePipes
    <2>3. Others(p) /\ procs'[p] \in Procs /\ procs'[p].parent = procs[p].parent /\ procs'[p].fds = procs[p].fds
      BY <1>3 DEF Moves1, SameKin, SameFiles
    <2>4. \A d \in Fds : procs'[p].fds[d].pipe \in DOMAIN pipes' \cup {<<0, 0>>}
      BY <1>1, <2>2, <2>3
    <2> QED BY <2>1, <2>2, <2>3, <2>4, TypedWhen
  <1>4. CASE ForkChild(p)
    <2> DEFINE c == Len(procs) + 1
    <2>1. /\ Grown(p) /\ SameKin(p) /\ SameFiles(p) /\ SamePipes
          /\ procs' \in Seq(Procs) /\ procs'[c].parent = p /\ procs'[c].fds = procs[p].fds
      BY <1>4, DoesFork
    <2>2. DOMAIN procs = 1 .. Len(procs) /\ Len(procs) \in Nat /\ Len(procs) > 0
      BY TypedProc DEF Typed
    <2>3. /\ DOMAIN procs' = DOMAIN procs \cup {c} /\ Len(procs') = c /\ c \notin DOMAIN procs
          /\ \A q \in DOMAIN procs : q # p => procs'[q] = procs[q]
          /\ procs'[p].parent = procs[p].parent /\ procs'[p].fds = procs[p].fds
      BY <2>1 DEF Grown, SameKin, SameFiles
    <2>4. \A q \in DOMAIN procs : procs'[q].parent = procs[q].parent /\ procs'[q].fds = procs[q].fds
      BY <2>3
    <2>5. procs'[1].parent = 0 /\ \A q \in DOMAIN procs' : q # 1 => procs'[q].parent \in 1 .. q - 1
      BY SMTT(40), <2>1, <2>2, <2>3, <2>4 DEF Typed
    <2>6. \A q \in DOMAIN procs' : \A d \in Fds : procs'[q].fds[d].pipe \in DOMAIN pipes' \cup {<<0, 0>>}
      BY <2>1, <2>3, <2>4 DEF Typed, SamePipes
    <2>7. Chosen' /\ Procs' = Procs /\ Fds' = Fds
      BY TextStays DEF Typed
    <2>8. \A k \in DOMAIN pipes' : pipes'[k] \in 0 .. Capacity
      BY <1>1, <2>1 DEF SamePipes
    <2>9. procs' \in Seq(Procs) /\ Len(procs') > 0
      BY <2>1, <2>2, <2>3
    <2> QED BY <2>5, <2>6, <2>7, <2>8, <2>9 DEF Typed
  <1>5. CASE ~ForkChild(p) /\ MakePipe(p)
    <2> DEFINE k == <<p, procs[p].at>>
    <2>1. PICK x \in Fds, y \in Fds : x # y /\ procs[p].fds[x] = Nothing /\ procs[p].fds[y] = Nothing
      BY <1>5, FreePair DEF MakePipe
    <2>2. /\ Others(p) /\ SameKin(p) /\ procs'[p] \in Procs
          /\ DOMAIN pipes' = DOMAIN pipes \cup {k} /\ pipes'[k] = 0
          /\ \A j \in DOMAIN pipes : j # k => pipes'[j] = pipes[j]
          /\ \E r, w \in Fds : \A d \in Fds : procs'[p].fds[d] = IF d = r THEN ReadEnd(k)
                                                       ELSE IF d = w THEN WriteEnd(k)
                                                       ELSE procs[p].fds[d]
      <3> DEFINE s == Instr(p).slot
      <3>1. /\ Others(p) /\ SameKin(p) /\ procs'[p] \in Procs
            /\ DOMAIN pipes' = DOMAIN pipes \cup {k} /\ pipes'[k] = 0
            /\ \A j \in DOMAIN pipes : j # k => pipes'[j] = pipes[j]
            /\ \E r, w \in Fds :
                  /\ r # w /\ procs[p].fds[r] = Nothing /\ procs[p].fds[w] = Nothing
                  /\ \A d \in Fds : procs'[p].fds[d] = IF d = r THEN ReadEnd(k)
                                                       ELSE IF d = w THEN WriteEnd(k)
                                                       ELSE procs[p].fds[d]
                  /\ \A t \in Slots : procs'[p].slots[t] = IF t = s THEN r
                                                           ELSE IF t = s + 1 THEN w
                                                           ELSE procs[p].slots[t]
        BY SMTT(40), <1>5, <2>1, DoesPipe
      <3> HIDE DEF k, s
      <3>2. \E r, w \in Fds : \A d \in Fds : procs'[p].fds[d] = IF d = r THEN ReadEnd(k)
                                                       ELSE IF d = w THEN WriteEnd(k)
                                                       ELSE procs[p].fds[d]
        BY <3>1
      <3> QED BY <3>1, <3>2
    <2> HIDE DEF k
    <2>3. ReadEnd(k).pipe = k /\ WriteEnd(k).pipe = k
      BY DEF ReadEnd, WriteEnd
    <2>4. \A d \in Fds : procs'[p].fds[d].pipe \in DOMAIN pipes' \cup {<<0, 0>>}
      BY <1>1, <2>2, <2>3
    <2>5. \A j \in DOMAIN pipes' : pipes'[j] \in 0 .. Capacity
      BY <1>1, <2>2
    <2>6. DOMAIN pipes \subseteq DOMAIN pipes' /\ procs'[p].parent = procs[p].parent
      BY <2>2 DEF SameKin
    <2> QED BY <1>5, <2>2, <2>4, <2>5, <2>6, ProcsIsFun, TypedWhen
  <1>6. CASE ~ForkChild(p) /\ Redirect(p)
    <2> DEFINE h == Handle(p, Instr(p).slot)
    <2>1. /\ Others(p) /\ SameKin(p) /\ SamePipes /\ procs'[p] \in Procs
          /\ \A d \in Fds : procs'[p].fds[d] = IF d = Instr(p).to /\ h # Nothing THEN h ELSE procs[p].fds[d]
          /\ h = Nothing \/ \E d \in Fds : h = procs[p].fds[d]
      BY <1>6, DoesDup2
    <2> HIDE DEF h
    <2>2. \A d \in Fds : procs'[p].fds[d].pipe \in DOMAIN pipes \cup {<<0, 0>>}
      BY <1>1, <2>1
    <2> QED BY <1>2, <1>6, <2>1, <2>2 DEF SameKin
  <1>7. CASE ~ForkChild(p) /\ CloseSlot(p)
    <2>1. /\ Others(p) /\ SameKin(p) /\ SamePipes /\ procs'[p] \in Procs
          /\ \A d \in Fds : procs'[p].fds[d] \in {Nothing, procs[p].fds[d]}
      BY <1>7, DoesClose
    <2>2. \A d \in Fds : procs'[p].fds[d].pipe \in DOMAIN pipes \cup {<<0, 0>>}
      BY <1>1, <2>1 DEF Nothing
    <2> QED BY <1>2, <1>7, <2>1, <2>2 DEF SameKin
  <1>8. CASE ~ForkChild(p) /\ AssignSlot(p)
    <2>1. Others(p) /\ SameKin(p) /\ SamePipes /\ procs'[p] \in Procs /\ procs'[p].fds = procs[p].fds
      BY <1>8, DoesAssign
    <2> QED BY <1>1, <1>2, <1>8, <2>1 DEF SameKin
  <1>9. CASE ~ForkChild(p) /\ Execute(p)
    <2>1. /\ Others(p) /\ SamePipes /\ procs'[p] \in Procs /\ procs'[p].parent = procs[p].parent
          /\ \A d \in Fds : procs'[p].fds[d] \in {Nothing, procs[p].fds[d]}
      BY <1>9, DoesExec DEF SameFiles
    <2>2. \A d \in Fds : procs'[p].fds[d].pipe \in DOMAIN pipes \cup {<<0, 0>>}
      BY <1>1, <2>1 DEF Nothing
    <2> QED BY <1>2, <1>9, <2>1, <2>2
  <1>10. CASE ~ForkChild(p) /\ WaitFor(p)
    <2>1. Others(p) /\ SameKin(p) /\ SamePipes /\ SameFiles(p) /\ procs'[p] \in Procs
      BY <1>10, DoesWait
    <2> QED BY <1>1, <1>2, <1>10, <2>1 DEF SameKin, SameFiles
  <1>11. ASSUME Ends1(p), ~ForkChild(p) PROVE Typed'
    BY <1>1, <1>2, <1>11 DEF Ends1, SameKin, SameFiles
  <1>12. CASE ~ForkChild(p) /\ (ExitLauncher(p) \/ EndProgram(p))
    BY <1>11, <1>12, DoesEnd DEF ExitLauncher, EndProgram
  <1>13. ASSUME NEW h, Takes(p, h), ~ForkChild(p) PROVE Typed'
    <2>1. Moves1(p) /\ pipes[h.pipe] > 0 /\ OnePipe(h.pipe, pipes[h.pipe] - 1)
      BY <1>13 DEF Takes
    <2>2. CASE h.pipe \in DOMAIN pipes
      <3>1. pipes[h.pipe] + (-1) \in 0 .. Capacity /\ pipes[h.pipe] - 1 = pipes[h.pipe] + (-1)
        BY <1>1, <2>1, <2>2
      <3> QED BY <1>3, <1>13, <2>1, <3>1
    <2>3. CASE h.pipe \notin DOMAIN pipes
      <3>1. IsFun(procs') /\ procs'[p] \in Procs /\ Others(p) /\ procs'[p].parent = procs[p].parent
            /\ procs'[p].fds = procs[p].fds
        BY <1>13, <2>1, ProcsIsFun DEF Moves1, SameKin, SameFiles
      <3>2. DOMAIN pipes' = DOMAIN pipes /\ \A j \in DOMAIN pipes' : pipes'[j] \in 0 .. Capacity
        BY <1>1, <2>1, <2>3 DEF OnePipe
      <3> QED BY <1>1, <3>1, <3>2, TypedWhen
    <2> QED BY <2>2, <2>3
  <1>14. ASSUME NEW h, Sees(p, h), ~ForkChild(p) PROVE Typed'
    BY <1>3, <1>14 DEF Sees
  <1>15. CASE ~ForkChild(p) /\ ReadOnce(p)
    BY <1>3, <1>13, <1>15, DoesReadOnce
  <1>16. CASE ~ForkChild(p) /\ ReadLoop(p)
    BY <1>13, <1>14, <1>16, DoesReadLoop
  <1>17. CASE ~ForkChild(p) /\ ReadInput(p)
    BY <1>13, <1>14, <1>17, DoesReadInput
  <1>18. CASE ~ForkChild(p) /\ WriteOutput(p)
    <2> DEFINE h == Output(p)
    <2>1. \/ /\ h.end = "write" /\ HasReaders(h.pipe) /\ pipes[h.pipe] < Capacity
             /\ Puts(p) /\ OnePipe(h.pipe, pipes[h.pipe] + 1)
          \/ Ends1(p)
          \/ Puts(p) /\ SamePipes
      BY <1>18, DoesWrite
    <2>2. CASE Puts(p) /\ pipes[h.pipe] < Capacity /\ OnePipe(h.pipe, pipes[h.pipe] + 1)
      <3>1. IsFun(procs') /\ procs'[p] \in Procs /\ Others(p) /\ procs'[p].parent = procs[p].parent
            /\ procs'[p].fds = procs[p].fds
        BY <1>18, <2>2, ProcsIsFun DEF Puts, Moves1, SameKin, SameFiles
      <3>2. DOMAIN pipes' = DOMAIN pipes /\ \A j \in DOMAIN pipes' : pipes'[j] \in 0 .. Capacity
        <4> HIDE DEF h
        <4> QED BY <1>1, <2>2 DEF OnePipe
      <3> QED BY <1>1, <3>1, <3>2, TypedWhen
    <2>3. CASE Puts(p) /\ SamePipes
      BY <1>3, <1>18, <2>3 DEF Puts
    <2> QED BY <1>11, <1>18, <2>1, <2>2, <2>3
  <1> QED BY <1>4, <1>5, <1>6, <1>7, <1>8, <1>9, <1>10, <1>12, <1>15, <1>16, <1>17, <1>18 DEF Process, Launch

-----------------------------------------------------------------------------
(***************************************************************************)
(* What every step keeps: places, room for new descriptors, and a wait for *)
(* every process that runs.                                                *)
(***************************************************************************)
\* Where a step that forks nobody takes a process.
StepsOn(p) ==
  /\ SameState(p) /\ SameKin(p) /\ Onward(p)
  /\ \E op \in {"pipe", "dup2", "close", "assign", "exec", "wait", "read", "readAll"} : Runs(p, op)
  /\ \A c \in Children(p, Instr(p).stage) : Instr(p).op = "wait" => ~Live(c)
Rereads(p) == Runs(p, "readAll") /\ SameState(p) /\ SameKin(p) /\ SamePlace(p)
Starts(p) ==
  /\ Runs(p, "exec") /\ SamePlace(p) /\ procs'[p].parent = procs[p].parent
  /\ procs'[p].state = "program" /\ procs'[p].stage = Instr(p).stage
Dies(p) ==
  /\ Live(p) /\ SamePlace(p) /\ SameKin(p) /\ procs'[p].state = "ended"
  /\ procs[p].state = "launcher" /\ procs[p].at <= Len(Text) => Instr(p).op = "exit"
Computes(p) == procs[p].state = "program" /\ SameState(p) /\ SameKin(p) /\ SamePlace(p)

\* Every step that forks nobody is one of these.
LEMMA Shape ==
  ASSUME Typed, Placed, Room, NEW p \in DOMAIN procs, Process(p), ~ForkChild(p)
  PROVE  Others(p) /\ (StepsOn(p) \/ Rereads(p) \/ Starts(p) \/ Dies(p) \/ Computes(p))
  <1>1. ASSUME NEW op \in {"pipe", "dup2", "close", "assign", "exec", "wait", "read", "readAll"}, Runs(p, op),
               op = "wait" => \A c \in Children(p, Instr(p).stage) : ~Live(c),
               Others(p), SameState(p), SameKin(p), Onward(p)
        PROVE  Others(p) /\ StepsOn(p)
    <2>1. Instr(p).op = op
      BY <1>1 DEF Runs
    <2> QED BY <1>1, <2>1 DEF StepsOn
  <1>2. CASE MakePipe(p)
    <2>1. Runs(p, "pipe")
      BY <1>2 DEF MakePipe
    <2>2. Others(p) /\ SameState(p) /\ SameKin(p) /\ Onward(p)
      BY <1>2, MakesPipe
    <2> QED BY <1>1, <2>1, <2>2
  <1>3. CASE Redirect(p)
    <2>1. Runs(p, "dup2")
      BY <1>3 DEF Redirect
    <2>2. Others(p) /\ SameState(p) /\ SameKin(p) /\ Onward(p)
      BY <1>3, DoesDup2
    <2> QED BY <1>1, <2>1, <2>2
  <1>4. CASE CloseSlot(p)
    <2>1. Runs(p, "close")
      BY <1>4 DEF CloseSlot
    <2>2. Others(p) /\ SameState(p) /\ SameKin(p) /\ Onward(p)
      BY <1>4, DoesClose
    <2> QED BY <1>1, <2>1, <2>2
  <1>5. CASE AssignSlot(p)
    <2>1. Runs(p, "assign")
      BY <1>5 DEF AssignSlot
    <2>2. Others(p) /\ SameState(p) /\ SameKin(p) /\ Onward(p)
      BY <1>5, DoesAssign
    <2> QED BY <1>1, <2>1, <2>2
  <1>6. CASE Execute(p)
    <2>1. Runs(p, "exec")
      BY <1>6 DEF Execute
    <2>2. /\ Others(p) /\ procs'[p].parent = procs[p].parent
          /\ ~line[Instr(p).stage].known => SameKin(p) /\ SameState(p) /\ Onward(p)
          /\ line[Instr(p).stage].known => Starts(p)
      BY <1>6, <2>1, DoesExec DEF Starts
    <2> QED BY <1>1, <2>1, <2>2
  <1>7. CASE WaitFor(p)
    <2>1. Runs(p, "wait") /\ \A c \in Children(p, Instr(p).stage) : ~Live(c)
      BY <1>7 DEF WaitFor
    <2>2. Others(p) /\ SameState(p) /\ SameKin(p) /\ Onward(p)
      BY <1>7, DoesWait
    <2> QED BY <1>1, <2>1, <2>2
  <1>8. CASE ExitLauncher(p)
    <2>1. procs[p].state = "launcher" /\ (procs[p].at <= Len(Text) => Instr(p).op = "exit")
      BY <1>8 DEF ExitLauncher
    <2>2. Ends1(p)
      BY <1>8, DoesEnd DEF ExitLauncher
    <2> QED BY <2>1, <2>2 DEF Ends1, Dies, Live
  <1>9. CASE ReadOnce(p)
    <2>1. Runs(p, "read")
      BY <1>9 DEF ReadOnce
    <2>2. Onward(p) /\ Moves1(p)
      BY <1>9, DoesReadOnce DEF Takes
    <2>3. Others(p) /\ SameState(p) /\ SameKin(p)
      BY <2>2 DEF Moves1
    <2> QED BY <1>1, <2>1, <2>2, <2>3
  <1>10. CASE ReadLoop(p)
    <2>1. Runs(p, "readAll")
      BY <1>10 DEF ReadLoop
    <2>2. Moves1(p) /\ (SamePlace(p) \/ Onward(p))
      BY <1>10, DoesReadLoop DEF Takes, Sees
    <2>3. Others(p) /\ SameState(p) /\ SameKin(p)
      BY <2>2 DEF Moves1
    <2> QED BY <1>1, <2>1, <2>2, <2>3 DEF Rereads
  <1>11. CASE ReadInput(p)
    <2>1. SamePlace(p) /\ procs[p].state = "program" /\ Moves1(p)
      BY <1>11, DoesReadInput DEF Takes, Sees
    <2> QED BY <2>1 DEF Moves1, Computes
  <1>12. ASSUME Ends1(p), procs[p].state = "program" PROVE Others(p) /\ Dies(p)
    BY <1>12 DEF Ends1, Dies, Live
  <1>13. CASE WriteOutput(p)
    <2>1. procs[p].state = "program" /\ (Puts(p) \/ Ends1(p))
      BY <1>13, DoesWrite
    <2>2. CASE Puts(p)
      BY <2>1, <2>2 DEF Puts, Moves1, Computes
    <2> QED BY <1>12, <2>1, <2>2
  <1>14. CASE EndProgram(p)
    BY <1>12, <1>14, DoesEnd DEF EndProgram
  <1> QED BY <1>2, <1>3, <1>4, <1>5, <1>6, <1>7, <1>8, <1>9, <1>10, <1>11, <1>13, <1>14 DEF Process, Launch

\* Only the launcher itself, or a child that goes on with its code, forks.
LEMMA Forker ==
  ASSUME Typed, Placed, NEW p \in DOMAIN procs, ForkChild(p)
  PROVE  /\ procs[p].state = "launcher" /\ procs[p].inside = 0 /\ procs[p].at \in 1 .. Len(Text)
         /\ Instr(p) = Text[procs[p].at] /\ Instr(p).op = "fork"
         /\ procs'[p].at = procs[p].at + 1 /\ procs'[p].inside = 0
         /\ Ordered(launcher, Stages, procs[p].at, Instr(p))
         /\ Instr(p).body # <<>> /\ Len(Instr(p).body) \in Nat /\ Len(Instr(p).body) > 0
  <1>1. Runs(p, "fork")
    BY DEF ForkChild
  <1>2. /\ procs[p].state = "launcher" /\ procs[p].inside = 0 /\ procs[p].at \in 1 .. Len(Text)
        /\ Instr(p) = Text[procs[p].at] /\ Instr(p).op = "fork"
        /\ Ordered(launcher, Stages, procs[p].at, Instr(p))
    BY <1>1, Running
  <1>3. Onward(p) /\ ~InBodyYet(p)
    BY <1>2, DoesFork DEF InBodyYet
  <1>4. InBody(Stages, Instr(p).stage, Instr(p).body)
    BY <1>2 DEF Ordered
  <1> DEFINE b == Instr(p).body
             S == {b[i] : i \in 1 .. Len(b)}
  <1>5. b \in Seq(S) /\ b # <<>>
    BY <1>4 DEF InBody
  <1> HIDE DEF S, b
  <1>6. Len(b) \in Nat /\ Len(b) > 0
    BY <1>5, EmptySeq, LenProperties
  <1> QED BY <1>2, <1>3, <1>5, <1>6 DEF Onward, b

\* A place in the text T that the process r can be at.
GoodPlace(T, r) ==
  /\ r.at \in 1 .. Len(T) + 1
  /\ r.inside # 0 =>
       /\ r.at \in 1 .. Len(T) /\ T[r.at].op = "fork"
       /\ r.inside \in 1 .. Len(T[r.at].body)
       /\ r.stage = T[r.at].stage

\* Every step keeps the places.
LEMMA PlacedStep ==
  ASSUME Typed, Placed, Room, Same, NEW p \in DOMAIN procs, Process(p)
  PROVE  Placed'
  <1>1. Len(Text) \in Nat /\ Text' = Text
    BY Context, TextStays DEF Typed
  <1>2. \A q \in DOMAIN procs : GoodPlace(Text, procs[q])
    BY DEF Placed, GoodPlace
  <1>3. SUFFICES \A q \in DOMAIN procs' : GoodPlace(Text, procs'[q])
    <2>1. (\A q \in DOMAIN procs' : GoodPlace(Text, procs'[q])) => Placed'
      BY <1>1 DEF Placed, GoodPlace
    <2> QED BY <2>1
  <1>4. procs[p].inside \in Nat /\ procs[p].at \in Nat
    BY TypedProc
  <1>5. ASSUME procs[p].at \in 1 .. Len(Text), Onward(p), procs'[p].stage = procs[p].stage
        PROVE  GoodPlace(Text, procs'[p])
    <2>1. CASE InBodyYet(p)
      <3>1. /\ procs[p].inside # 0 /\ procs[p].inside < Len(Text[procs[p].at].body)
            /\ procs'[p].at = procs[p].at /\ procs'[p].inside = procs[p].inside + 1
        BY <1>5, <2>1 DEF InBodyYet, Onward
      <3>2. /\ Text[procs[p].at].op = "fork" /\ procs[p].stage = Text[procs[p].at].stage
            /\ procs[p].inside \in 1 .. Len(Text[procs[p].at].body)
        BY <3>1, <1>2 DEF GoodPlace
      <3>3. procs[p].inside + 1 \in 1 .. Len(Text[procs[p].at].body)
        BY <3>1, <3>2
      <3> QED BY <1>5, <1>1, <3>1, <3>2, <3>3 DEF GoodPlace
    <2>2. CASE ~InBodyYet(p)
      BY <1>1, <1>4, <1>5, <2>2 DEF Onward, GoodPlace
    <2> QED BY <2>1, <2>2
  <1>6. CASE ForkChild(p)
    <2> DEFINE c == Len(procs) + 1
    <2>1. /\ Grown(p) /\ SameKin(p) /\ Onward(p)
          /\ procs'[c].at = procs[p].at /\ procs'[c].inside = 1 /\ procs'[c].stage = Instr(p).stage
      BY <1>6, DoesFork
    <2>2. /\ procs[p].at \in 1 .. Len(Text) /\ Instr(p) = Text[procs[p].at] /\ Instr(p).op = "fork"
          /\ Len(Instr(p).body) \in Nat /\ Len(Instr(p).body) > 0
      BY <1>6, Forker
    <2>3. GoodPlace(Text, procs'[p])
      BY <1>5, <2>1, <2>2 DEF SameKin
    <2>4. GoodPlace(Text, procs'[c])
      BY <1>1, <2>1, <2>2 DEF GoodPlace
    <2> QED BY <1>2, <2>1, <2>3, <2>4 DEF Grown
  <1>7. CASE ~ForkChild(p)
    <2>1. Others(p) /\ (StepsOn(p) \/ Rereads(p) \/ Starts(p) \/ Dies(p) \/ Computes(p))
      BY <1>7, Shape
    <2>2. ASSUME StepsOn(p) PROVE GoodPlace(Text, procs'[p])
      <3>1. PICK op : Runs(p, op)
        BY <2>2 DEF StepsOn
      <3>2. procs[p].at \in 1 .. Len(Text)
        BY <3>1, Running
      <3> QED BY <1>5, <2>2, <3>2 DEF StepsOn, SameKin
    <2>3. ASSUME Rereads(p) \/ Dies(p) \/ Computes(p) PROVE GoodPlace(Text, procs'[p])
      <3>1. procs'[p].at = procs[p].at /\ procs'[p].inside = procs[p].inside /\ procs'[p].stage = procs[p].stage
        BY <2>3 DEF Rereads, Dies, Computes, SamePlace, SameKin
      <3> QED BY <1>2, <3>1 DEF GoodPlace
    <2>4. ASSUME Starts(p) PROVE GoodPlace(Text, procs'[p])
      <3>1. /\ procs'[p].at = procs[p].at /\ procs'[p].inside = procs[p].inside
            /\ procs'[p].stage = Instr(p).stage
        BY <2>4 DEF Starts, SamePlace
      <3>2. procs[p].inside # 0 => Instr(p).stage = procs[p].stage
        BY <2>4, Running DEF Starts
      <3> QED BY <1>2, <3>1, <3>2 DEF GoodPlace
    <2>5. GoodPlace(Text, procs'[p])
      BY <2>1, <2>2, <2>3, <2>4
    <2> QED BY <1>2, <2>1, <2>5 DEF Others
  <1> QED BY <1>6, <1>7

\* A process r of the launcher l with n programs, whose text has t instructions, has room.
RoomFor(l, n, t, r) ==
  r.state = "launcher" /\ r.at <= t =>
    \A d \in 0 .. 2 + 2 * (n + 1) : d > 2 /\ r.fds[d] # Nothing =>
      \E s \in 0 .. 2 * n + 2 : Used(l, n, r.at, s) /\ r.slots[s] = d

\* Room, process by process.
LEMMA RoomIs == Room <=> \A p \in DOMAIN procs : RoomFor(launcher, Stages, Len(Text), procs[p])
  BY DEF Room, RoomFor, Fds, Slots

\* The same of the next state.
LEMMA RoomWillBe ==
  ASSUME Same
  PROVE  Room' <=> \A p \in DOMAIN procs' : RoomFor(launcher, Stages, Len(Text), procs'[p])
  <1>1. launcher' = launcher /\ Stages' = Stages /\ Text' = Text /\ Fds' = Fds /\ Slots' = Slots
    BY TextStays
  <1> QED BY <1>1 DEF Room, RoomFor, Fds, Slots

\* Nothing is opened, and what was in use stays so.
LEMMA RoomKept ==
  ASSUME NEW l, NEW n \in Nat, NEW t, NEW r, NEW u, RoomFor(l, n, t, r),
         r.state = "launcher", r.at <= t,
         \A s \in 0 .. 2 * n + 2 : u.slots[s] = r.slots[s],
         \A d \in 0 .. 2 + 2 * (n + 1) : d > 2 /\ u.fds[d] # Nothing => r.fds[d] # Nothing,
         \A s : Used(l, n, r.at, s) => Used(l, n, u.at, s)
  PROVE  RoomFor(l, n, t, u)
  <1> SUFFICES ASSUME NEW d \in 0 .. 2 + 2 * (n + 1), d > 2, u.fds[d] # Nothing
               PROVE  \E s \in 0 .. 2 * n + 2 : Used(l, n, u.at, s) /\ u.slots[s] = d
    BY DEF RoomFor
  <1>1. PICK s \in 0 .. 2 * n + 2 : Used(l, n, r.at, s) /\ r.slots[s] = d
    BY DEF RoomFor
  <1> QED BY <1>1

\* A step that closes and assigns nothing leaves the slots in use.
LEMMA UsedOn ==
  ASSUME Typed, Placed, NEW p \in DOMAIN procs, NEW op, Runs(p, op), Onward(p),
         procs[p].inside # 0 \/ op \notin {"close", "assign"}
  PROVE  \A s : Used(launcher, Stages, procs[p].at, s) => Used(launcher, Stages, procs'[p].at, s)
  <1>1. procs[p].at \in 1 .. Len(Text) /\ Instr(p).op = op
    BY Running
  <1>2. Slotted(launcher, Stages, procs[p].at, Text[procs[p].at])
    BY <1>1, Context DEF Typed
  <1>3. Text[procs[p].at].op \notin {"close", "assign"}
    <2>1. CASE procs[p].inside = 0
      BY <2>1, <1>1, Running
    <2>2. CASE procs[p].inside # 0
      <3>1. Text[procs[p].at].op = "fork"
        BY <2>2, Running
      <3> QED BY <3>1
    <2> QED BY <2>1, <2>2
  <1>4. \A s : Used(launcher, Stages, procs[p].at, s) => Used(launcher, Stages, procs[p].at + 1, s)
    BY <1>2, <1>3 DEF Slotted
  <1>5. procs'[p].at = procs[p].at \/ procs'[p].at = procs[p].at + 1
    BY DEF Onward
  <1> QED BY <1>4, <1>5

\* Every step keeps the room.
LEMMA RoomStep ==
  ASSUME Typed, Placed, Room, Same, NEW p \in DOMAIN procs, Process(p)
  PROVE  Room'
  <1> DEFINE l == launcher
             n == Stages
             a == procs[p].at
             Ok(r) == RoomFor(l, n, Len(Text), r)
  <1>1. n \in Nat /\ n > 0 /\ Len(Text) \in Nat
    BY Context DEF Typed
  <1>2. \A q \in DOMAIN procs : Ok(procs[q])
    BY RoomIs
  <1>3. Fds = 0 .. 2 + 2 * (n + 1) /\ Slots = 0 .. 2 * n + 2
    BY DEF Fds, Slots
  <1>4. ASSUME \A q \in DOMAIN procs' : Ok(procs'[q]) PROVE Room'
    BY <1>4, RoomWillBe
  <1> HIDE DEF l, n
  <1>5. ASSUME NEW op, Runs(p, op), Onward(p), procs[p].inside # 0 \/ op \notin {"close", "assign"},
               \A s \in Slots : procs'[p].slots[s] = procs[p].slots[s],
               \A d \in Fds : d > 2 /\ procs'[p].fds[d] # Nothing => procs[p].fds[d] # Nothing
        PROVE  Ok(procs'[p])
    <2>1. \A s : Used(l, n, a, s) => Used(l, n, procs'[p].at, s)
      BY <1>5, UsedOn DEF l, n
    <2>2. procs[p].state = "launcher" /\ a <= Len(Text)
      BY <1>5 DEF Runs
    <2>3. Ok(procs[p])
      BY <1>2
    <2> QED BY <1>1, <1>3, <1>5, <2>1, <2>2, <2>3, RoomKept
  <1>6. ASSUME Others(p), Ok(procs'[p]) PROVE Room'
    BY <1>2, <1>4, <1>6 DEF Others
  <1>7. CASE ForkChild(p)
    <2> DEFINE c == Len(procs) + 1
    <2>1. /\ Grown(p) /\ SameFiles(p) /\ Onward(p)
          /\ procs'[c].at = procs[p].at /\ procs'[c].state = procs[p].state
          /\ procs'[c].slots = procs[p].slots /\ procs'[c].fds = procs[p].fds
      BY <1>7, DoesFork
    <2>2. Runs(p, "fork")
      BY <1>7 DEF ForkChild
    <2>3. Ok(procs'[p])
      BY <1>5, <2>1, <2>2 DEF SameFiles
    <2>4. Ok(procs'[c])
      <3>1. Ok(procs[p])
        BY <1>2
      <3> QED BY <2>1, <3>1 DEF RoomFor
    <2> HIDE DEF Ok
    <2> QED BY <1>2, <1>4, <2>1, <2>3, <2>4 DEF Grown
  <1>8. CASE MakePipe(p)
    <2> DEFINE s == Instr(p).slot
               k == <<p, a>>
    <2>1. Runs(p, "pipe")
      BY <1>8 DEF MakePipe
    <2>2. PICK x \in Fds, y \in Fds : x # y /\ procs[p].fds[x] = Nothing /\ procs[p].fds[y] = Nothing
      BY <2>1, FreePair
    <2>3. /\ Others(p) /\ Onward(p)
          /\ \E r, w \in Fds :
                  /\ r # w /\ procs[p].fds[r] = Nothing /\ procs[p].fds[w] = Nothing
                  /\ \A d \in Fds : procs'[p].fds[d] = IF d = r THEN ReadEnd(k)
                                                       ELSE IF d = w THEN WriteEnd(k)
                                                       ELSE procs[p].fds[d]
                  /\ \A t \in Slots : procs'[p].slots[t] = IF t = s THEN r
                                                           ELSE IF t = s + 1 THEN w
                                                           ELSE procs[p].slots[t]
      BY ZenonT(60), <1>8, <2>2, DoesPipe
    <2>4. /\ procs[p].inside = 0 /\ Slotted(l, n, a, Instr(p)) /\ Instr(p).op = "pipe"
          /\ procs[p].state = "launcher" /\ a \in 1 .. Len(Text) /\ Fits(n, Instr(p))
      BY <2>1, Running DEF l, n
    <2>5. /\ \A t : Used(l, n, a, t) => t # s /\ t # s + 1
          /\ Used(l, n, a + 1, s) /\ Used(l, n, a + 1, s + 1)
          /\ \A t : Used(l, n, a, t) => Used(l, n, a + 1, t)
      BY <2>4 DEF Slotted
    <2>6. s \in 0 .. 2 * n + 1
      BY <2>4 DEF Fits
    <2>7. procs'[p].at = a + 1
      BY <2>3, <2>4 DEF Onward, InBodyYet
    <2> HIDE DEF k, s
    <2>8. PICK r \in Fds, w \in Fds :
             /\ r # w /\ procs[p].fds[r] = Nothing /\ procs[p].fds[w] = Nothing
             /\ \A d \in Fds : procs'[p].fds[d] = IF d = r THEN ReadEnd(k)
                                                  ELSE IF d = w THEN WriteEnd(k)
                                                  ELSE procs[p].fds[d]
             /\ \A t \in Slots : procs'[p].slots[t] = IF t = s THEN r
                                                      ELSE IF t = s + 1 THEN w
                                                      ELSE procs[p].slots[t]
      BY <2>3
    <2>9. s \in Slots /\ s + 1 \in Slots /\ s # s + 1
      BY <1>1, <1>3, <2>6
    <2>10. ASSUME NEW d \in Fds, d > 2, procs'[p].fds[d] # Nothing
           PROVE  \E t \in Slots : Used(l, n, a + 1, t) /\ procs'[p].slots[t] = d
      <3>1. CASE d = r
        BY <2>5, <2>8, <2>9, <3>1
      <3>2. CASE d = w
        BY <2>5, <2>8, <2>9, <3>2
      <3>3. CASE d # r /\ d # w
        <4>1. procs[p].fds[d] # Nothing
          BY <2>8, <2>10, <3>3
        <4>2. PICK t \in Slots : Used(l, n, a, t) /\ procs[p].slots[t] = d
          BY <1>2, <1>3, <2>4, <2>10, <4>1 DEF RoomFor
        <4> QED BY <2>5, <2>8, <4>2
      <3> QED BY <3>1, <3>2, <3>3
    <2>11. Ok(procs'[p])
      BY <1>3, <2>7, <2>10 DEF RoomFor
    <2> QED BY <1>6, <2>3, <2>11
  <1>9. CASE Redirect(p)
    <2>1. Runs(p, "dup2")
      BY <1>9 DEF Redirect
    <2>2. /\ Others(p) /\ Onward(p) /\ procs'[p].slots = procs[p].slots
          /\ \A d \in Fds : d # Instr(p).to => procs'[p].fds[d] = procs[p].fds[d]
      BY <1>9, DoesDup2
    <2>3. Instr(p).to \in 0 .. 2
      BY <2>1, Running DEF Fits
    <2>4. \A d \in Fds : d > 2 /\ procs'[p].fds[d] # Nothing => procs[p].fds[d] # Nothing
      BY <2>2, <2>3
    <2> QED BY <1>5, <1>6, <2>1, <2>2, <2>4
  <1>10. CASE CloseSlot(p)
    <2> DEFINE c == procs[p].slots[Instr(p).slot]
    <2>1. Runs(p, "close")
      BY <1>10 DEF CloseSlot
    <2>2. /\ Others(p) /\ Onward(p) /\ procs'[p].slots = procs[p].slots
          /\ \A d \in Fds : procs'[p].fds[d] = IF d = c THEN Nothing ELSE procs[p].fds[d]
      BY <1>10, DoesClose
    <2>3. CASE procs[p].inside # 0
      <3>1. Ok(procs'[p])
        BY <1>5, <2>1, <2>2, <2>3
      <3> QED BY <1>6, <2>2, <3>1
    <2>4. CASE procs[p].inside = 0
      <3>1. /\ Slotted(l, n, a, Instr(p)) /\ Instr(p).op = "close"
            /\ procs[p].state = "launcher" /\ a \in 1 .. Len(Text)
        BY <2>1, <2>4, Running DEF l, n
      <3>2. procs'[p].at = a + 1
        BY <2>2, <2>4 DEF Onward, InBodyYet
      <3>3. ASSUME NEW d \in Fds, d > 2, procs'[p].fds[d] # Nothing
            PROVE  \E t \in Slots : Used(l, n, a + 1, t) /\ procs'[p].slots[t] = d
        <4>1. procs[p].fds[d] # Nothing /\ d # c
          BY <2>2, <3>3
        <4>2. PICK t \in Slots : Used(l, n, a, t) /\ procs[p].slots[t] = d
          BY <1>2, <1>3, <3>1, <3>3, <4>1 DEF RoomFor
        <4>3. t # Instr(p).slot
          BY <4>1, <4>2
        <4>4. Used(l, n, a + 1, t)
          BY <3>1, <4>2, <4>3 DEF Slotted
        <4> QED BY <2>2, <4>2, <4>4
      <3>4. Ok(procs'[p])
        BY <1>3, <3>2, <3>3 DEF RoomFor
      <3> QED BY <1>6, <2>2, <3>4
    <2> QED BY <2>3, <2>4
  <1>11. CASE AssignSlot(p)
    <2> DEFINE s == Instr(p).slot
               f == Instr(p).from
    <2>1. Runs(p, "assign")
      BY <1>11 DEF AssignSlot
    <2>2. /\ Others(p) /\ Onward(p) /\ procs'[p].fds = procs[p].fds
          /\ \A t \in Slots : procs'[p].slots[t] = IF t = s THEN procs[p].slots[f] ELSE procs[p].slots[t]
      BY <1>11, DoesAssign
    <2>3. procs[p].inside = 0 /\ Instr(p).op = "assign" /\ procs[p].state = "launcher" /\ a \in 1 .. Len(Text)
      BY <2>1, Running
    <2>4. Slotted(l, n, a, Instr(p)) /\ Fits(n, Instr(p))
      BY <2>1, <2>3, Running DEF l, n
    <2>5. /\ ~Used(l, n, a, s) /\ Used(l, n, a + 1, s)
          /\ \A t : Used(l, n, a, t) /\ t # f => Used(l, n, a + 1, t)
      BY <2>3, <2>4 DEF Slotted
    <2>6. s \in Slots
      BY <1>3, <2>3, <2>4 DEF Fits
    <2>7. procs'[p].at = a + 1
      BY <2>2, <2>3 DEF Onward, InBodyYet
    <2> HIDE DEF s, f
    <2>8. ASSUME NEW d \in Fds, d > 2, procs'[p].fds[d] # Nothing
          PROVE  \E t \in Slots : Used(l, n, a + 1, t) /\ procs'[p].slots[t] = d
      <3>1. PICK t \in Slots : Used(l, n, a, t) /\ procs[p].slots[t] = d
        BY <1>2, <1>3, <2>2, <2>3, <2>8 DEF RoomFor
      <3>2. CASE t = f
        BY <2>2, <2>5, <2>6, <3>1, <3>2
      <3>3. CASE t # f
        BY <2>2, <2>5, <3>1, <3>3
      <3> QED BY <3>2, <3>3
    <2>9. Ok(procs'[p])
      BY <1>3, <2>7, <2>8 DEF RoomFor
    <2> QED BY <1>6, <2>2, <2>9
  <1>12. ASSUME NEW op, Runs(p, op), op \notin {"close", "assign"}, Others(p), Onward(p), SameFiles(p)
         PROVE  Room'
    <2>1. Ok(procs'[p])
      BY <1>5, <1>12 DEF SameFiles
    <2> QED BY <1>6, <1>12, <2>1
  <1>13. ASSUME Others(p), procs'[p].state # "launcher" PROVE Room'
    <2>1. Ok(procs'[p])
      BY <1>13 DEF RoomFor
    <2> QED BY <1>6, <1>13, <2>1
  <1>14. CASE Execute(p)
    <2>1. Runs(p, "exec")
      BY <1>14 DEF Execute
    <2>2. Others(p) /\ \/ Onward(p) /\ SameFiles(p)
                       \/ procs'[p].state # "launcher"
      BY <1>14, DoesExec
    <2> QED BY <1>12, <1>13, <2>1, <2>2
  <1>15. CASE WaitFor(p)
    <2>1. Runs(p, "wait")
      BY <1>15 DEF WaitFor
    <2> QED BY <1>12, <1>15, <2>1, DoesWait
  <1>16. CASE ExitLauncher(p) \/ EndProgram(p)
    <2>1. Ends1(p)
      BY <1>16, DoesEnd DEF ExitLauncher, EndProgram
    <2> QED BY <1>13, <2>1 DEF Ends1
  <1>17. CASE ReadOnce(p)
    <2>1. Runs(p, "read")
      BY <1>17 DEF ReadOnce
    <2>2. Onward(p) /\ Moves1(p)
      BY <1>17, DoesReadOnce DEF Takes
    <2> QED BY <1>12, <2>1, <2>2 DEF Moves1
  <1>18. CASE ReadLoop(p)
    <2>1. Runs(p, "readAll")
      BY <1>18 DEF ReadLoop
    <2>2. Moves1(p) /\ (SamePlace(p) \/ Onward(p))
      BY <1>18, DoesReadLoop DEF Takes, Sees
    <2>3. CASE Onward(p)
      BY <1>12, <2>1, <2>2, <2>3 DEF Moves1
    <2>4. CASE SamePlace(p)
      <3>1. /\ procs'[p].at = procs[p].at /\ procs'[p].state = procs[p].state
            /\ procs'[p].slots = procs[p].slots /\ procs'[p].fds = procs[p].fds
        BY <2>2, <2>4 DEF Moves1, SamePlace, SameState, SameFiles
      <3>2. Ok(procs[p])
        BY <1>2
      <3>3. Ok(procs'[p])
        BY <3>1, <3>2 DEF RoomFor
      <3> QED BY <1>6, <2>2, <3>3 DEF Moves1
    <2> QED BY <2>2, <2>3, <2>4
  <1>19. CASE ReadInput(p) \/ WriteOutput(p)
    <2>1. procs[p].state = "program" /\ (Moves1(p) \/ Ends1(p))
      BY <1>19, DoesReadInput, DoesWrite DEF Takes, Sees, Puts
    <2>2. CASE Moves1(p)
      BY <1>13, <2>1, <2>2 DEF Moves1, SameState
    <2>3. CASE Ends1(p)
      BY <1>13, <2>3 DEF Ends1
    <2> QED BY <2>1, <2>2, <2>3
  <1> QED BY <1>7, <1>8, <1>9, <1>10, <1>11, <1>14, <1>15, <1>16, <1>17, <1>18, <1>19 DEF Process, Launch

\* Whoever has forked a process that still runs is in the launcher's own code, before
\* the place where it waits for that process.
AwaitedBy(T, r, k) ==
  r.state = "launcher" /\ r.inside = 0 /\ \E j \in r.at .. Len(T) : T[j] = Wait(k)
\* Every process that still runs is waited for.
WaitsCome ==
  \A c \in DOMAIN procs : c # 1 /\ Live(c) => AwaitedBy(Text, procs[procs[c].parent], procs[c].stage)

\* The instruction that waits.
LEMMA Waits == \A k : Wait(k).op = "wait" /\ Wait(k).stage = k
  BY DEF Wait

\* Nobody waits in a text that executes or ends at its own level.
LEMMA NoWaits ==
  ASSUME Typed, Placed, NEW p \in DOMAIN procs, NEW op \in {"exec", "exit"}, Runs(p, op),
         procs[p].inside = 0, NEW k
  PROVE  ~AwaitedBy(Text, procs[p], k)
  <1>1. /\ procs[p].at \in 1 .. Len(Text) /\ Instr(p).op = op
        /\ Ordered(launcher, Stages, procs[p].at, Instr(p))
    BY Running
  <1>2. \A j \in 1 .. Len(Text) : Text[j].op # "wait"
    BY <1>1, Context DEF Ordered, Typed
  <1>3. Len(Text) \in Nat
    BY Context DEF Typed
  <1> SUFFICES ASSUME NEW j \in procs[p].at .. Len(Text), Text[j] = Wait(k) PROVE FALSE
    BY DEF AwaitedBy
  <1>4. j \in 1 .. Len(Text)
    BY <1>1, <1>3
  <1> QED BY <1>2, <1>4, Waits

\* Every step keeps the waits to come.
LEMMA WaitsStep ==
  ASSUME Typed, Placed, Room, WaitsCome, Same, NEW p \in DOMAIN procs, Process(p)
  PROVE  WaitsCome'
  <1>1. Text' = Text /\ Len(Text) \in Nat
    BY TextStays, Context DEF Typed
  <1>2. \A c \in DOMAIN procs : c # 1 => procs[c].parent \in DOMAIN procs /\ procs[c].parent # c
    BY TypedProc DEF Typed
  <1>3. ASSUME procs[p].inside = 0, procs[p].at \in 1 .. Len(Text), Onward(p), SameState(p),
               Instr(p) = Text[procs[p].at], NEW k, AwaitedBy(Text, procs[p], k), Instr(p) # Wait(k)
        PROVE  AwaitedBy(Text, procs'[p], k)
    <2>1. procs'[p].at = procs[p].at + 1 /\ procs'[p].inside = 0 /\ procs'[p].state = procs[p].state
      BY <1>3 DEF Onward, InBodyYet, SameState
    <2>2. PICK j \in procs[p].at .. Len(Text) : Text[j] = Wait(k)
      BY <1>3 DEF AwaitedBy
    <2>3. j # procs[p].at
      BY <1>3, <2>2
    <2>4. j \in procs'[p].at .. Len(Text)
      BY <1>1, <1>3, <2>1, <2>3
    <2> QED BY <1>3, <2>1, <2>2, <2>4 DEF AwaitedBy
  <1>4. ASSUME \A c \in DOMAIN procs' : c # 1 /\ Live(c)' => AwaitedBy(Text, procs'[procs'[c].parent], procs'[c].stage)
        PROVE  WaitsCome'
    BY <1>1, <1>4 DEF WaitsCome
  <1>5. CASE ForkChild(p)
    <2> DEFINE d == Len(procs) + 1
    <2>1. /\ Grown(p) /\ SameKin(p) /\ SameState(p) /\ Onward(p)
          /\ procs'[d].parent = p /\ procs'[d].stage = Instr(p).stage
      BY <1>5, DoesFork
    <2>2. /\ procs[p].state = "launcher" /\ procs[p].inside = 0 /\ procs[p].at \in 1 .. Len(Text)
          /\ Instr(p) = Text[procs[p].at] /\ Instr(p).op = "fork"
          /\ procs'[p].at = procs[p].at + 1 /\ procs'[p].inside = 0
          /\ Ordered(launcher, Stages, procs[p].at, Instr(p))
      BY <1>5, Forker
    <2>3. \A k : Instr(p) # Wait(k)
      BY <2>2, Waits
    <2>4. ASSUME NEW c \in DOMAIN procs, c # 1, Live(c)'
          PROVE  AwaitedBy(Text, procs'[procs'[c].parent], procs'[c].stage)
      <3>1. procs'[c].parent = procs[c].parent /\ procs'[c].stage = procs[c].stage /\ procs'[c].state = procs[c].state
        BY <2>1 DEF Grown, SameKin, SameState
      <3>2. Live(c)
        BY <2>4, <3>1 DEF Live
      <3>3. AwaitedBy(Text, procs[procs[c].parent], procs[c].stage)
        BY <2>4, <3>2 DEF WaitsCome
      <3>4. CASE procs[c].parent = p
        BY <1>3, <2>1, <2>2, <2>3, <3>1, <3>3, <3>4
      <3>5. CASE procs[c].parent # p
        <4>1. procs'[procs[c].parent] = procs[procs[c].parent]
          BY <1>2, <2>1, <2>4, <3>5 DEF Grown
        <4> QED BY <3>1, <3>3, <4>1
      <3> QED BY <3>4, <3>5
    <2>5. AwaitedBy(Text, procs'[procs'[d].parent], procs'[d].stage)
      <3>1. \E j \in procs[p].at + 1 .. Len(Text) : Text[j] = Wait(Instr(p).stage)
        BY <2>2, Context DEF Ordered, Typed
      <3> QED BY <2>1, <2>2, <3>1 DEF AwaitedBy, SameState
    <2>6. DOMAIN procs' = DOMAIN procs \cup {d}
      BY <2>1 DEF Grown
    <2> HIDE DEF d
    <2> QED BY <1>4, <2>4, <2>5, <2>6
  <1>6. CASE ~ForkChild(p)
    <2>1. Others(p) /\ (StepsOn(p) \/ Rereads(p) \/ Starts(p) \/ Dies(p) \/ Computes(p))
      BY <1>6, Shape
    <2>2. /\ procs'[p].parent = procs[p].parent
          /\ Live(p)' => Live(p)
      BY <2>1 DEF StepsOn, Rereads, Starts, Dies, Computes, SameKin, SameState, Live, Runs
    <2> SUFFICES ASSUME NEW c \in DOMAIN procs, c # 1, Live(c)'
                 PROVE  AwaitedBy(Text, procs'[procs[c].parent], procs'[c].stage)
      BY <1>4, <2>1, <2>2 DEF Others
    <2>3. Live(c)
      BY <2>1, <2>2 DEF Others, Live
    <2>4. AwaitedBy(Text, procs[procs[c].parent], procs[c].stage)
      BY <2>3 DEF WaitsCome
    <2>5. procs[c].parent \in DOMAIN procs /\ procs[c].parent # c
      BY <1>2
    <2>6. CASE c = p
      <3>1. procs'[procs[c].parent] = procs[procs[c].parent]
        BY <2>1, <2>5, <2>6 DEF Others
      <3>2. procs'[p].stage = procs[p].stage
        <4>1. CASE Starts(p) /\ procs[p].inside # 0
          BY <4>1, Running DEF Starts
        <4>2. CASE Starts(p) /\ procs[p].inside = 0
          <5>1. Runs(p, "exec")
            BY <4>2 DEF Starts
          <5>2. /\ procs[p].at \in 1 .. Len(Text) /\ Instr(p).op = "exec"
                /\ Ordered(launcher, Stages, procs[p].at, Instr(p))
            BY <4>2, <5>1, Running
          <5>3. \A j \in 1 .. Len(Text) : Text[j].op # "wait"
            BY <5>2, Context DEF Ordered, Typed
          <5>4. PICK j \in procs[procs[c].parent].at .. Len(Text) : Text[j] = Wait(procs[c].stage)
            BY <2>4 DEF AwaitedBy
          <5>5. procs[procs[c].parent].at \in 1 .. Len(Text) + 1
            BY <2>5 DEF Placed
          <5>6. j \in 1 .. Len(Text)
            BY <1>1, <5>5
          <5> QED BY <5>3, <5>4, <5>6, Waits
        <4>3. CASE ~Starts(p)
          BY <2>1, <4>3 DEF StepsOn, Rereads, Dies, Computes, SameKin
        <4> QED BY <4>1, <4>2, <4>3
      <3> QED BY <2>4, <2>6, <3>1, <3>2
    <2>7. CASE c # p /\ procs[c].parent # p
      <3>1. procs'[c] = procs[c] /\ procs'[procs[c].parent] = procs[procs[c].parent]
        BY <2>1, <2>5, <2>7 DEF Others
      <3> QED BY <2>4, <3>1
    <2>8. CASE c # p /\ procs[c].parent = p
      <3>1. procs'[c] = procs[c]
        BY <2>1, <2>8 DEF Others
      <3>2. AwaitedBy(Text, procs[p], procs[c].stage) /\ procs[p].state = "launcher" /\ procs[p].inside = 0
        BY <2>4, <2>8 DEF AwaitedBy
      <3>3. CASE StepsOn(p)
        <4>1. PICK op : Runs(p, op)
          BY <3>3 DEF StepsOn
        <4>2. procs[p].at \in 1 .. Len(Text) /\ Instr(p) = Text[procs[p].at]
          BY <3>2, <4>1, Running
        <4>3. Instr(p) # Wait(procs[c].stage)
          <5>1. ASSUME Instr(p) = Wait(procs[c].stage) PROVE FALSE
            <6>1. Instr(p).op = "wait" /\ Instr(p).stage = procs[c].stage
              BY <5>1, Waits
            <6>2. c \in Children(p, Instr(p).stage)
              BY <2>8, <6>1 DEF Children
            <6> QED BY <2>3, <3>3, <6>1, <6>2 DEF StepsOn
          <5> QED BY <5>1
        <4>4. Onward(p) /\ SameState(p)
          BY <3>3 DEF StepsOn
        <4>5. AwaitedBy(Text, procs'[p], procs[c].stage)
          BY <1>3, <3>2, <4>2, <4>3, <4>4
        <4> QED BY <2>8, <3>1, <4>5
      <3>4. CASE Rereads(p)
        <4>1. /\ procs'[p].at = procs[p].at /\ procs'[p].inside = procs[p].inside
              /\ procs'[p].state = procs[p].state
          BY <3>4 DEF Rereads, SamePlace, SameState
        <4> QED BY <2>8, <3>1, <3>2, <4>1 DEF AwaitedBy
      <3>5. CASE Starts(p)
        <4>1. Runs(p, "exec")
          BY <3>5 DEF Starts
        <4> QED BY <3>2, <4>1, NoWaits
      <3>6. CASE Dies(p)
        <4>1. CASE procs[p].at <= Len(Text)
          <5>1. Runs(p, "exit")
            BY <3>2, <3>6, <4>1 DEF Dies, Runs
          <5> QED BY <3>2, <5>1, NoWaits
        <4>2. CASE ~(procs[p].at <= Len(Text))
          <5>1. procs[p].at \in Nat /\ procs[p].at .. Len(Text) = {}
            BY <1>1, <4>2, TypedProc
          <5> QED BY <3>2, <5>1 DEF AwaitedBy
        <4> QED BY <4>1, <4>2
      <3>7. CASE Computes(p)
        BY <3>2, <3>7 DEF Computes
      <3> QED BY <2>1, <3>3, <3>4, <3>5, <3>6, <3>7
    <2> QED BY <2>6, <2>7, <2>8
  <1> QED BY <1>5, <1>6

\* The first process that runs, of those that are not the launcher, is its child.
LEMMA FirstOfAll ==
  ASSUME Typed, WaitsCome, NEW S \in SUBSET DOMAIN procs, S # {}
  PROVE  \E c \in S : \A d \in S : c <= d
  <1>1. S \in SUBSET Nat
    BY TypedProc
  <1> QED BY <1>1, LeastElement

\* So nothing is left behind, by induction over the processes.
LEMMA NothingLeft ==
  ASSUME Typed, WaitsCome
  PROVE  NothingLeftBehind
  <1> SUFFICES ASSUME Returned, \E p \in DOMAIN procs : Live(p) PROVE FALSE
    BY DEF NothingLeftBehind
  <1> DEFINE S == {p \in DOMAIN procs : Live(p)}
  <1>1. PICK c \in S : \A d \in S : c <= d
    BY FirstOfAll
  <1>2. c # 1
    BY DEF Returned, Live
  <1>3. procs[c].parent \in 1 .. c - 1 /\ c \in 1 .. Len(procs) /\ Len(procs) \in Nat /\ DOMAIN procs = 1 .. Len(procs)
    BY <1>2, TypedProc DEF Typed
  <1>4. procs[procs[c].parent].state = "launcher"
    BY <1>2 DEF WaitsCome, AwaitedBy
  <1>5. procs[c].parent \in S /\ procs[c].parent < c
    BY <1>3, <1>4 DEF Live
  <1> QED BY <1>1, <1>3, <1>5

-----------------------------------------------------------------------------
(***************************************************************************)
(* The launcher itself, when there is something to connect.                *)
(***************************************************************************)
\* The process r has h in its slot s, or has never set that slot.
KnownIn(r, s, h) == IF h = Unset THEN r.slots[s] = -1 ELSE r.slots[s] > 2 /\ r.fds[r.slots[s]] = h

\* The launcher, whose text has t instructions: its slots hold what is known at its place,
\* and its first three descriptors stay as they were until every program is forked.
RootFor(l, n, t, r) ==
  /\ r.state \in {"launcher", "ended"} /\ r.inside = 0 /\ r.stage = 0 /\ r.wrote = 0
  /\ r.state = "ended" => r.at = t + 1
  /\ r.at <= t => \A s, h : Knows(l, n, r.at, s, h) => KnownIn(r, s, h)
  /\ r.at <= ForkAt(l, n, n) =>
       /\ r.took = 0 /\ ~r.eof /\ \A d \in 0 .. 2 : r.fds[d] = Terminal
\* The launcher is wired.
RootWired == RootFor(launcher, Stages, Len(Text), procs[1])

\* What the rules say of the launcher's instruction t at place a.
LEMMA RootRules ==
  ASSUME Typed, Placed, IsLinked, RootWired, NEW op, Runs(1, op)
  PROVE  LET a == procs[1].at
             t == Text[a]
         IN  /\ 1 \in DOMAIN procs /\ a \in 1 .. Len(Text) /\ procs[1].inside = 0 /\ Instr(1) = t /\ t.op = op
             /\ Fits(Stages, t) /\ Learns(launcher, Stages, a, t) /\ Orders(launcher, Stages, a, t)
             /\ Ordered(launcher, Stages, a, t)
             /\ ForkAt(launcher, Stages, Stages) \in 1 .. Len(Text) /\ Len(Text) \in Nat
  <1>1. 1 \in DOMAIN procs /\ procs[1].inside = 0
    BY DEF Typed, RootWired, RootFor
  <1>2. /\ procs[1].at \in 1 .. Len(Text) /\ Instr(1) = Text[procs[1].at] /\ Instr(1).op = op
        /\ Fits(Stages, Instr(1)) /\ Ordered(launcher, Stages, procs[1].at, Instr(1))
    BY <1>1, Running
  <1>3. /\ Stages \in Nat /\ Stages > 0 /\ Text = Code(launcher, Stages) /\ Len(Text) \in Nat
    BY Context DEF Typed
  <1>4. Forking(launcher, Stages)
    BY LinkedContext DEF Typed
  <1>5. Stages \in 1 .. Stages
    BY <1>3
  <1>6. ForkAt(launcher, Stages, Stages) \in 1 .. Len(Text)
    BY <1>3, <1>4, <1>5 DEF Forking
  <1>7. Learns(launcher, Stages, procs[1].at, Text[procs[1].at]) /\ Orders(launcher, Stages, procs[1].at, Text[procs[1].at])
    BY <1>2, LinkedContext DEF Typed
  <1> QED BY <1>1, <1>2, <1>3, <1>6, <1>7

\* Who the launcher is after a step to the next instruction.
LEMMA RootOn ==
  ASSUME Typed, Placed, IsLinked, RootWired, Same, NEW op, Runs(1, op),
         SameState(1), SameKin(1), Onward(1), procs'[1].wrote = procs[1].wrote,
         \A s, h : Knows(launcher, Stages, procs[1].at + 1, s, h) => KnownIn(procs'[1], s, h),
         procs[1].at < ForkAt(launcher, Stages, Stages) =>
           SameData(1) /\ \A d \in 0 .. 2 : procs'[1].fds[d] = Terminal
  PROVE  RootWired'
  <1>1. procs[1].at \in 1 .. Len(Text) /\ procs[1].inside = 0 /\ Len(Text) \in Nat
        /\ ForkAt(launcher, Stages, Stages) \in 1 .. Len(Text)
    BY RootRules
  <1>2. procs'[1].at = procs[1].at + 1 /\ procs'[1].inside = 0
    BY <1>1 DEF Onward, InBodyYet
  <1>3. Runs(1, op) => procs[1].state = "launcher"
    BY DEF Runs
  <1>4. /\ procs'[1].state = "launcher" /\ procs'[1].stage = 0 /\ procs'[1].wrote = 0
    BY <1>3 DEF RootWired, RootFor, SameState, SameKin
  <1>5. procs[1].at < ForkAt(launcher, Stages, Stages) => procs'[1].took = 0 /\ ~procs'[1].eof
    BY <1>1 DEF RootWired, RootFor, SameData
  <1>6. RootFor(launcher, Stages, Len(Text), procs'[1])
    BY <1>1, <1>2, <1>4, <1>5 DEF RootFor
  <1> QED BY <1>6, TextStays DEF RootWired

\* Every step keeps the launcher wired.
LEMMA RootStep ==
  ASSUME Typed, Placed, Room, IsLinked, RootWired, Same, NEW p \in DOMAIN procs, Process(p)
  PROVE  RootWired'
  <1> DEFINE a == procs[1].at
             F == ForkAt(launcher, Stages, Stages)
  <1>0. 1 \in DOMAIN procs /\ Stages \in Nat /\ Len(Text) \in Nat
    BY Context DEF Typed
  <1>1. ASSUME procs'[1] = procs[1] PROVE RootWired'
    BY <1>1, TextStays DEF RootWired
  <1>2. CASE p # 1
    <2>1. CASE ForkChild(p)
      <3>1. procs'[1] = procs[1]
        BY <1>0, <1>2, <2>1, DoesFork DEF Grown
      <3> QED BY <1>1, <3>1
    <2>2. CASE ~ForkChild(p)
      <3>1. procs'[1] = procs[1]
        BY <1>0, <1>2, <2>2, Shape DEF Others
      <3> QED BY <1>1, <3>1
    <2> QED BY <2>1, <2>2
  <1>3. CASE p = 1
    <2>1. /\ procs[1].state \in {"launcher", "ended"} /\ procs[1].inside = 0
          /\ a <= Len(Text) => \A s, h : Knows(launcher, Stages, a, s, h) => KnownIn(procs[1], s, h)
          /\ a <= F => \A d \in 0 .. 2 : procs[1].fds[d] = Terminal
      BY DEF RootWired, RootFor
    <2>2. /\ procs[1].slots \in [0 .. 2 * Stages + 2 -> Fds \cup {-1}]
          /\ Fds = 0 .. 2 + 2 * (Stages + 1) /\ Slots = 0 .. 2 * Stages + 2
      BY <1>0, TypedProc DEF SlotMaps, Fds, Slots
    <2>3. ASSUME NEW s \in Slots, procs[1].slots[s] > 2 PROVE procs[1].slots[s] \in Fds
      <3>1. procs[1].slots[s] \in Fds \cup {-1}
        BY <2>2
      <3> QED BY <2>3, <3>1
    <2>4. CASE MakePipe(1)
      <3>1. Runs(1, "pipe")
        BY <2>4 DEF MakePipe
      <3>2. PICK x, y \in Fds : x # y /\ procs[1].fds[x] = Nothing /\ procs[1].fds[y] = Nothing
        BY <1>0, <3>1, FreePair
      <3> DEFINE k == <<1, a>>
                 t == Text[a]
      <3>3. /\ a \in 1 .. Len(Text) /\ Instr(1) = t /\ t.op = "pipe" /\ t.slot \in 0 .. 2 * Stages + 1
            /\ Learns(launcher, Stages, a, t) /\ a < F /\ F \in 1 .. Len(Text)
        BY <3>1, RootRules DEF Fits, Orders
      <3>4. /\ SameKin(1) /\ SameState(1) /\ Onward(1) /\ SameData(1)
            /\ \E r, w \in Fds :
                  /\ r # w /\ procs[1].fds[r] = Nothing /\ procs[1].fds[w] = Nothing
                  /\ \A d \in Fds : procs'[1].fds[d] = IF d = r THEN ReadEnd(k)
                                                       ELSE IF d = w THEN WriteEnd(k)
                                                       ELSE procs[1].fds[d]
                  /\ \A s \in Slots : procs'[1].slots[s] = IF s = t.slot THEN r
                                                           ELSE IF s = t.slot + 1 THEN w
                                                           ELSE procs[1].slots[s]
        <4>1. LET j == <<1, procs[1].at>>
                  s0 == Instr(1).slot
              IN  /\ Others(1) /\ SameKin(1) /\ SameState(1) /\ Onward(1) /\ SameData(1)
                  /\ procs'[1] \in Procs
                  /\ DOMAIN pipes' = DOMAIN pipes \cup {j} /\ pipes'[j] = 0
                  /\ \A i \in DOMAIN pipes : i # j => pipes'[i] = pipes[i]
                  /\ \E r, w \in Fds :
                       /\ r # w /\ procs[1].fds[r] = Nothing /\ procs[1].fds[w] = Nothing
                       /\ \A d \in Fds : procs'[1].fds[d] = IF d = r THEN ReadEnd(j)
                                                            ELSE IF d = w THEN WriteEnd(j)
                                                            ELSE procs[1].fds[d]
                       /\ \A s \in Slots : procs'[1].slots[s] = IF s = s0 THEN r
                                                                ELSE IF s = s0 + 1 THEN w
                                                                ELSE procs[1].slots[s]
          BY ZenonT(60), <1>0, <2>4, <3>2, DoesPipe
        <4>2. Instr(1) = t
          BY <3>3
        <4> QED BY <4>1, <4>2
      <3>5. PICK r, w \in Fds :
                  /\ r # w /\ procs[1].fds[r] = Nothing /\ procs[1].fds[w] = Nothing
                  /\ \A d \in Fds : procs'[1].fds[d] = IF d = r THEN ReadEnd(k)
                                                       ELSE IF d = w THEN WriteEnd(k)
                                                       ELSE procs[1].fds[d]
                  /\ \A s \in Slots : procs'[1].slots[s] = IF s = t.slot THEN r
                                                           ELSE IF s = t.slot + 1 THEN w
                                                           ELSE procs[1].slots[s]
        BY <3>4
      <3>6. Terminal # Nothing /\ Unset # Nothing /\ (\A j : ReadEnd(j) # Unset /\ WriteEnd(j) # Unset)
            /\ Nothing.end \notin {"read", "write"}
        BY DEF Terminal, Nothing, Unset, ReadEnd, WriteEnd
      <3>7. /\ \A d \in 0 .. 2 : procs[1].fds[d] = Terminal
            /\ \A s, h : Knows(launcher, Stages, a, s, h) => KnownIn(procs[1], s, h)
        BY <1>0, <2>1, <3>3
      <3>8. r > 2 /\ w > 2
        BY <2>2, <3>5, <3>6, <3>7
      <3>9. \A d \in 0 .. 2 : procs'[1].fds[d] = Terminal
        BY <1>0, <2>2, <3>5, <3>7, <3>8
      <3>10. ASSUME NEW s, NEW h, Knows(launcher, Stages, a + 1, s, h) PROVE KnownIn(procs'[1], s, h)
        <4>1. \/ s = t.slot /\ h = ReadEnd(k)
              \/ s = t.slot + 1 /\ h = WriteEnd(k)
              \/ Knows(launcher, Stages, a, s, h) /\ s \notin {t.slot, t.slot + 1}
          BY <3>3, <3>10 DEF Learns
        <4>2. t.slot \in Slots /\ t.slot + 1 \in Slots /\ t.slot # t.slot + 1
          <5> DEFINE u == t.slot
          <5>1. u \in 0 .. 2 * Stages + 1
            BY <3>3
          <5> HIDE DEF u
          <5>2. u \in 0 .. 2 * Stages + 2 /\ u + 1 \in 0 .. 2 * Stages + 2 /\ u # u + 1
            BY SMTT(40), <1>0, <5>1
          <5> QED BY <2>2, <5>2 DEF u
        <4>3. CASE s = t.slot /\ h = ReadEnd(k)
          BY SMTT(40), <3>5, <3>6, <3>8, <4>2, <4>3 DEF KnownIn
        <4>4. CASE s = t.slot + 1 /\ h = WriteEnd(k)
          BY <3>5, <3>6, <3>8, <4>2, <4>4 DEF KnownIn
        <4>5. CASE Knows(launcher, Stages, a, s, h) /\ s \notin {t.slot, t.slot + 1}
          <5>1. /\ s \in Slots /\ (h = Unset \/ h.end \in {"read", "write"}) /\ KnownIn(procs[1], s, h)
            BY <2>2, <3>3, <3>7, <4>5 DEF Learns
          <5>2. procs'[1].slots[s] = procs[1].slots[s]
            BY <3>5, <4>5, <5>1
          <5>3. CASE h = Unset
            BY <5>1, <5>2, <5>3 DEF KnownIn
          <5>4. CASE h # Unset
            <6>1. h.end \in {"read", "write"} /\ procs[1].slots[s] > 2 /\ procs[1].fds[procs[1].slots[s]] = h
              BY <5>1, <5>4 DEF KnownIn
            <6>2. procs[1].slots[s] \in Fds /\ h # Nothing
              BY <2>3, <3>6, <5>1, <6>1
            <6>3. procs'[1].fds[procs[1].slots[s]] = h
              BY <3>5, <6>1, <6>2
            <6> QED BY <5>2, <5>4, <6>1, <6>3 DEF KnownIn
          <5> QED BY <5>3, <5>4
        <4> QED BY <4>1, <4>3, <4>4, <4>5
      <3>11. procs'[1].wrote = procs[1].wrote
        BY <3>4 DEF SameData
      <3> HIDE DEF a, F, t, k
      <3> QED BY <3>1, <3>4, <3>9, <3>10, <3>11, RootOn DEF a, F
    <2>5. CASE Redirect(1)
      <3>1. Runs(1, "dup2")
        BY <2>5 DEF Redirect
      <3>2. /\ a \in 1 .. Len(Text) /\ Text[a].op = "dup2" /\ Text[a].to \in 0 .. 2 /\ Instr(1) = Text[a]
            /\ Learns(launcher, Stages, a, Text[a]) /\ a > F /\ F \in 1 .. Len(Text)
        BY <3>1, RootRules DEF Fits, Orders
      <3>3. /\ SameKin(1) /\ SameState(1) /\ Onward(1) /\ SameData(1) /\ procs'[1].slots = procs[1].slots
            /\ \A d \in Fds : d # Text[a].to => procs'[1].fds[d] = procs[1].fds[d]
        BY <1>0, <2>5, <3>2, DoesDup2
      <3>4. ASSUME NEW s, NEW h, Knows(launcher, Stages, a + 1, s, h) PROVE KnownIn(procs'[1], s, h)
        <4>1. Knows(launcher, Stages, a, s, h) /\ s \in Slots
          BY <2>2, <3>2, <3>4 DEF Learns
        <4>2. KnownIn(procs[1], s, h)
          BY <2>1, <3>2, <4>1
        <4>3. procs[1].slots[s] > 2 => procs'[1].fds[procs[1].slots[s]] = procs[1].fds[procs[1].slots[s]]
          BY SMTT(40), <2>3, <3>2, <3>3, <4>1
        <4> QED BY <3>3, <4>2, <4>3 DEF KnownIn
      <3>5. ~(a < F) /\ procs'[1].wrote = procs[1].wrote
        BY <3>2, <3>3 DEF SameData
      <3> HIDE DEF a, F
      <3> QED BY <3>1, <3>3, <3>4, <3>5, RootOn DEF a, F
    <2>6. CASE CloseSlot(1)
      <3>1. Runs(1, "close")
        BY <2>6 DEF CloseSlot
      <3> DEFINE t == Text[a]
                 c == procs[1].slots[t.slot]
      <3>2. /\ a \in 1 .. Len(Text) /\ t.op = "close" /\ t.slot \in Slots /\ Instr(1) = t
            /\ Learns(launcher, Stages, a, t) /\ F \in 1 .. Len(Text)
        BY <2>2, <3>1, RootRules DEF Fits
      <3>3. /\ SameKin(1) /\ SameState(1) /\ Onward(1) /\ SameData(1) /\ procs'[1].slots = procs[1].slots
            /\ \A d \in Fds : procs'[1].fds[d] = IF d = c THEN Nothing ELSE procs[1].fds[d]
        BY <1>0, <2>6, <3>2, DoesClose
      <3>4. \A s, h : Knows(launcher, Stages, a, s, h) => KnownIn(procs[1], s, h)
        BY <2>1, <3>2
      <3>5. ASSUME NEW s, NEW h, Knows(launcher, Stages, a + 1, s, h) PROVE KnownIn(procs'[1], s, h)
        <4>1. Knows(launcher, Stages, a, s, h) /\ s \in Slots
          BY <2>2, <3>2, <3>5 DEF Learns
        <4>2. PICK g : Knows(launcher, Stages, a, t.slot, g) /\ (g = Unset \/ g # h)
          BY <3>2, <3>5 DEF Learns
        <4>3. KnownIn(procs[1], s, h) /\ KnownIn(procs[1], t.slot, g)
          BY <3>4, <4>1, <4>2
        <4>4. CASE h = Unset
          BY <3>3, <4>3, <4>4 DEF KnownIn
        <4>5. CASE h # Unset
          <5>1. procs[1].slots[s] > 2 /\ procs[1].fds[procs[1].slots[s]] = h /\ procs[1].slots[s] \in Fds
            BY <2>3, <4>1, <4>3, <4>5 DEF KnownIn
          <5>2. c # procs[1].slots[s]
            <6>1. CASE g = Unset
              BY <4>3, <5>1, <6>1 DEF KnownIn
            <6>2. CASE g # Unset
              BY <4>2, <4>3, <5>1, <6>2 DEF KnownIn
            <6> QED BY <6>1, <6>2
          <5>3. procs'[1].fds[procs[1].slots[s]] = h
            BY <3>3, <5>1, <5>2
          <5> QED BY <3>3, <4>5, <5>1, <5>3 DEF KnownIn
        <4> QED BY <4>4, <4>5
      <3>6. ASSUME a < F PROVE \A d \in 0 .. 2 : procs'[1].fds[d] = Terminal
        <4>1. PICK g : Knows(launcher, Stages, a, t.slot, g)
          BY <3>2, <3>6 DEF Learns
        <4>2. KnownIn(procs[1], t.slot, g)
          BY <3>4, <4>1
        <4>3. c = -1 \/ c > 2
          BY <4>2 DEF KnownIn
        <4>4. \A d \in 0 .. 2 : d \in Fds /\ d # c
          BY <1>0, <2>2, <4>3
        <4>5. a <= F
          BY <3>2, <3>6
        <4> QED BY <2>1, <3>3, <4>4, <4>5
      <3>7. procs'[1].wrote = procs[1].wrote
        BY <3>3 DEF SameData
      <3> HIDE DEF a, F, t, c
      <3> QED BY <3>1, <3>3, <3>5, <3>6, <3>7, RootOn DEF a, F
    <2>7. CASE AssignSlot(1)
      <3>1. Runs(1, "assign")
        BY <2>7 DEF AssignSlot
      <3> DEFINE t == Text[a]
      <3>2. /\ a \in 1 .. Len(Text) /\ t.op = "assign" /\ t.slot \in Slots /\ t.from \in Slots /\ Instr(1) = t
            /\ Learns(launcher, Stages, a, t) /\ F \in 1 .. Len(Text)
        BY <2>2, <3>1, RootRules DEF Fits
      <3>3. /\ SameKin(1) /\ SameState(1) /\ Onward(1) /\ SameData(1) /\ procs'[1].fds = procs[1].fds
            /\ \A s \in Slots : procs'[1].slots[s] = IF s = t.slot THEN procs[1].slots[t.from]
                                                     ELSE procs[1].slots[s]
        BY <1>0, <2>7, <3>2, DoesAssign
      <3>4. \A s, h : Knows(launcher, Stages, a, s, h) => KnownIn(procs[1], s, h)
        BY <2>1, <3>2
      <3>5. ASSUME NEW s, NEW h, Knows(launcher, Stages, a + 1, s, h) PROVE KnownIn(procs'[1], s, h)
        <4>1. \/ s = t.slot /\ Knows(launcher, Stages, a, t.from, h)
              \/ s # t.slot /\ Knows(launcher, Stages, a, s, h)
          BY SMTT(40), <3>2, <3>5 DEF Learns
        <4>2. CASE s = t.slot /\ Knows(launcher, Stages, a, t.from, h)
          <5>1. procs'[1].slots[s] = procs[1].slots[t.from] /\ KnownIn(procs[1], t.from, h)
            BY <3>2, <3>3, <3>4, <4>2
          <5> QED BY <3>3, <5>1 DEF KnownIn
        <4>3. CASE s # t.slot /\ Knows(launcher, Stages, a, s, h)
          <5>1. s \in Slots
            BY <2>2, <3>2, <4>3 DEF Learns
          <5>2. procs'[1].slots[s] = procs[1].slots[s] /\ KnownIn(procs[1], s, h)
            BY <3>3, <3>4, <4>3, <5>1
          <5> QED BY <3>3, <5>2 DEF KnownIn
        <4> QED BY <4>1, <4>2, <4>3
      <3>6. ASSUME a < F PROVE \A d \in 0 .. 2 : procs'[1].fds[d] = Terminal
        <4>1. a <= F
          BY <3>2, <3>6
        <4> QED BY <2>1, <3>3, <4>1
      <3>7. procs'[1].wrote = procs[1].wrote
        BY <3>3 DEF SameData
      <3> HIDE DEF a, F, t
      <3> QED BY <3>1, <3>3, <3>5, <3>6, <3>7, RootOn DEF a, F
    <2>8. ASSUME NEW op \in {"fork", "wait", "readAll"}, Runs(1, op), SameFiles(1)
          PROVE  /\ \A s, h : Knows(launcher, Stages, a + 1, s, h) => KnownIn(procs'[1], s, h)
                 /\ a < F => \A d \in 0 .. 2 : procs'[1].fds[d] = Terminal
      <3>1. /\ a \in 1 .. Len(Text) /\ Text[a].op = op /\ Learns(launcher, Stages, a, Text[a])
            /\ F \in 1 .. Len(Text)
        BY <2>8, RootRules
      <3>2. procs'[1].slots = procs[1].slots /\ procs'[1].fds = procs[1].fds
        BY <2>8 DEF SameFiles
      <3>3. \A s, h : Knows(launcher, Stages, a + 1, s, h) => Knows(launcher, Stages, a, s, h)
        BY <3>1 DEF Learns
      <3>4. \A s, h : Knows(launcher, Stages, a, s, h) => KnownIn(procs'[1], s, h)
        BY <2>1, <3>1, <3>2 DEF KnownIn
      <3>5. a < F => a <= F
        BY <3>1
      <3> QED BY <2>1, <3>2, <3>3, <3>4, <3>5
    <2>9. CASE ForkChild(1)
      <3>1. Runs(1, "fork")
        BY <2>9 DEF ForkChild
      <3>2. SameKin(1) /\ SameState(1) /\ Onward(1) /\ SameData(1) /\ SameFiles(1)
        BY <1>0, <2>9, DoesFork
      <3>3. procs'[1].wrote = procs[1].wrote
        BY <3>2 DEF SameData
      <3> HIDE DEF a, F
      <3> QED BY <2>8, <3>1, <3>2, <3>3, RootOn DEF a, F
    <2>10. CASE WaitFor(1)
      <3>1. Runs(1, "wait")
        BY <2>10 DEF WaitFor
      <3>2. SameKin(1) /\ SameState(1) /\ Onward(1) /\ SameData(1) /\ SameFiles(1)
        BY <1>0, <2>10, DoesWait
      <3>3. procs'[1].wrote = procs[1].wrote
        BY <3>2 DEF SameData
      <3> HIDE DEF a, F
      <3> QED BY <2>8, <3>1, <3>2, <3>3, RootOn DEF a, F
    <2>11. CASE Execute(1) \/ ReadOnce(1)
      <3>1. PICK op \in {"exec", "read"} : Runs(1, op)
        BY <2>11 DEF Execute, ReadOnce
      <3>2. Text[a].op = op /\ Orders(launcher, Stages, a, Text[a])
        BY <3>1, RootRules
      <3> QED BY <3>2 DEF Orders
    <2>12. CASE ReadLoop(1)
      <3>1. Runs(1, "readAll")
        BY <2>12 DEF ReadLoop
      <3>2. a \in 1 .. Len(Text) /\ F \in 1 .. Len(Text) /\ a > F
        BY <3>1, RootRules DEF Orders
      <3>3. \/ SamePlace(1) /\ Takes(1, procs[1].fds[0])
            \/ Onward(1) /\ Sees(1, procs[1].fds[0])
        BY <1>0, <2>12, DoesReadLoop
      <3>4. Moves1(1) /\ procs'[1].wrote = procs[1].wrote
        BY <3>3 DEF Takes, Sees
      <3>5. SameKin(1) /\ SameState(1) /\ SameFiles(1)
        BY <3>4 DEF Moves1
      <3>6. CASE Onward(1)
        <4>1. ~(a < F)
          BY <3>2
        <4> HIDE DEF a, F
        <4> QED BY <2>8, <3>1, <3>4, <3>5, <3>6, <4>1, RootOn DEF a, F
      <3>7. CASE SamePlace(1)
        <4>1. procs'[1].at = a /\ procs'[1].inside = procs[1].inside /\ ~(a <= F)
          BY <3>2, <3>7 DEF SamePlace
        <4>2. /\ procs'[1].slots = procs[1].slots /\ procs'[1].fds = procs[1].fds
              /\ procs'[1].state = procs[1].state /\ procs'[1].stage = procs[1].stage
          BY <3>5 DEF SameKin, SameState, SameFiles
        <4>3. RootFor(launcher, Stages, Len(Text), procs'[1])
          BY <3>4, <4>1, <4>2 DEF RootWired, RootFor, KnownIn
        <4> QED BY <4>3, TextStays DEF RootWired
      <3> QED BY <3>3, <3>6, <3>7
    <2>13. CASE ExitLauncher(1)
      <3>1. a > Len(Text)
        <4>1. ASSUME a <= Len(Text) PROVE FALSE
          <5>1. Runs(1, "exit")
            BY <2>13, <4>1 DEF ExitLauncher, Runs
          <5>2. Text[a].op = "exit" /\ Orders(launcher, Stages, a, Text[a])
            BY <5>1, RootRules
          <5> QED BY <5>2 DEF Orders
        <4> QED BY <1>0, <4>1, TypedProc
      <3>2. a = Len(Text) + 1
        BY <1>0, <3>1 DEF Placed
      <3>3. Ends1(1)
        BY <1>0, <2>13, DoesEnd DEF ExitLauncher
      <3>4. /\ procs'[1].state = "ended" /\ procs'[1].at = a /\ procs'[1].inside = procs[1].inside
            /\ procs'[1].stage = procs[1].stage /\ SameData(1) /\ procs'[1].fds = procs[1].fds
        BY <3>3 DEF Ends1, SameKin, SamePlace, SameFiles
      <3>5. ~(a <= Len(Text))
        BY <1>0, <3>2
      <3>6. RootFor(launcher, Stages, Len(Text), procs'[1])
        BY <3>2, <3>4, <3>5 DEF RootWired, RootFor, SameData
      <3> QED BY <3>6, TextStays DEF RootWired
    <2>14. CASE ReadInput(1) \/ WriteOutput(1) \/ EndProgram(1)
      BY <2>1, <2>14 DEF ReadInput, WriteOutput, EndProgram
    <2> QED BY <1>3, <2>4, <2>5, <2>6, <2>7, <2>9, <2>10, <2>11, <2>12, <2>13, <2>14 DEF Process, Launch
  <1> QED BY <1>2, <1>3

(***************************************************************************)
(* The children of the launcher: one for every fork it has passed.         *)
(***************************************************************************)
Forks ==
  /\ \A c \in DOMAIN procs : procs[c].parent = 1 =>
       procs[c].stage \in 1 .. Stages /\ procs[1].at > ForkAt(launcher, Stages, procs[c].stage)
  /\ \A k \in 1 .. Stages : procs[1].at > ForkAt(launcher, Stages, k) =>
       \E c \in DOMAIN procs : procs[c].parent = 1 /\ procs[c].stage = k
  /\ \A c, q \in DOMAIN procs :
       procs[c].parent = 1 /\ procs[q].parent = 1 /\ procs[c].stage = procs[q].stage => c = q

\* When there is something to connect, nobody changes the program it is there for.
LEMMA StageStays ==
  ASSUME Typed, Placed, Room, IsLinked, NEW p \in DOMAIN procs, Process(p), ~ForkChild(p)
  PROVE  Others(p) /\ procs'[p].parent = procs[p].parent /\ procs'[p].stage = procs[p].stage
  <1>1. Others(p) /\ (StepsOn(p) \/ Rereads(p) \/ Starts(p) \/ Dies(p) \/ Computes(p))
    BY Shape
  <1>2. CASE StepsOn(p) \/ Rereads(p) \/ Dies(p) \/ Computes(p)
    BY <1>1, <1>2 DEF StepsOn, Rereads, Dies, Computes, SameKin
  <1>3. CASE Starts(p)
    <2>1. Runs(p, "exec") /\ procs'[p].parent = procs[p].parent /\ procs'[p].stage = Instr(p).stage
      BY <1>3 DEF Starts
    <2>2. procs[p].inside # 0
      <3>1. ASSUME procs[p].inside = 0 PROVE FALSE
        <4>1. procs[p].at \in 1 .. Len(Text) /\ Text[procs[p].at].op = "exec"
          BY <2>1, <3>1, Running
        <4>2. Orders(launcher, Stages, procs[p].at, Text[procs[p].at])
          BY <4>1, LinkedContext DEF Typed
        <4> QED BY <4>1, <4>2 DEF Orders
      <3> QED BY <3>1
    <2>3. Instr(p).stage = procs[p].stage
      BY <2>1, <2>2, Running
    <2> QED BY <1>1, <2>1, <2>3
  <1> QED BY <1>1, <1>2, <1>3

\* The places of the forks.
LEMMA ForkPlaces ==
  ASSUME Typed, IsLinked
  PROVE  /\ \A k \in 1 .. Stages :
              /\ ForkAt(launcher, Stages, k) \in 1 .. Len(Text)
              /\ Text[ForkAt(launcher, Stages, k)].op = "fork"
              /\ Text[ForkAt(launcher, Stages, k)].stage = k
              /\ BodyRules(launcher, Stages, k)
         /\ \A j, k \in 1 .. Stages : j < k => ForkAt(launcher, Stages, j) < ForkAt(launcher, Stages, k)
         /\ Stages \in Nat /\ Stages > 0 /\ Len(Text) \in Nat
  <1>1. Stages \in Nat /\ Stages > 0 /\ Len(Text) \in Nat /\ Text = Code(launcher, Stages)
    BY Context DEF Typed
  <1>2. Forking(launcher, Stages) /\ Apart(launcher, Stages)
    BY LinkedContext DEF Typed
  <1>3. ASSUME NEW k \in 1 .. Stages
        PROVE  /\ ForkAt(launcher, Stages, k) \in 1 .. Len(Text)
               /\ Text[ForkAt(launcher, Stages, k)].op = "fork"
               /\ Text[ForkAt(launcher, Stages, k)].stage = k
               /\ BodyRules(launcher, Stages, k)
    <2>1. /\ ForkAt(launcher, Stages, k) \in 1 .. Len(Text) /\ BodyRules(launcher, Stages, k)
          /\ \E b : Text[ForkAt(launcher, Stages, k)] = Fork(k, b)
      BY <1>1, <1>2 DEF Forking
    <2>2. PICK b : Text[ForkAt(launcher, Stages, k)] = Fork(k, b)
      BY <2>1
    <2>3. Fork(k, b).op = "fork" /\ Fork(k, b).stage = k
      BY DEF Fork
    <2> QED BY <2>1, <2>2, <2>3
  <1> QED BY <1>1, <1>2, <1>3 DEF Apart

\* Every step keeps the children one for every fork.
LEMMA ForksStep ==
  ASSUME Typed, Placed, Room, IsLinked, RootWired, Forks, Same, NEW p \in DOMAIN procs, Process(p)
  PROVE  Forks'
  <1> DEFINE F(k) == ForkAt(launcher, Stages, k)
             N == Stages
  <1>1. ASSUME /\ \A c \in DOMAIN procs' : procs'[c].parent = 1 => procs'[c].stage \in 1 .. N /\ procs'[1].at > F(procs'[c].stage)
               /\ \A k \in 1 .. N : procs'[1].at > F(k) =>
                    \E c \in DOMAIN procs' : procs'[c].parent = 1 /\ procs'[c].stage = k
               /\ \A c, q \in DOMAIN procs' :
                    procs'[c].parent = 1 /\ procs'[q].parent = 1 /\ procs'[c].stage = procs'[q].stage => c = q
        PROVE  Forks'
    BY <1>1, TextStays DEF Forks
  <1>2. /\ \A k \in 1 .. N : F(k) \in 1 .. Len(Text) /\ Text[F(k)].op = "fork" /\ Text[F(k)].stage = k
        /\ N \in Nat /\ Len(Text) \in Nat
    BY ForkPlaces
  <1>3. 1 \in DOMAIN procs /\ procs[1].at \in Nat /\ procs[1].inside = 0
    BY TypedProc DEF Typed, RootWired, RootFor
  <1>4. /\ \A c \in DOMAIN procs : procs[c].parent = 1 => procs[c].stage \in 1 .. N /\ procs[1].at > F(procs[c].stage)
        /\ \A k \in 1 .. N : procs[1].at > F(k) =>
             \E c \in DOMAIN procs : procs[c].parent = 1 /\ procs[c].stage = k
        /\ \A c, q \in DOMAIN procs :
             procs[c].parent = 1 /\ procs[q].parent = 1 /\ procs[c].stage = procs[q].stage => c = q
    BY DEF Forks
  <1>5. CASE ForkChild(p)
    <2> DEFINE d == Len(procs) + 1
    <2>1. /\ DOMAIN procs' = DOMAIN procs \cup {d} /\ d \notin DOMAIN procs
          /\ \A c \in DOMAIN procs : c # p => procs'[c] = procs[c]
          /\ procs'[p].parent = procs[p].parent /\ procs'[p].stage = procs[p].stage
          /\ procs'[d].parent = p /\ procs'[d].stage = Instr(p).stage
      BY <1>5, DoesFork DEF Grown, SameKin
    <2> HIDE DEF d
    <2>2. \A c \in DOMAIN procs : procs'[c].parent = procs[c].parent /\ procs'[c].stage = procs[c].stage
      BY <2>1
    <2>3. CASE p # 1
      <3>1. procs'[1] = procs[1] /\ procs'[d].parent # 1
        BY <1>3, <2>1, <2>3
      <3>2. \A c \in DOMAIN procs' : procs'[c].parent = 1 => c \in DOMAIN procs
        BY <2>1, <3>1
      <3> HIDE DEF F, N
      <3> QED BY <1>1, <1>4, <2>1, <2>2, <3>1, <3>2
    <2>4. CASE p = 1
      <3> DEFINE a == procs[1].at
                 k == Text[a].stage
      <3>1. Instr(p) = Text[procs[p].at] /\ procs'[p].at = procs[p].at + 1 /\ Runs(p, "fork")
        BY <1>5, Forker DEF ForkChild
      <3>2. Runs(1, "fork")
        BY <2>4, <3>1
      <3>3. k \in 1 .. N /\ a = F(k) /\ procs'[1].at = a + 1 /\ procs'[d].parent = 1 /\ procs'[d].stage = k
        BY <2>1, <2>4, <3>1, <3>2, RootRules DEF Orders
      <3>4. \A j \in 1 .. N : F(j) = a => j = k
        BY <1>2
      <3> HIDE DEF F, N, k
      <3>5. \A c \in DOMAIN procs : procs[c].parent = 1 => procs[c].stage # k
        BY <1>2, <1>3, <1>4, <3>3
      <3>6. \A c \in DOMAIN procs' : procs'[c].parent = 1 => procs'[c].stage \in 1 .. N /\ procs'[1].at > F(procs'[c].stage)
        <4>1. ASSUME NEW c \in DOMAIN procs, procs[c].parent = 1
              PROVE  procs'[c].stage \in 1 .. N /\ procs'[1].at > F(procs'[c].stage)
          <5>1. procs[c].stage \in 1 .. N /\ a > F(procs[c].stage) /\ F(procs[c].stage) \in Nat
            BY <1>2, <1>4, <4>1
          <5>2. a + 1 > F(procs[c].stage)
            BY <1>3, <5>1
          <5> QED BY <2>2, <3>3, <5>1, <5>2
        <4>2. procs'[1].at > F(k) /\ procs'[d].stage = k
          BY <1>3, <3>3
        <4> QED BY <2>1, <2>2, <3>3, <4>1, <4>2
      <3>7. ASSUME NEW j \in 1 .. N, procs'[1].at > F(j)
            PROVE  \E c \in DOMAIN procs' : procs'[c].parent = 1 /\ procs'[c].stage = j
        <4>1. CASE j = k
          BY <2>1, <3>3, <4>1
        <4>2. CASE j # k
          <5>1. F(j) \in Nat /\ F(j) # a /\ a + 1 > F(j)
            BY <1>2, <3>3, <3>4, <3>7, <4>2
          <5>2. a > F(j)
            BY <1>3, <5>1
          <5>3. PICK c \in DOMAIN procs : procs[c].parent = 1 /\ procs[c].stage = j
            BY <1>4, <5>2
          <5> QED BY <2>1, <2>2, <5>3
        <4> QED BY <4>1, <4>2
      <3>8. ASSUME NEW c \in DOMAIN procs', NEW q \in DOMAIN procs', procs'[c].parent = 1, procs'[q].parent = 1,
                   procs'[c].stage = procs'[q].stage
            PROVE  c = q
        BY <1>4, <2>1, <2>2, <3>3, <3>5, <3>8
      <3> QED BY <1>1, <3>6, <3>7, <3>8
    <2> QED BY <2>3, <2>4
  <1>6. CASE ~ForkChild(p)
    <2>1. Others(p) /\ procs'[p].parent = procs[p].parent /\ procs'[p].stage = procs[p].stage
      BY <1>6, StageStays
    <2>2. /\ DOMAIN procs' = DOMAIN procs
          /\ \A c \in DOMAIN procs : procs'[c].parent = procs[c].parent /\ procs'[c].stage = procs[c].stage
      BY <2>1 DEF Others
    <2>3. /\ procs'[1].at \in Nat /\ procs'[1].at >= procs[1].at
          /\ \A k \in 1 .. N : procs'[1].at > F(k) => procs[1].at > F(k)
      <3>1. CASE p # 1
        BY <1>3, <2>1, <3>1 DEF Others
      <3>2. CASE p = 1 /\ StepsOn(p)
        <4>1. PICK op \in {"pipe", "dup2", "close", "assign", "exec", "wait", "read", "readAll"} : Runs(1, op)
          BY <3>2 DEF StepsOn
        <4>2. Text[procs[1].at].op = op
          BY <4>1, RootRules
        <4>3. procs'[1].at = procs[1].at + 1
          BY <1>3, <3>2 DEF StepsOn, Onward, InBodyYet
        <4>4. \A k \in 1 .. N : F(k) # procs[1].at /\ F(k) \in Nat
          BY <1>2, <4>2
        <4> HIDE DEF F
        <4> QED BY <1>3, <4>3, <4>4
      <3>3. CASE p = 1 /\ ~StepsOn(p)
        <4>1. SamePlace(p)
          BY <1>6, <3>3, Shape DEF Rereads, Starts, Dies, Computes
        <4> QED BY <1>3, <3>3, <4>1 DEF SamePlace
      <3> QED BY <3>1, <3>2, <3>3
    <2> HIDE DEF F, N
    <2>4. ASSUME NEW c \in DOMAIN procs', procs'[c].parent = 1
          PROVE  procs'[c].stage \in 1 .. N /\ procs'[1].at > F(procs'[c].stage)
      <3>1. procs[c].stage \in 1 .. N /\ procs[1].at > F(procs[c].stage) /\ F(procs[c].stage) \in Nat
        BY <1>2, <1>4, <2>2, <2>4
      <3>2. procs'[1].at > F(procs[c].stage)
        BY <1>3, <2>3, <3>1
      <3> QED BY <2>2, <2>4, <3>1, <3>2
    <2>5. ASSUME NEW k \in 1 .. N, procs'[1].at > F(k)
          PROVE  \E c \in DOMAIN procs' : procs'[c].parent = 1 /\ procs'[c].stage = k
      BY <1>4, <2>2, <2>3, <2>5
    <2> QED BY <1>1, <1>4, <2>2, <2>4, <2>5
  <1> QED BY <1>5, <1>6

(***************************************************************************)
(* A child of the launcher whose program can be executed: it is in the     *)
(* body of its fork, with the descriptors that body has got to, or it is   *)
(* its program, connected as it should be.                                 *)
(***************************************************************************)
ForkedFor(l, n, r) ==
  /\ r.inside # 0 /\ r.at = ForkAt(l, n, r.stage)
  /\ r.took = 0 /\ r.wrote = 0 /\ ~r.eof
  /\ \A x \in 1 .. r.inside - 1 : Body(l, n, r.stage)[x].op # "exec"
  /\ \A s, h : Left(l, n, r.stage, r.inside, s, h) => KnownIn(r, s, h)
  /\ \A d \in 0 .. 2 :
       /\ \A h : Moved(l, n, r.stage, r.inside, d, h) => r.fds[d] = h
       /\ Unmoved(l, n, r.stage, r.inside, d) => r.fds[d] = Terminal
PlumbedFor(l, n, r) == r.fds[0] = Input(l, r.stage) /\ r.fds[OutFd(l)] = Target(l, n, r.stage)
ChildFor(l, n, r) ==
  /\ r.state = "launcher" => ForkedFor(l, n, r)
  /\ r.state = "program" => PlumbedFor(l, n, r)
ChildrenWired ==
  \A c \in DOMAIN procs : procs[c].parent = 1 /\ line[procs[c].stage].known =>
    ChildFor(launcher, Stages, procs[c])

\* The handles that are no end of a pipe.
LEMMA HandleEnds ==
  /\ Nothing.end = "closed" /\ Unset.end = "unset" /\ Terminal.end = "terminal"
  /\ \A h : h.end \in {"read", "write"} => h # Nothing /\ h # Unset
  BY DEF Nothing, Unset, Terminal

\* What the rules say of the instruction of such a child: the body does not end before
\* the program is executed.
LEMMA ChildRules ==
  ASSUME Typed, Placed, IsLinked, Forks, ChildrenWired,
         NEW c \in DOMAIN procs, procs[c].parent = 1, line[procs[c].stage].known,
         procs[c].state = "launcher"
  PROVE  LET k == procs[c].stage
             b == procs[c].inside
             B == Body(launcher, Stages, k)
         IN  /\ k \in 1 .. Stages /\ b \in 1 .. Len(B) /\ Len(B) \in Nat /\ BodyRules(launcher, Stages, k)
             /\ Instr(c) = B[b] /\ B[b].op \in {"dup2", "close", "exec"}
             /\ ForkedFor(launcher, Stages, procs[c])
             /\ B[b].op # "exec" => InBodyYet(c)
             /\ procs[c].at <= Len(Text)
  <1> DEFINE k == procs[c].stage
             b == procs[c].inside
             B == Body(launcher, Stages, k)
  <1>1. k \in 1 .. Stages /\ ForkedFor(launcher, Stages, procs[c])
    BY DEF Forks, ChildrenWired, ChildFor
  <1>2. /\ Text = Code(launcher, Stages) /\ procs[c].at = ForkAt(launcher, Stages, k) /\ b # 0
    BY <1>1, Context DEF Typed, ForkedFor
  <1>3. Text[procs[c].at].body = B
    BY <1>2 DEF Body
  <1>4. b \in 1 .. Len(B) /\ procs[c].at \in 1 .. Len(Text)
    BY <1>2, <1>3 DEF Placed
  <1>5. BodyRules(launcher, Stages, k)
    BY <1>1, ForkPlaces
  <1>6. \A x \in 1 .. b - 1 : B[x].op # "exec"
    BY <1>1 DEF ForkedFor
  <1>7. B[b].op \in {"dup2", "close", "exec"}
    BY <1>4, <1>5, <1>6 DEF BodyRules
  <1>8. PICK x \in 1 .. Len(B) : B[x].op = "exec"
    BY <1>5 DEF BodyRules
  <1>9. Len(B) \in Nat
    <2>1. procs[c].at \in 1 .. Len(Text) /\ Text[procs[c].at].op = "fork"
      BY <1>2, <1>4 DEF Placed
    <2>2. InBody(Stages, Text[procs[c].at].stage, Text[procs[c].at].body)
      BY <2>1, Context DEF Typed, Ordered
    <2>3. B \in Seq({B[i] : i \in 1 .. Len(B)})
      BY <1>3, <2>2 DEF InBody
    <2> HIDE DEF B
    <2> QED BY <2>3, LenProperties
  <1>10. ASSUME B[b].op # "exec" PROVE InBodyYet(c)
    <2> HIDE DEF B, b
    <2>1. x # b /\ ~(x \in 1 .. b - 1)
      BY <1>6, <1>8, <1>10
    <2>2. b < Len(B)
      BY <1>4, <1>8, <1>9, <2>1
    <2> QED BY <1>2, <1>3, <2>2 DEF InBodyYet, b
  <1>11. Instr(c) = B[b]
    BY <1>2, <1>3 DEF Instr
  <1> QED BY <1>1, <1>4, <1>5, <1>7, <1>9, <1>10, <1>11

\* Nobody knows two things of one slot.
LEMMA OneFact ==
  ASSUME Typed, IsLinked, NEW k \in 1 .. Stages, NEW s, NEW h,
         Facts(launcher, Stages, k, s, h)
  PROVE  /\ s \in Slots /\ (h = Unset \/ h.end \in {"read", "write"})
         /\ \A g : Facts(launcher, Stages, k, s, g) => g = h
  <1>1. ForkAt(launcher, Stages, k) \in 1 .. Len(Text)
    BY ForkPlaces
  <1>2. Learns(launcher, Stages, ForkAt(launcher, Stages, k), Text[ForkAt(launcher, Stages, k)])
    BY <1>1, LinkedContext DEF Typed
  <1> QED BY <1>2 DEF Learns, Facts, Slots

\* A child that is forked knows what the launcher knew.
LEMMA ChildStarts ==
  ASSUME Typed, Placed, IsLinked, RootWired, Same, ForkChild(1)
  PROVE  ChildFor(launcher, Stages, procs'[Len(procs) + 1])
  <1> DEFINE a == procs[1].at
             k == Text[a].stage
             r == procs'[Len(procs) + 1]
             F(i) == ForkAt(launcher, Stages, i)
  <1>1. 1 \in DOMAIN procs
    BY DEF Typed
  <1>2. Runs(1, "fork")
    BY DEF ForkChild
  <1>3. /\ a \in 1 .. Len(Text) /\ Instr(1) = Text[a] /\ k \in 1 .. Stages /\ a = F(k)
    BY <1>2, RootRules DEF Orders
  <1>4. /\ r.stage = k /\ r.state = procs[1].state /\ r.at = a /\ r.inside = 1
        /\ r.slots = procs[1].slots /\ r.fds = procs[1].fds
        /\ r.took = procs[1].took /\ r.wrote = procs[1].wrote /\ r.eof = procs[1].eof
    BY <1>1, <1>3, DoesFork
  <1>5. procs[1].state = "launcher"
    BY <1>2 DEF Runs
  <1>6. a <= F(Stages)
    <2>1. F(k) \in 1 .. Len(Text) /\ Len(Text) \in Nat /\ (k < Stages => F(k) < F(Stages)) /\ F(Stages) \in 1 .. Len(Text)
      BY <1>3, ForkPlaces
    <2>2. k = Stages \/ k < Stages
      BY <1>3, ForkPlaces
    <2> HIDE DEF F, k
    <2> QED BY <1>3, <2>1, <2>2
  <1>7. /\ procs[1].wrote = 0 /\ procs[1].took = 0 /\ ~procs[1].eof
        /\ \A d \in 0 .. 2 : procs[1].fds[d] = Terminal
        /\ \A s, h : Knows(launcher, Stages, a, s, h) => KnownIn(procs[1], s, h)
    <2>1. Len(Text) \in Nat /\ a <= Len(Text)
      BY <1>3, ForkPlaces
    <2> QED BY <1>6, <2>1 DEF RootWired, RootFor
  <1> HIDE DEF r
  <1>8. \A s, h : Left(launcher, Stages, k, 1, s, h) => KnownIn(r, s, h)
    BY <1>3, <1>4, <1>7 DEF Left, Facts, KnownIn
  <1>9. \A d : \A h : ~Moved(launcher, Stages, k, 1, d, h)
    BY DEF Moved
  <1>10. ForkedFor(launcher, Stages, r)
    BY <1>3, <1>4, <1>7, <1>8, <1>9 DEF ForkedFor
  <1> QED BY <1>4, <1>5, <1>10 DEF ChildFor, r

\* The three instructions of such a child.
LEMMA ChildDup2 ==
  ASSUME Typed, Placed, IsLinked, Forks, ChildrenWired, Same,
         NEW c \in DOMAIN procs, procs[c].parent = 1, line[procs[c].stage].known, Redirect(c)
  PROVE  ChildFor(launcher, Stages, procs'[c])
  <1> DEFINE k == procs[c].stage
             b == procs[c].inside
             B == Body(launcher, Stages, k)
             l == launcher
             n == Stages
             q == procs'[c]
  <1>1. Runs(c, "dup2") /\ procs[c].state = "launcher"
    BY DEF Redirect, Runs
  <1>2. /\ k \in 1 .. n /\ b \in 1 .. Len(B) /\ Len(B) \in Nat /\ BodyRules(l, n, k)
        /\ Instr(c) = B[b] /\ ForkedFor(l, n, procs[c])
        /\ B[b].op # "exec" => InBodyYet(c)
    BY <1>1, ChildRules
  <1>3. Instr(c).op = "dup2" /\ Fits(n, Instr(c))
    BY <1>1, Running
  <1>4. B[b].op = "dup2" /\ B[b].to \in 0 .. 2 /\ InBodyYet(c)
    BY <1>2, <1>3 DEF Fits
  <1>5. PICK g : Left(l, n, k, b, B[b].slot, g) /\ g.end \in {"read", "write"}
    BY <1>2, <1>4 DEF BodyRules
  <1>6. KnownIn(procs[c], B[b].slot, g) /\ Facts(l, n, k, B[b].slot, g)
    BY <1>2, <1>5 DEF ForkedFor, Left
  <1>7. g # Nothing /\ g # Unset
    BY SMTT(40), <1>5, HandleEnds
  <1>8. procs[c].slots[B[b].slot] > 2 /\ procs[c].fds[procs[c].slots[B[b].slot]] = g
    BY <1>6, <1>7 DEF KnownIn
  <1>9. \A s \in Slots : procs[c].slots[s] > 2 => procs[c].slots[s] \in Fds
    <2>1. procs[c].slots \in [Slots -> Fds \cup {-1}]
      BY TypedProc DEF SlotMaps
    <2>2. \A s \in Slots : procs[c].slots[s] \in Fds \cup {-1}
      BY <2>1
    <2> QED BY <2>2
  <1>10. B[b].slot \in Slots /\ \A h : Facts(l, n, k, B[b].slot, h) => h = g
    BY <1>2, <1>6, OneFact
  <1>11. Handle(c, Instr(c).slot) = g
    BY <1>2, <1>8, <1>9, <1>10 DEF Handle
  <1>12. /\ SameKin(c) /\ SameState(c) /\ Onward(c) /\ SameData(c) /\ q.slots = procs[c].slots
         /\ \A d \in Fds : q.fds[d] = IF d = B[b].to THEN g ELSE procs[c].fds[d]
    <2>1. LET h == Handle(c, Instr(c).slot)
          IN  /\ Others(c) /\ SameKin(c) /\ SameState(c) /\ Onward(c) /\ SameData(c) /\ SamePipes
              /\ procs'[c] \in Procs /\ procs'[c].slots = procs[c].slots
              /\ \A d \in Fds : procs'[c].fds[d] = IF d = Instr(c).to /\ h # Nothing THEN h ELSE procs[c].fds[d]
              /\ h = Nothing \/ \E d \in Fds : h = procs[c].fds[d]
      BY DoesDup2
    <2> QED BY <1>2, <1>7, <1>11, <2>1
  <1>13. /\ q.stage = k /\ q.state = "launcher" /\ q.at = procs[c].at /\ q.inside = b + 1
         /\ q.took = procs[c].took /\ q.wrote = procs[c].wrote /\ q.eof = procs[c].eof
    BY <1>1, <1>4, <1>12 DEF SameKin, SameState, Onward, SameData
  <1>14. /\ b # 0 /\ procs[c].at = ForkAt(l, n, k) /\ procs[c].took = 0 /\ procs[c].wrote = 0 /\ ~procs[c].eof
         /\ \A x \in 1 .. b - 1 : B[x].op # "exec"
         /\ \A s, h : Left(l, n, k, b, s, h) => KnownIn(procs[c], s, h)
         /\ \A d \in 0 .. 2 :
              /\ \A h : Moved(l, n, k, b, d, h) => procs[c].fds[d] = h
              /\ Unmoved(l, n, k, b, d) => procs[c].fds[d] = Terminal
    BY <1>2 DEF ForkedFor
  <1>15. /\ 0 .. 2 \subseteq Fds /\ b \in Nat /\ b > 0 /\ (b + 1) - 1 = b /\ b + 1 # 0
         /\ \A x \in 1 .. b : x = b \/ x \in 1 .. b - 1
         /\ \A x \in 1 .. b - 1 : x \in 1 .. b
    <2> HIDE DEF B, b
    <2>1. n \in Nat /\ b \in Nat /\ b > 0
      BY <1>2, ForkPlaces
    <2> QED BY <2>1 DEF Fds
  <1>00. B = Body(l, n, k)
    OBVIOUS
  <1> HIDE DEF B, b, k, l, n, q
  <1>16. \A x \in 1 .. b : B[x].op # "exec"
    BY <1>4, <1>14, <1>15
  <1>17. ASSUME NEW s, NEW h, Left(l, n, k, b + 1, s, h) PROVE KnownIn(q, s, h)
    <2>1. Left(l, n, k, b, s, h) /\ Facts(l, n, k, s, h)
      BY <1>15, <1>17 DEF Left
    <2>2. KnownIn(procs[c], s, h) /\ s \in Slots
      BY <1>2, <1>14, <2>1, OneFact DEF n, l
    <2>3. procs[c].slots[s] > 2 => q.fds[procs[c].slots[s]] = procs[c].fds[procs[c].slots[s]]
      BY <1>4, <1>9, <1>12, <2>2
    <2> QED BY <1>12, <2>2, <2>3 DEF KnownIn
  <1>18. ASSUME NEW d \in 0 .. 2, NEW h, Moved(l, n, k, b + 1, d, h) PROVE q.fds[d] = h
    <2>1. PICK y \in 1 .. b : Moves(l, n, k, y, d) /\ Facts(l, n, k, B[y].slot, h)
      BY <1>00, <1>15, <1>18 DEF Moved
    <2>2. CASE y = b
      <3>1. d = B[b].to /\ h = g
        BY <1>00, <1>10, <2>1, <2>2 DEF Moves
      <3> QED BY <1>12, <1>15, <3>1
    <2>3. CASE y # b
      <3>1. y \in 1 .. b - 1
        BY <1>15, <2>1, <2>3
      <3>2. Moved(l, n, k, b, d, h)
        BY <1>00, <2>1, <3>1 DEF Moved
      <3>3. d # B[b].to
        <4>1. ASSUME d = B[b].to PROVE FALSE
          <5>1. Moves(l, n, k, b, d)
            BY <1>00, <1>4, <4>1 DEF Moves
          <5>2. y \in 1 .. Len(B) /\ b \in 1 .. Len(B)
            BY <1>2, <2>1
          <5> QED BY <1>00, <1>2, <2>1, <2>3, <5>1, <5>2 DEF BodyRules
        <4> QED BY <4>1
      <3>4. q.fds[d] = procs[c].fds[d]
        BY <1>12, <1>15, <3>3
      <3> QED BY <1>14, <3>2, <3>4
    <2> QED BY <2>2, <2>3
  <1>19. ASSUME NEW d \in 0 .. 2, Unmoved(l, n, k, b + 1, d) PROVE q.fds[d] = Terminal
    <2>1. Unmoved(l, n, k, b, d) /\ ~Moves(l, n, k, b, d)
      BY <1>15, <1>19 DEF Unmoved
    <2>2. d # B[b].to
      BY <1>00, <1>4, <2>1 DEF Moves
    <2>3. q.fds[d] = procs[c].fds[d]
      BY <1>12, <1>15, <2>2
    <2> QED BY <1>14, <2>1, <2>3
  <1>20. ForkedFor(l, n, q)
    BY <1>00, <1>13, <1>14, <1>15, <1>16, <1>17, <1>18, <1>19 DEF ForkedFor
  <1> QED BY <1>13, <1>20 DEF ChildFor, l, n, q

\* close () in the body.
LEMMA ChildClose ==
  ASSUME Typed, Placed, IsLinked, Forks, ChildrenWired, Same,
         NEW c \in DOMAIN procs, procs[c].parent = 1, line[procs[c].stage].known, CloseSlot(c)
  PROVE  ChildFor(launcher, Stages, procs'[c])
  <1> DEFINE k == procs[c].stage
             b == procs[c].inside
             B == Body(launcher, Stages, k)
             l == launcher
             n == Stages
             q == procs'[c]
             e == procs[c].slots[B[b].slot]
  <1>1. Runs(c, "close") /\ procs[c].state = "launcher"
    BY DEF CloseSlot, Runs
  <1>2. /\ k \in 1 .. n /\ b \in 1 .. Len(B) /\ Len(B) \in Nat /\ BodyRules(l, n, k)
        /\ Instr(c) = B[b] /\ ForkedFor(l, n, procs[c])
        /\ B[b].op # "exec" => InBodyYet(c)
    BY <1>1, ChildRules
  <1>3. Instr(c).op = "close"
    BY <1>1, Running
  <1>4. B[b].op = "close" /\ InBodyYet(c)
    BY <1>2, <1>3
  <1>5. PICK g : Left(l, n, k, b, B[b].slot, g) /\ g.end \in {"read", "write"}
    BY SMTT(40), <1>2, <1>4 DEF BodyRules
  <1>6. KnownIn(procs[c], B[b].slot, g) /\ Facts(l, n, k, B[b].slot, g)
    BY <1>2, <1>5 DEF ForkedFor, Left
  <1>7. g # Nothing /\ g # Unset
    BY <1>5, HandleEnds
  <1>8. e > 2 /\ procs[c].fds[e] = g
    BY <1>6, <1>7 DEF KnownIn
  <1>9. \A s \in Slots : procs[c].slots[s] > 2 => procs[c].slots[s] \in Fds
    <2>1. procs[c].slots \in [Slots -> Fds \cup {-1}]
      BY TypedProc DEF SlotMaps
    <2>2. \A s \in Slots : procs[c].slots[s] \in Fds \cup {-1}
      BY <2>1
    <2> QED BY <2>2
  <1>12. /\ SameKin(c) /\ SameState(c) /\ Onward(c) /\ SameData(c) /\ q.slots = procs[c].slots
         /\ \A d \in Fds : q.fds[d] = IF d = e THEN Nothing ELSE procs[c].fds[d]
    <2>1. LET i == procs[c].slots[Instr(c).slot]
          IN  /\ Others(c) /\ SameKin(c) /\ SameState(c) /\ Onward(c) /\ SameData(c) /\ SamePipes
              /\ procs'[c] \in Procs /\ procs'[c].slots = procs[c].slots
              /\ \A d \in Fds : procs'[c].fds[d] = IF d = i THEN Nothing ELSE procs[c].fds[d]
      BY DoesClose
    <2> QED BY <1>2, <2>1
  <1>13. /\ q.stage = k /\ q.state = "launcher" /\ q.at = procs[c].at /\ q.inside = b + 1
         /\ q.took = procs[c].took /\ q.wrote = procs[c].wrote /\ q.eof = procs[c].eof
    BY <1>1, <1>4, <1>12 DEF SameKin, SameState, Onward, SameData
  <1>14. /\ b # 0 /\ procs[c].at = ForkAt(l, n, k) /\ procs[c].took = 0 /\ procs[c].wrote = 0 /\ ~procs[c].eof
         /\ \A x \in 1 .. b - 1 : B[x].op # "exec"
         /\ \A s, h : Left(l, n, k, b, s, h) => KnownIn(procs[c], s, h)
         /\ \A d \in 0 .. 2 :
              /\ \A h : Moved(l, n, k, b, d, h) => procs[c].fds[d] = h
              /\ Unmoved(l, n, k, b, d) => procs[c].fds[d] = Terminal
    BY <1>2 DEF ForkedFor
  <1>15. /\ 0 .. 2 \subseteq Fds /\ b \in Nat /\ b > 0 /\ (b + 1) - 1 = b /\ b + 1 # 0
         /\ \A x \in 1 .. b : x = b \/ x \in 1 .. b - 1
         /\ \A x \in 1 .. b - 1 : x \in 1 .. b
    <2> HIDE DEF B, b
    <2>1. n \in Nat /\ b \in Nat /\ b > 0
      BY <1>2, ForkPlaces
    <2> QED BY <2>1 DEF Fds
  <1>151. b \in 1 .. b
    BY <1>15
  <1>00. B = Body(l, n, k)
    OBVIOUS
  <1> HIDE DEF B, b, k, l, n, q, e
  <1>16. \A x \in 1 .. b : B[x].op # "exec"
    BY <1>4, <1>14, <1>15
  <1>17. ASSUME NEW s, NEW h, Left(l, n, k, b + 1, s, h) PROVE KnownIn(q, s, h)
    <2>1. Left(l, n, k, b, s, h) /\ Facts(l, n, k, s, h)
      BY <1>15, <1>17 DEF Left
    <2>2. KnownIn(procs[c], s, h) /\ s \in Slots
      BY <1>2, <1>14, <2>1, OneFact DEF n, l
    <2>3. g # h
      BY <1>00, <1>4, <1>6, <1>15, <1>151, <1>17 DEF Left
    <2>4. CASE h = Unset
      BY <1>12, <2>2, <2>4 DEF KnownIn
    <2>5. CASE h # Unset
      <3>1. procs[c].slots[s] > 2 /\ procs[c].fds[procs[c].slots[s]] = h /\ procs[c].slots[s] \in Fds
        BY <1>9, <2>2, <2>5 DEF KnownIn
      <3>2. procs[c].slots[s] # e
        BY <1>8, <2>3, <3>1
      <3>3. q.fds[procs[c].slots[s]] = h
        BY <1>12, <3>1, <3>2
      <3> QED BY <1>12, <2>5, <3>1, <3>3 DEF KnownIn
    <2> QED BY <2>4, <2>5
  <1>18. \A d \in 0 .. 2 : q.fds[d] = procs[c].fds[d]
    BY <1>8, <1>12, <1>15
  <1>19. ASSUME NEW d \in 0 .. 2, NEW h, Moved(l, n, k, b + 1, d, h) PROVE q.fds[d] = h
    <2>1. PICK y \in 1 .. b : Moves(l, n, k, y, d) /\ Facts(l, n, k, B[y].slot, h)
      BY <1>00, <1>15, <1>19 DEF Moved
    <2>2. y # b
      BY <1>00, <1>4, <2>1 DEF Moves
    <2>3. y \in 1 .. b - 1
      BY <1>15, <2>1, <2>2
    <2>4. Moved(l, n, k, b, d, h)
      BY <1>00, <2>1, <2>3 DEF Moved
    <2> QED BY <1>14, <1>18, <2>4
  <1>20. ASSUME NEW d \in 0 .. 2, Unmoved(l, n, k, b + 1, d) PROVE q.fds[d] = Terminal
    <2>1. Unmoved(l, n, k, b, d)
      BY <1>15, <1>20 DEF Unmoved
    <2> QED BY <1>14, <1>18, <2>1
  <1>21. ForkedFor(l, n, q)
    BY <1>00, <1>13, <1>14, <1>15, <1>16, <1>17, <1>19, <1>20 DEF ForkedFor
  <1> QED BY <1>13, <1>21 DEF ChildFor, l, n, q

\* exec () in the body: the program starts with its descriptors connected.
LEMMA ChildExec ==
  ASSUME Typed, Placed, IsLinked, Forks, ChildrenWired, Same,
         NEW c \in DOMAIN procs, procs[c].parent = 1, line[procs[c].stage].known, Execute(c)
  PROVE  ChildFor(launcher, Stages, procs'[c]) /\ SameData(c) /\ procs'[c].state = "program"
  <1> DEFINE k == procs[c].stage
             b == procs[c].inside
             B == Body(launcher, Stages, k)
             l == launcher
             n == Stages
             q == procs'[c]
  <1>1. Runs(c, "exec") /\ procs[c].state = "launcher"
    BY DEF Execute, Runs
  <1>2. /\ k \in 1 .. n /\ b \in 1 .. Len(B) /\ Len(B) \in Nat /\ BodyRules(l, n, k)
        /\ Instr(c) = B[b] /\ ForkedFor(l, n, procs[c])
    BY <1>1, ChildRules
  <1>3. b # 0 /\ Instr(c).op = "exec"
    BY <1>1, <1>2, Running
  <1>4. Instr(c).stage = k
    BY <1>1, <1>3, Running
  <1>5. /\ SameData(c) /\ q.state = "program" /\ q.stage = k
        /\ \A d \in Fds : d < 3 => q.fds[d] = procs[c].fds[d]
    BY <1>4, DoesExec
  <1>6. 0 \in Fds /\ OutFd(l) \in Fds /\ OutFd(l) \in 0 .. 2 /\ OutFd(l) < 3
    <2>1. n \in Nat
      BY ForkPlaces
    <2> QED BY <2>1 DEF OutFd, Fds
  <1>7. /\ \A h : Moved(l, n, k, b, 0, h) => procs[c].fds[0] = h
        /\ Unmoved(l, n, k, b, 0) => procs[c].fds[0] = Terminal
        /\ \A h : Moved(l, n, k, b, OutFd(l), h) => procs[c].fds[OutFd(l)] = h
        /\ Unmoved(l, n, k, b, OutFd(l)) => procs[c].fds[OutFd(l)] = Terminal
    BY <1>2, <1>6 DEF ForkedFor
  <1>8. /\ IF k = 1 THEN Unmoved(l, n, k, b, 0) ELSE Moved(l, n, k, b, 0, R(l, k - 1))
        /\ IF Targets(l, n, k) THEN Moved(l, n, k, b, OutFd(l), W(l, k))
           ELSE Unmoved(l, n, k, b, OutFd(l))
    BY <1>2, <1>3 DEF BodyRules
  <1> HIDE DEF k, b, B, l, n, q
  <1>9. procs[c].fds[0] = Input(l, k) /\ procs[c].fds[OutFd(l)] = Target(l, n, k)
    BY <1>7, <1>8 DEF Input, Target
  <1>10. q.fds[0] = Input(l, k) /\ q.fds[OutFd(l)] = Target(l, n, k)
    BY <1>5, <1>6, <1>9
  <1> QED BY <1>5, <1>10 DEF ChildFor, PlumbedFor, q, l, n

\* What such a child does: an instruction of its body, or a step of its program.
LEMMA ChildDoes ==
  ASSUME Typed, Placed, IsLinked, Forks, ChildrenWired,
         NEW c \in DOMAIN procs, procs[c].parent = 1, line[procs[c].stage].known, Process(c)
  PROVE  \/ procs[c].state = "launcher" /\ (Redirect(c) \/ CloseSlot(c) \/ Execute(c))
         \/ procs[c].state = "program" /\ (ReadInput(c) \/ WriteOutput(c) \/ EndProgram(c))
  <1>1. ASSUME procs[c].state = "launcher"
        PROVE  procs[c].at <= Len(Text) /\ Instr(c).op \in {"dup2", "close", "exec"}
    BY <1>1, ChildRules
  <1>2. ASSUME NEW op, op \notin {"dup2", "close", "exec"} PROVE ~Runs(c, op)
    BY <1>1, <1>2 DEF Runs
  <1>3. ~MakePipe(c) /\ ~AssignSlot(c) /\ ~ForkChild(c) /\ ~WaitFor(c) /\ ~ReadOnce(c) /\ ~ReadLoop(c)
    BY <1>2 DEF MakePipe, AssignSlot, ForkChild, WaitFor, ReadOnce, ReadLoop
  <1>4. ~ExitLauncher(c)
    BY <1>1 DEF ExitLauncher
  <1>5. Redirect(c) \/ CloseSlot(c) \/ Execute(c) => procs[c].state = "launcher"
    BY DEF Redirect, CloseSlot, Execute, Runs
  <1>6. ReadInput(c) \/ WriteOutput(c) \/ EndProgram(c) => procs[c].state = "program"
    BY DEF ReadInput, WriteOutput, EndProgram
  <1> QED BY <1>3, <1>4, <1>5, <1>6 DEF Process, Launch

\* Every step keeps the children wired.
LEMMA ChildrenStep ==
  ASSUME Typed, Placed, Room, IsLinked, RootWired, Forks, ChildrenWired, Same,
         NEW p \in DOMAIN procs, Process(p)
  PROVE  ChildrenWired'
  <1>1. ASSUME \A c \in DOMAIN procs' : procs'[c].parent = 1 /\ line[procs'[c].stage].known =>
                 ChildFor(launcher, Stages, procs'[c])
        PROVE  ChildrenWired'
    BY <1>1, TextStays DEF ChildrenWired
  <1>2. \A c \in DOMAIN procs : procs[c].parent = 1 /\ line[procs[c].stage].known =>
          ChildFor(launcher, Stages, procs[c])
    BY DEF ChildrenWired
  <1>3. CASE ForkChild(p)
    <2> DEFINE d == Len(procs) + 1
    <2>1. /\ DOMAIN procs' = DOMAIN procs \cup {d}
          /\ \A c \in DOMAIN procs : c # p => procs'[c] = procs[c]
          /\ procs'[p].parent = procs[p].parent /\ procs'[p].stage = procs[p].stage
          /\ procs'[d].parent = p
      BY <1>3, DoesFork DEF Grown, SameKin
    <2>2. p = 1 => ChildFor(launcher, Stages, procs'[d])
      BY <1>3, ChildStarts
    <2>3. ~(procs[p].parent = 1 /\ line[procs[p].stage].known)
      <3>1. ~Redirect(p) /\ ~CloseSlot(p) /\ ~Execute(p) /\ procs[p].state = "launcher"
        BY <1>3 DEF ForkChild, Redirect, CloseSlot, Execute, Runs
      <3> QED BY <3>1, ChildDoes
    <2> HIDE DEF d
    <2> QED BY <1>1, <1>2, <2>1, <2>2, <2>3
  <1>4. CASE ~ForkChild(p)
    <2>1. Others(p) /\ procs'[p].parent = procs[p].parent /\ procs'[p].stage = procs[p].stage
      BY <1>4, StageStays
    <2>2. ASSUME procs[p].parent = 1, line[procs[p].stage].known
          PROVE  ChildFor(launcher, Stages, procs'[p])
      <3>1. \/ procs[p].state = "launcher" /\ (Redirect(p) \/ CloseSlot(p) \/ Execute(p))
            \/ procs[p].state = "program" /\ (ReadInput(p) \/ WriteOutput(p) \/ EndProgram(p))
        BY <2>2, ChildDoes
      <3>2. CASE Redirect(p)
        BY <2>2, <3>2, ChildDup2
      <3>3. CASE CloseSlot(p)
        BY <2>2, <3>3, ChildClose
      <3>4. CASE Execute(p)
        BY <2>2, <3>4, ChildExec
      <3>5. CASE procs[p].state = "program" /\ (ReadInput(p) \/ WriteOutput(p) \/ EndProgram(p))
        <4>1. SameFiles(p) /\ (SameState(p) \/ procs'[p].state = "ended")
          <5>1. CASE ReadInput(p)
            BY <5>1, DoesReadInput DEF Takes, Sees, Moves1
          <5>2. CASE WriteOutput(p)
            BY <5>2, DoesWrite DEF Puts, Moves1, Ends1
          <5>3. CASE EndProgram(p)
            BY <5>3, DoesEnd DEF EndProgram, Ends1
          <5> QED BY <3>5, <5>1, <5>2, <5>3
        <4>2. PlumbedFor(launcher, Stages, procs[p])
          BY <1>2, <2>2, <3>5 DEF ChildFor
        <4>3. procs'[p].fds = procs[p].fds /\ procs'[p].stage = procs[p].stage /\ procs'[p].state # "launcher"
          BY <2>1, <3>5, <4>1 DEF SameFiles, SameState
        <4> QED BY <4>2, <4>3 DEF ChildFor, PlumbedFor
      <3> QED BY <3>1, <3>2, <3>3, <3>4, <3>5
    <2> QED BY <1>1, <1>2, <2>1, <2>2 DEF Others
  <1> QED BY <1>3, <1>4

-----------------------------------------------------------------------------
(***************************************************************************)
(* Programs that are waited for before anybody reads what they write.      *)
(***************************************************************************)
Eagerly ==
  \A k \in 1 .. Stages : IsEager(launcher, Stages, k) /\ line[k].known =>
    /\ procs[1].at = ForkAt(launcher, Stages, k) => pipes[Joint(launcher, k)] = 0
    /\ procs[1].at = ForkAt(launcher, Stages, k) + 1 =>
         \A c \in DOMAIN procs : procs[c].parent = 1 /\ procs[c].stage = k =>
           /\ pipes[Joint(launcher, k)] = procs[c].wrote
           /\ procs[c].state = "ended" => procs[c].wrote = line[k].writes
    /\ procs[1].at > ForkAt(launcher, Stages, k) + 1 => line[k].writes <= Capacity

\* Where such a program's pipe is made, where it is forked and where it is waited for.
LEMMA EagerContext ==
  ASSUME Typed, IsLinked, NEW k \in 1 .. Stages, IsEager(launcher, Stages, k)
  PROVE  LET F == ForkAt(launcher, Stages, k)
         IN  /\ F \in Nat /\ F - 1 \in 1 .. Len(Text) /\ F \in 1 .. Len(Text) /\ F + 1 \in 1 .. Len(Text)
             /\ Joint(launcher, k) = <<1, F - 1>>
             /\ Text[F - 1].op = "pipe" /\ Text[F].op = "fork" /\ Text[F].stage = k
             /\ Text[F + 1] = Wait(k) /\ Text[F + 1].op = "wait" /\ Text[F + 1].stage = k
             /\ \A j \in F .. Len(Text) : Text[j].op = "wait" => Text[j].stage >= k
             /\ \E s : Knows(launcher, Stages, F + 1, s, R(launcher, k))
             /\ Targets(launcher, Stages, k) /\ Len(Text) \in Nat
             /\ k \in Nat
  <1> DEFINE F == ForkAt(launcher, Stages, k)
  <1>1. Text = Code(launcher, Stages) /\ Len(Text) \in Nat /\ Stages \in Nat /\ launcher \in Launchers
    BY Context DEF Typed, Chosen
  <1>2. F \in 1 .. Len(Text) /\ Text[F].op = "fork" /\ Text[F].stage = k
    BY ForkPlaces
  <1>3. Eager(launcher, Stages, k)
    BY <1>1, EagerHolds DEF IsLinked
  <1>4. /\ F - 1 \in 1 .. Len(Text) /\ F + 1 \in 1 .. Len(Text)
        /\ MadeAt(launcher, k) = F - 1 /\ Text[F - 1].op = "pipe" /\ Text[F + 1] = Wait(k)
        /\ \A j \in F .. Len(Text) : Text[j].op = "wait" => Text[j].stage >= k
        /\ \E s : Knows(launcher, Stages, F + 1, s, R(launcher, k))
    BY <1>1, <1>3 DEF Eager
  <1>5. Joint(launcher, k) = <<1, F - 1>>
    BY <1>4 DEF Joint
  <1>6. Text[F + 1].op = "wait" /\ Text[F + 1].stage = k
    BY <1>4, Waits
  <1>7. Targets(launcher, Stages, k)
    BY DEF IsEager, Targets
  <1>8. k \in Nat /\ F \in Nat
    BY <1>1, <1>2
  <1> QED BY <1>1, <1>2, <1>4, <1>5, <1>6, <1>7, <1>8

\* An instruction has one action.
LEMMA ActsBy ==
  ASSUME NEW p, Process(p), procs[p].state = "launcher", procs[p].at <= Len(Text)
  PROVE  /\ Instr(p).op = "pipe" => MakePipe(p)
         /\ Instr(p).op = "fork" => ForkChild(p)
         /\ Instr(p).op = "wait" => WaitFor(p)
         /\ Instr(p).op = "readAll" => ReadLoop(p)
  <1>1. \A op : Runs(p, op) => Instr(p).op = op
    BY DEF Runs
  <1>2. /\ MakePipe(p) => Runs(p, "pipe")
        /\ Redirect(p) => Runs(p, "dup2")
        /\ CloseSlot(p) => Runs(p, "close")
        /\ AssignSlot(p) => Runs(p, "assign")
        /\ ForkChild(p) => Runs(p, "fork")
        /\ Execute(p) => Runs(p, "exec")
        /\ WaitFor(p) => Runs(p, "wait")
        /\ ReadOnce(p) => Runs(p, "read")
        /\ ReadLoop(p) => Runs(p, "readAll")
    BY DEF MakePipe, Redirect, CloseSlot, AssignSlot, ForkChild, Execute, WaitFor, ReadOnce, ReadLoop
  <1>3. /\ MakePipe(p) => Instr(p).op = "pipe"
        /\ Redirect(p) => Instr(p).op = "dup2"
        /\ CloseSlot(p) => Instr(p).op = "close"
        /\ AssignSlot(p) => Instr(p).op = "assign"
        /\ ForkChild(p) => Instr(p).op = "fork"
        /\ Execute(p) => Instr(p).op = "exec"
        /\ WaitFor(p) => Instr(p).op = "wait"
        /\ ReadOnce(p) => Instr(p).op = "read"
        /\ ReadLoop(p) => Instr(p).op = "readAll"
    BY <1>1, <1>2
  <1>4. ExitLauncher(p) => Instr(p).op = "exit"
    BY DEF ExitLauncher
  <1>5. ~ReadInput(p) /\ ~WriteOutput(p) /\ ~EndProgram(p)
    BY DEF ReadInput, WriteOutput, EndProgram
  <1> HIDE DEF MakePipe, Redirect, CloseSlot, AssignSlot, ForkChild, Execute, WaitFor, ReadOnce, ReadLoop
  <1> QED BY <1>3, <1>4, <1>5 DEF Process, Launch

\* Only a process that runs takes a step.
LEMMA ProcessLives ==
  ASSUME NEW p, Process(p)
  PROVE  Live(p)
  BY DEF Process, Launch, MakePipe, Redirect, CloseSlot, AssignSlot, ForkChild, Execute, WaitFor,
     ExitLauncher, ReadOnce, ReadLoop, ReadInput, WriteOutput, EndProgram, Runs, Live

\* How far the launcher gets.
LEMMA RootGoes ==
  ASSUME Typed, Placed, Room, IsLinked, RootWired, NEW p \in DOMAIN procs, Process(p)
  PROVE  /\ p # 1 => procs'[1] = procs[1]
         /\ p = 1 => \/ procs[1].at \in 1 .. Len(Text) /\ procs'[1].at = procs[1].at + 1
                     \/ procs'[1].at = procs[1].at /\ procs[1].at > ForkAt(launcher, Stages, Stages)
                        /\ (procs[1].at <= Len(Text) => Text[procs[1].at].op = "readAll")
  <1>1. 1 \in DOMAIN procs /\ procs[1].inside = 0 /\ procs[1].state # "program"
    BY DEF Typed, RootWired, RootFor
  <1>2. CASE ForkChild(p)
    <2>1. /\ \A q \in DOMAIN procs : q # p => procs'[q] = procs[q]
      BY <1>2, DoesFork DEF Grown
    <2>2. procs'[p].at = procs[p].at + 1 /\ procs[p].at \in 1 .. Len(Text)
      BY <1>2, Forker
    <2> QED BY <1>1, <2>1, <2>2
  <1>3. CASE ~ForkChild(p)
    <2>1. Others(p) /\ (StepsOn(p) \/ Rereads(p) \/ Starts(p) \/ Dies(p) \/ Computes(p))
      BY <1>3, Shape
    <2>2. p # 1 => procs'[1] = procs[1]
      BY <1>1, <2>1 DEF Others
    <2>3. CASE p = 1 /\ StepsOn(p)
      <3>1. PICK op : Runs(1, op)
        BY <2>3 DEF StepsOn
      <3>2. procs[1].at \in 1 .. Len(Text)
        BY <3>1, RootRules
      <3>3. procs'[1].at = procs[1].at + 1
        BY <1>1, <2>3 DEF StepsOn, Onward, InBodyYet
      <3> QED BY <2>3, <3>2, <3>3
    <2>4. CASE p = 1 /\ Rereads(p)
      <3>1. Runs(1, "readAll") /\ procs'[1].at = procs[1].at
        BY <2>4 DEF Rereads, SamePlace
      <3>2. Text[procs[1].at].op = "readAll" /\ procs[1].at > ForkAt(launcher, Stages, Stages)
        BY <3>1, RootRules DEF Orders
      <3> QED BY <2>4, <3>1, <3>2
    <2>5. CASE p = 1 /\ Starts(p)
      <3>1. Runs(1, "exec")
        BY <2>5 DEF Starts
      <3>2. Orders(launcher, Stages, procs[1].at, Text[procs[1].at]) /\ Text[procs[1].at].op = "exec"
        BY <3>1, RootRules
      <3> QED BY <3>2 DEF Orders
    <2>6. CASE p = 1 /\ Dies(p)
      <3>1. procs'[1].at = procs[1].at
        BY <2>6 DEF Dies, SamePlace
      <3>2. procs[1].state = "launcher"
        BY <1>1, <2>6 DEF Dies, Live
      <3>3. ~(procs[1].at <= Len(Text))
        <4>1. ASSUME procs[1].at <= Len(Text) PROVE FALSE
          <5>1. Runs(1, "exit")
            BY <2>6, <3>2, <4>1 DEF Dies, Runs
          <5>2. Orders(launcher, Stages, procs[1].at, Text[procs[1].at]) /\ Text[procs[1].at].op = "exit"
            BY <5>1, RootRules
          <5> QED BY <5>2 DEF Orders
        <4> QED BY <4>1
      <3>4. ForkAt(launcher, Stages, Stages) \in 1 .. Len(Text) /\ Len(Text) \in Nat /\ procs[1].at \in Nat
        <4>1. Stages \in 1 .. Stages
          BY ForkPlaces
        <4> QED BY <1>1, <4>1, ForkPlaces, TypedProc
      <3>5. procs[1].at > ForkAt(launcher, Stages, Stages)
        BY <3>3, <3>4
      <3> QED BY <2>6, <3>1, <3>3, <3>5
    <2>7. CASE p = 1 /\ Computes(p)
      BY <1>1, <2>7 DEF Computes
    <2> QED BY <2>1, <2>2, <2>3, <2>4, <2>5, <2>6, <2>7
  <1> QED BY <1>2, <1>3

\* A child whose program waits to be read or is at its fork is the only one that runs.
LEMMA FewLive ==
  ASSUME Typed, Placed, IsLinked, RootWired, Forks, ChildrenWired, WaitsCome,
         NEW k \in 1 .. Stages, IsEager(launcher, Stages, k), line[k].known,
         NEW m \in {0, 1}, procs[1].at = ForkAt(launcher, Stages, k) + m,
         NEW p \in DOMAIN procs, p # 1, Live(p)
  PROVE  m = 1 /\ procs[p].parent = 1 /\ procs[p].stage = k
  <1> DEFINE F(i) == ForkAt(launcher, Stages, i)
             Fine(q) == m = 1 /\ procs[q].parent = 1 /\ procs[q].stage = k
             S == {q \in DOMAIN procs : q # 1 /\ Live(q) /\ ~Fine(q)}
  <1> SUFFICES ASSUME S # {} PROVE FALSE
    OBVIOUS
  <1>1. PICK q \in S : \A r \in S : q <= r
    BY FirstOfAll
  <1>2. q \in DOMAIN procs /\ q # 1 /\ Live(q) /\ ~Fine(q)
    OBVIOUS
  <1> DEFINE u == procs[q].parent
  <1>3. u \in 1 .. q - 1 /\ u \in DOMAIN procs /\ u < q /\ q \in Nat
    <2>1. \A x \in DOMAIN procs : x # 1 => procs[x].parent \in 1 .. x - 1
      BY DEF Typed
    <2>2. u \in 1 .. q - 1
      BY <1>2, <2>1
    <2>3. q \in 1 .. Len(procs) /\ Len(procs) \in Nat /\ DOMAIN procs = 1 .. Len(procs)
      BY <1>2, TypedProc
    <2> HIDE DEF u
    <2> QED BY <2>2, <2>3
  <1>4. AwaitedBy(Text, procs[u], procs[q].stage)
    BY <1>2 DEF WaitsCome
  <1>5. procs[u].state = "launcher" /\ procs[u].inside = 0
    BY <1>4 DEF AwaitedBy
  <1>6. u \notin S
    BY <1>1, <1>3
  <1>7. u = 1 \/ Fine(u)
    BY <1>3, <1>5, <1>6 DEF Live
  <1>8. CASE u = 1
    <2>1. PICK j \in procs[1].at .. Len(Text) : Text[j] = Wait(procs[q].stage)
      BY <1>4, <1>8 DEF AwaitedBy
    <2>2. /\ F(k) \in Nat /\ Len(Text) \in Nat /\ k \in Nat
          /\ \A i \in F(k) .. Len(Text) : Text[i].op = "wait" => Text[i].stage >= k
      BY EagerContext
    <2>3. Text[j].op = "wait" /\ Text[j].stage = procs[q].stage
      BY <2>1, Waits
    <2> HIDE DEF F
    <2>4. procs[1].at = F(k) + m
      BY DEF F
    <2>5. j \in F(k) .. Len(Text)
      BY <2>1, <2>2, <2>4
    <2>6. procs[q].stage >= k
      BY <2>2, <2>3, <2>5
    <2>7. procs[q].stage \in 1 .. Stages /\ procs[1].at > F(procs[q].stage)
      BY <1>2, <1>8 DEF Forks, F
    <2>8. k < procs[q].stage => F(k) < F(procs[q].stage)
      BY <2>7, ForkPlaces DEF F
    <2>9. F(procs[q].stage) \in Nat
      BY <2>7, ForkPlaces DEF F
    <2>10. ~(k < procs[q].stage)
      BY <2>2, <2>4, <2>7, <2>8, <2>9
    <2>11. procs[q].stage \in Nat
      BY <1>2, <2>7
    <2>12. procs[q].stage = k
      BY <2>2, <2>6, <2>10, <2>11
    <2>13. m = 1
      BY <2>2, <2>4, <2>7, <2>12
    <2> QED BY <1>2, <1>8, <2>12, <2>13
  <1>9. CASE Fine(u)
    <2>1. ChildFor(launcher, Stages, procs[u])
      BY <1>3, <1>9 DEF ChildrenWired
    <2> QED BY <1>5, <2>1 DEF ChildFor, ForkedFor
  <1> QED BY <1>7, <1>8, <1>9

\* Whoever knows a handle at the launcher's place holds it.
LEMMA RootHolds ==
  ASSUME Typed, Placed, IsLinked, RootWired, procs[1].at \in 1 .. Len(Text),
         NEW s, NEW h, Knows(launcher, Stages, procs[1].at, s, h), h # Unset
  PROVE  Holds(1, h)
  <1>1. Learns(launcher, Stages, procs[1].at, Text[procs[1].at])
    BY LinkedContext DEF Typed
  <1>2. s \in Slots
    BY <1>1 DEF Learns, Slots
  <1>3. 1 \in DOMAIN procs /\ Len(Text) \in Nat
    BY Context DEF Typed
  <1>4. procs[1].slots \in [Slots -> Fds \cup {-1}]
    BY <1>3, TypedProc DEF SlotMaps
  <1>5. procs[1].slots[s] > 2 /\ procs[1].fds[procs[1].slots[s]] = h
    BY <1>3 DEF RootWired, RootFor, KnownIn
  <1>6. procs[1].slots[s] \in Fds \cup {-1}
    BY <1>2, <1>4
  <1>7. procs[1].slots[s] \in Fds
    BY <1>5, <1>6
  <1>8. procs[1].state = "launcher"
    <2>1. procs[1].at # Len(Text) + 1
      BY <1>3
    <2> QED BY <2>1 DEF RootWired, RootFor
  <1> QED BY <1>5, <1>7, <1>8 DEF Holds, Live

\* A child of the launcher whose program can be executed holds what it is to write to,
\* as long as it runs.
LEMMA ChildHolds ==
  ASSUME Typed, Placed, IsLinked, Forks, ChildrenWired,
         NEW c \in DOMAIN procs, procs[c].parent = 1, line[procs[c].stage].known, Live(c),
         Targets(launcher, Stages, procs[c].stage)
  PROVE  Holds(c, W(launcher, procs[c].stage))
  <1> DEFINE k == procs[c].stage
             b == procs[c].inside
             w == W(launcher, procs[c].stage)
  <1>1. 0 .. 2 \subseteq Fds /\ OutFd(launcher) \in 0 .. 2
    <2>1. Stages \in Nat
      BY ForkPlaces
    <2> QED BY <2>1 DEF OutFd, Fds
  <1>2. CASE procs[c].state = "program"
    <2>1. PlumbedFor(launcher, Stages, procs[c])
      BY <1>2 DEF ChildrenWired, ChildFor
    <2>2. procs[c].fds[OutFd(launcher)] = w
      BY <2>1 DEF PlumbedFor, Target
    <2> QED BY <1>1, <2>2 DEF Holds
  <1>3. CASE procs[c].state = "launcher"
    <2>1. /\ k \in 1 .. Stages /\ BodyRules(launcher, Stages, k) /\ ForkedFor(launcher, Stages, procs[c])
          /\ b \in 1 .. Len(Body(launcher, Stages, k))
      BY <1>3, ChildRules
    <2>2. \/ \E s : Left(launcher, Stages, k, b, s, w)
          \/ Moved(launcher, Stages, k, b, OutFd(launcher), w)
      BY <2>1 DEF BodyRules, ForkedFor
    <2>3. CASE \E s : Left(launcher, Stages, k, b, s, w)
      <3>1. PICK s : Left(launcher, Stages, k, b, s, w)
        BY <2>3
      <3>2. KnownIn(procs[c], s, w) /\ Facts(launcher, Stages, k, s, w) /\ w # Unset
        BY <2>1, <3>1, Ends DEF ForkedFor, Left
      <3>3. s \in Slots /\ procs[c].slots[s] > 2 /\ procs[c].fds[procs[c].slots[s]] = w
        BY <2>1, <3>2, OneFact DEF KnownIn
      <3>4. procs[c].slots \in [Slots -> Fds \cup {-1}]
        BY TypedProc DEF SlotMaps
      <3>5. procs[c].slots[s] \in Fds \cup {-1}
        BY <3>3, <3>4
      <3>6. procs[c].slots[s] \in Fds
        BY <3>3, <3>5
      <3> QED BY <3>3, <3>6 DEF Holds
    <2>4. CASE Moved(launcher, Stages, k, b, OutFd(launcher), w)
      <3>1. procs[c].fds[OutFd(launcher)] = w
        BY <1>1, <2>1, <2>4 DEF ForkedFor
      <3> QED BY <1>1, <3>1 DEF Holds
    <2> QED BY <2>2, <2>3, <2>4
  <1> QED BY <1>2, <1>3 DEF Live

\* The pipes of a linked launcher are not the pipe of a closed descriptor.
LEMMA JointOpen ==
  ASSUME Typed, NEW c \in DOMAIN procs, NEW k, IsLinked,
         Holds(c, R(launcher, k)) \/ Holds(c, W(launcher, k))
  PROVE  Joint(launcher, k) \in DOMAIN pipes
  <1>1. PICK d \in Fds : procs[c].fds[d] = R(launcher, k) \/ procs[c].fds[d] = W(launcher, k)
    BY DEF Holds
  <1>2. procs[c].fds[d].pipe = Joint(launcher, k)
    BY <1>1 DEF R, W, ReadEnd, WriteEnd
  <1>3. procs[c].fds[d].pipe \in DOMAIN pipes \cup {<<0, 0>>}
    BY <1>1 DEF Typed
  <1>4. Joint(launcher, k) # <<0, 0>>
    BY DEF Joint
  <1> QED BY <1>2, <1>3, <1>4

\* What a program writes while it is the only one that runs stays in its pipe.
LEMMA AloneStep ==
  ASSUME Typed, Placed, Room, IsLinked, RootWired, Forks, ChildrenWired, WaitsCome, Eagerly, Same,
         NEW k \in 1 .. Stages, IsEager(launcher, Stages, k), line[k].known,
         procs[1].at = ForkAt(launcher, Stages, k) + 1,
         NEW p \in DOMAIN procs, p # 1, Process(p)
  PROVE  \A c \in DOMAIN procs' : procs'[c].parent = 1 /\ procs'[c].stage = k =>
           /\ pipes'[Joint(launcher, k)] = procs'[c].wrote
           /\ procs'[c].state = "ended" => procs'[c].wrote = line[k].writes
  <1> DEFINE J == Joint(launcher, k)
             F == ForkAt(launcher, Stages, k)
  <1>1. Live(p)
    BY ProcessLives
  <1>2. procs[p].parent = 1 /\ procs[p].stage = k
    BY <1>1, FewLive
  <1>3. \/ procs[p].state = "launcher" /\ (Redirect(p) \/ CloseSlot(p) \/ Execute(p))
        \/ procs[p].state = "program" /\ (ReadInput(p) \/ WriteOutput(p) \/ EndProgram(p))
    BY <1>2, ChildDoes
  <1>4. ~ForkChild(p)
    <2>1. procs[p].state = "launcher" => procs[p].at <= Len(Text) /\ Instr(p).op \in {"dup2", "close", "exec"}
      BY <1>2, ChildRules
    <2> QED BY <2>1 DEF ForkChild, Runs
  <1>5. Others(p) /\ procs'[p].parent = procs[p].parent /\ procs'[p].stage = procs[p].stage
    BY <1>4, StageStays
  <1>6. pipes[J] = procs[p].wrote /\ (procs[p].state = "ended" => procs[p].wrote = line[k].writes)
    BY <1>2 DEF Eagerly
  <1>7. SUFFICES /\ pipes'[J] = procs'[p].wrote
                 /\ procs'[p].state = "ended" => procs'[p].wrote = line[k].writes
    <2>1. ASSUME NEW c \in DOMAIN procs', procs'[c].parent = 1, procs'[c].stage = k PROVE c = p
      <3>1. c \in DOMAIN procs /\ procs[c].parent = 1 /\ procs[c].stage = k
        BY <1>5, <2>1 DEF Others
      <3> QED BY <1>2, <3>1 DEF Forks
    <2> QED BY <2>1
  <1>8. Targets(launcher, Stages, k) /\ F + 1 \in 1 .. Len(Text) /\ \E s : Knows(launcher, Stages, F + 1, s, R(launcher, k))
    BY EagerContext
  <1>9. Holds(1, R(launcher, k)) /\ 1 \in DOMAIN procs
    <2>1. PICK s : Knows(launcher, Stages, procs[1].at, s, R(launcher, k))
      BY <1>8
    <2>2. R(launcher, k) # Unset
      BY Ends
    <2> QED BY <1>8, <2>1, <2>2, RootHolds DEF Typed
  <1>10. J \in DOMAIN pipes
    BY <1>9, JointOpen
  <1>11. ChildFor(launcher, Stages, procs[p])
    BY <1>2 DEF ChildrenWired
  <1>12. CASE Redirect(p) \/ CloseSlot(p) \/ Execute(p)
    <2>1. SameData(p) /\ SamePipes /\ procs[p].state = "launcher" /\ procs'[p].state # "ended"
      <3>1. CASE Redirect(p)
        BY <1>3, <3>1, DoesDup2 DEF SameState, Redirect, Runs
      <3>2. CASE CloseSlot(p)
        BY <1>3, <3>2, DoesClose DEF SameState, CloseSlot, Runs
      <3>3. CASE Execute(p)
        <4>1. procs[p].state = "launcher"
          BY <3>3 DEF Execute, Runs
        <4> QED BY <1>2, <3>3, <4>1, DoesExec, ChildExec
      <3> QED BY <1>12, <3>1, <3>2, <3>3
    <2> QED BY <1>6, <2>1 DEF SameData, SamePipes
  <1>13. ASSUME procs[p].state = "program"
         PROVE  procs[p].fds[0] = Input(launcher, k) /\ procs[p].fds[OutFd(launcher)] = W(launcher, k)
    BY <1>2, <1>8, <1>11, <1>13 DEF ChildFor, PlumbedFor, Target
  <1>14. CASE ReadInput(p)
    <2>1. procs[p].state = "program" /\ (Takes(p, procs[p].fds[0]) \/ Sees(p, procs[p].fds[0]))
      BY <1>14, DoesReadInput
    <2>2. procs'[p].wrote = procs[p].wrote /\ procs'[p].state = procs[p].state
      BY <2>1 DEF Takes, Sees, Moves1, SameState
    <2>3. pipes'[J] = pipes[J]
      <3>1. CASE Sees(p, procs[p].fds[0])
        BY <3>1 DEF Sees, SamePipes
      <3>2. CASE Takes(p, procs[p].fds[0])
        <4>1. k # 1
          <5>1. ASSUME k = 1 PROVE FALSE
            <6>1. procs[p].fds[0] = Terminal
              BY <1>13, <2>1, <5>1 DEF Input
            <6> QED BY <3>2, <6>1, HandleEnds DEF Takes
          <5> QED BY <5>1
        <4>2. procs[p].fds[0].pipe = Joint(launcher, k - 1)
          BY <1>13, <2>1, <4>1 DEF Input, R, ReadEnd
        <4>3. Joint(launcher, k - 1) # J
          <5>1. Apart(launcher, Stages) /\ Stages \in Nat
            BY LinkedContext, ForkPlaces DEF Typed
          <5>2. k - 1 \in 1 .. Stages /\ k - 1 # k /\ k - 1 < Stages
            BY <4>1, <5>1
          <5>3. MadeAt(launcher, k - 1) # MadeAt(launcher, k)
            BY <1>8, <5>1, <5>2 DEF Apart, Targets
          <5> QED BY <5>3 DEF Joint
        <4> HIDE DEF J
        <4> QED BY <1>10, <3>2, <4>2, <4>3 DEF Takes, OnePipe
      <3> QED BY <2>1, <3>1, <3>2
    <2> QED BY <1>6, <2>1, <2>2, <2>3
  <1>15. CASE WriteOutput(p)
    <2>1. /\ procs[p].state = "program"
          /\ LET h == Output(p)
             IN  \/ /\ h.end = "write" /\ HasReaders(h.pipe) /\ pipes[h.pipe] < Capacity
                    /\ Puts(p) /\ OnePipe(h.pipe, pipes[h.pipe] + 1)
                 \/ h.end = "write" /\ ~HasReaders(h.pipe) /\ Ends1(p)
                 \/ h.end # "write" /\ Puts(p) /\ SamePipes
      BY <1>15, DoesWrite
    <2>2. Output(p) = W(launcher, k)
      BY <1>13, <2>1 DEF Output, OutFd
    <2>3. Output(p).end = "write" /\ Output(p).pipe = J
      BY <2>2 DEF W, WriteEnd
    <2>4. HasReaders(J)
      BY <1>9 DEF HasReaders, R
    <2>5. Puts(p) /\ OnePipe(J, pipes[J] + 1)
      BY <2>1, <2>3, <2>4
    <2> HIDE DEF J
    <2>6. procs'[p].wrote = procs[p].wrote + 1 /\ pipes'[J] = pipes[J] + 1 /\ procs'[p].state = "program"
      BY <1>10, <2>1, <2>5 DEF Puts, OnePipe, Moves1, SameState
    <2> QED BY <1>6, <2>6
  <1>16. CASE EndProgram(p)
    <2>1. Ends1(p) /\ procs[p].wrote = Program(p).writes
      BY <1>16, DoesEnd DEF EndProgram
    <2>2. procs'[p].wrote = procs[p].wrote /\ pipes' = pipes
      BY <2>1 DEF Ends1, SameData, SamePipes
    <2> QED BY <1>2, <1>6, <2>1, <2>2 DEF Program
  <1> QED BY <1>3, <1>12, <1>14, <1>15, <1>16

\* Every step keeps what is known of these programs.
LEMMA EagerStep ==
  ASSUME Typed, Placed, Room, IsLinked, RootWired, Forks, ChildrenWired, WaitsCome, Eagerly, Same,
         NEW p \in DOMAIN procs, Process(p)
  PROVE  Eagerly'
  <1> SUFFICES ASSUME NEW k \in 1 .. Stages, IsEager(launcher, Stages, k), line[k].known
        PROVE  LET F == ForkAt(launcher, Stages, k)
                   J == Joint(launcher, k)
               IN  /\ procs'[1].at = F => pipes'[J] = 0
                   /\ procs'[1].at = F + 1 =>
                        \A c \in DOMAIN procs' : procs'[c].parent = 1 /\ procs'[c].stage = k =>
                          /\ pipes'[J] = procs'[c].wrote
                          /\ procs'[c].state = "ended" => procs'[c].wrote = line[k].writes
                   /\ procs'[1].at > F + 1 => line[k].writes <= Capacity
    BY TextStays DEF Eagerly
  <1> DEFINE F == ForkAt(launcher, Stages, k)
             J == Joint(launcher, k)
             a == procs[1].at
  <1>2. /\ F \in Nat /\ F - 1 \in 1 .. Len(Text) /\ F \in 1 .. Len(Text) /\ F + 1 \in 1 .. Len(Text)
        /\ J = <<1, F - 1>> /\ Len(Text) \in Nat
        /\ Text[F - 1].op = "pipe" /\ Text[F].op = "fork" /\ Text[F].stage = k
        /\ Text[F + 1].op = "wait" /\ Text[F + 1].stage = k
    BY EagerContext
  <1>3. 1 \in DOMAIN procs /\ a \in Nat /\ procs[1].inside = 0
    BY TypedProc DEF Typed, RootWired, RootFor
  <1>4. a > F + 1 => line[k].writes <= Capacity
    BY DEF Eagerly
  <1>5. CASE p # 1
    <2>1. procs'[1] = procs[1]
      BY <1>5, RootGoes
    <2>2. Live(p)
      BY ProcessLives
    <2>3. a # F
      <3>1. ASSUME a = F PROVE FALSE
        <4>1. a = F + 0 /\ 0 \in {0, 1}
          BY <1>2, <3>1
        <4> HIDE DEF F
        <4> QED BY <1>5, <2>2, <4>1, FewLive DEF F
      <3> QED BY <3>1
    <2>4. CASE a = F + 1
      <3>1. \A c \in DOMAIN procs' : procs'[c].parent = 1 /\ procs'[c].stage = k =>
              /\ pipes'[J] = procs'[c].wrote
              /\ procs'[c].state = "ended" => procs'[c].wrote = line[k].writes
        BY <1>5, <2>4, AloneStep
      <3> HIDE DEF F, J
      <3> QED BY <1>2, <1>3, <2>1, <2>4, <3>1 DEF F, J
    <2>5. CASE a # F + 1
      <3> HIDE DEF F, J
      <3> QED BY <1>4, <2>1, <2>3, <2>5 DEF F, J
    <2> QED BY <2>4, <2>5
  <1>6. CASE p = 1
    <2>1. \/ a \in 1 .. Len(Text) /\ procs'[1].at = a + 1
          \/ procs'[1].at = a /\ a \notin {F, F + 1}
      <3>1. \/ a \in 1 .. Len(Text) /\ procs'[1].at = a + 1
            \/ procs'[1].at = a /\ (a <= Len(Text) => Text[a].op = "readAll")
        BY <1>6, RootGoes
      <3>2. F <= Len(Text) /\ F + 1 <= Len(Text)
        BY <1>2
      <3> QED BY <1>2, <3>1, <3>2
    <2>2. procs[1].state = "launcher" \/ a > Len(Text)
      BY <1>2, <1>3 DEF RootWired, RootFor
    <2>3. CASE a = F - 1 /\ procs'[1].at = a + 1
      <3>1. a <= Len(Text) /\ Instr(1) = Text[a] /\ Instr(1).op = "pipe" /\ procs[1].state = "launcher"
        BY <1>2, <1>3, <2>2, <2>3 DEF Instr
      <3>2. MakePipe(1)
        BY <1>6, <3>1, ActsBy
      <3>3. Runs(1, "pipe")
        BY <3>2 DEF MakePipe
      <3>4. PICK x, y \in Fds : x # y /\ procs[1].fds[x] = Nothing /\ procs[1].fds[y] = Nothing
        BY <1>3, <3>3, FreePair
      <3>5. pipes'[<<1, procs[1].at>>] = 0
        <4>1. LET j == <<1, procs[1].at>>
                  s0 == Instr(1).slot
              IN  /\ Others(1) /\ SameKin(1) /\ SameState(1) /\ Onward(1) /\ SameData(1)
                  /\ procs'[1] \in Procs
                  /\ DOMAIN pipes' = DOMAIN pipes \cup {j} /\ pipes'[j] = 0
                  /\ \A i \in DOMAIN pipes : i # j => pipes'[i] = pipes[i]
                  /\ \E r, w \in Fds :
                       /\ r # w /\ procs[1].fds[r] = Nothing /\ procs[1].fds[w] = Nothing
                       /\ \A d \in Fds : procs'[1].fds[d] = IF d = r THEN ReadEnd(j)
                                                            ELSE IF d = w THEN WriteEnd(j)
                                                            ELSE procs[1].fds[d]
                       /\ \A s \in Slots : procs'[1].slots[s] = IF s = s0 THEN r
                                                                ELSE IF s = s0 + 1 THEN w
                                                                ELSE procs[1].slots[s]
          BY <1>3, <3>2, <3>4, DoesPipe
        <4> QED BY <4>1
      <3>6. <<1, procs[1].at>> = J
        BY <1>2, <2>3
      <3>7. pipes'[J] = 0
        BY <3>5, <3>6
      <3>8. procs'[1].at = F
        BY <1>2, <2>3
      <3> HIDE DEF F, J
      <3> QED BY <1>2, <3>7, <3>8 DEF F, J
    <2>4. CASE a = F /\ procs'[1].at = a + 1
      <3> DEFINE d == Len(procs) + 1
      <3>1. a <= Len(Text) /\ Instr(1) = Text[a] /\ Instr(1).op = "fork" /\ procs[1].state = "launcher"
        BY <1>2, <1>3, <2>2, <2>4 DEF Instr
      <3>2. ForkChild(1)
        BY <1>6, <3>1, ActsBy
      <3>3. /\ DOMAIN procs' = DOMAIN procs \cup {d}
            /\ \A c \in DOMAIN procs : procs'[c].parent = procs[c].parent /\ procs'[c].stage = procs[c].stage
            /\ procs'[d].state = procs[1].state /\ procs'[d].wrote = procs[1].wrote /\ pipes' = pipes
        <4>1. Grown(1) /\ SameKin(1) /\ SamePipes /\ procs'[d].state = procs[1].state /\ procs'[d].wrote = procs[1].wrote
          BY <1>3, <3>2, DoesFork
        <4>2. \A c \in DOMAIN procs : procs'[c].parent = procs[c].parent /\ procs'[c].stage = procs[c].stage
          BY <4>1 DEF Grown, SameKin
        <4> QED BY <4>1, <4>2 DEF Grown, SamePipes
      <3>4. \A c \in DOMAIN procs : ~(procs[c].parent = 1 /\ procs[c].stage = k)
        <4>1. \A c \in DOMAIN procs : procs[c].parent = 1 => a > ForkAt(launcher, Stages, procs[c].stage)
          BY DEF Forks
        <4> QED BY <1>2, <1>3, <2>4, <4>1
      <3>5. procs[1].wrote = 0
        BY DEF RootWired, RootFor
      <3>6. pipes[J] = 0
        BY <2>4 DEF Eagerly
      <3> HIDE DEF d
      <3>7. \A c \in DOMAIN procs' : procs'[c].parent = 1 /\ procs'[c].stage = k =>
              /\ pipes'[J] = procs'[c].wrote
              /\ procs'[c].state = "ended" => procs'[c].wrote = line[k].writes
        BY <3>1, <3>3, <3>4, <3>5, <3>6
      <3>8. procs'[1].at = F + 1
        BY <2>4
      <3> HIDE DEF F, J
      <3> QED BY <1>2, <3>7, <3>8 DEF F, J
    <2>5. CASE a = F + 1 /\ procs'[1].at = a + 1
      <3>1. a <= Len(Text) /\ Instr(1) = Text[a] /\ Instr(1).op = "wait" /\ Instr(1).stage = k /\ procs[1].state = "launcher"
        BY <1>2, <1>3, <2>2, <2>5 DEF Instr
      <3>2. WaitFor(1)
        BY <1>6, <3>1, ActsBy
      <3>3. \A c \in Children(1, k) : ~Live(c)
        BY <3>1, <3>2 DEF WaitFor
      <3>4. a > F
        BY <1>2, <2>5
      <3>5. PICK c \in DOMAIN procs : procs[c].parent = 1 /\ procs[c].stage = k
        BY <3>4 DEF Forks
      <3>6. procs[c].state = "ended"
        BY <3>3, <3>5, TypedProc DEF Children, Live
      <3>7. pipes[J] = procs[c].wrote /\ procs[c].wrote = line[k].writes
        BY <2>5, <3>5, <3>6 DEF Eagerly
      <3>8. J \in DOMAIN pipes
        <4>1. \E s : Knows(launcher, Stages, procs[1].at, s, R(launcher, k))
          BY <2>5, EagerContext
        <4>2. R(launcher, k) # Unset
          BY Ends
        <4>3. Holds(1, R(launcher, k))
          BY <1>2, <2>5, <4>1, <4>2, RootHolds
        <4> QED BY <1>3, <4>3, JointOpen
      <3>9. pipes[J] \in 0 .. Capacity /\ Capacity \in Nat
        BY <3>8, Context DEF Typed
      <3>10. line[k].writes <= Capacity
        BY <3>7, <3>9
      <3>11. procs'[1].at = F + 2
        BY <1>2, <2>5
      <3> HIDE DEF F, J
      <3> QED BY <1>2, <3>10, <3>11 DEF F, J
    <2>6. CASE procs'[1].at \notin {F, F + 1} /\ (procs'[1].at > F + 1 => a > F + 1)
      <3> HIDE DEF F, J
      <3> QED BY <1>4, <2>6 DEF F, J
    <2>7. \/ a = F - 1 /\ procs'[1].at = a + 1
          \/ a = F /\ procs'[1].at = a + 1
          \/ a = F + 1 /\ procs'[1].at = a + 1
          \/ procs'[1].at \notin {F, F + 1} /\ (procs'[1].at > F + 1 => a > F + 1)
      <3> HIDE DEF F, a
      <3> QED BY <1>2, <1>3, <2>1
    <2> QED BY <2>3, <2>4, <2>5, <2>6, <2>7
  <1> QED BY <1>5, <1>6

\* So a program that writes more than a pipe holds is never waited for in vain: the launcher
\* does not return.
LEMMA EagerEnds ==
  ASSUME Typed, IsLinked => RootWired /\ Eagerly
  PROVE  OverflowIsFatal
  <1> SUFFICES ASSUME Returned, Overflow PROVE FALSE
    BY DEF OverflowIsFatal
  <1>1. PICK k \in 1 .. Stages : IsEager(launcher, Stages, k) /\ line[k].known /\ line[k].writes > Capacity
    BY DEF Overflow, IsEager
  <1>2. IsLinked
    <2>1. Stages \in Nat /\ k \in Nat /\ k <= Stages /\ Accepts(launcher, Stages)
      BY Context DEF Typed, Chosen
    <2> QED BY <1>1, <2>1 DEF IsLinked, Linked, IsEager, Accepts
  <1>3. procs[1].at = Len(Text) + 1
    BY <1>2 DEF Returned, RootWired, RootFor
  <1>4. ForkAt(launcher, Stages, k) + 1 \in 1 .. Len(Text) /\ Len(Text) \in Nat
    BY <1>1, <1>2, EagerContext
  <1>5. procs[1].at > ForkAt(launcher, Stages, k) + 1
    BY <1>3, <1>4
  <1>6. line[k].writes <= Capacity
    BY <1>1, <1>2, <1>5 DEF Eagerly
  <1>7. line[k].writes \in Nat /\ Capacity \in Nat
    BY Context DEF Typed
  <1> QED BY <1>1, <1>6, <1>7

\* inf15-2.c reads the pipe it has made its standard input.
Gcc == launcher = "inf15_2" /\ procs[1].at \in 6 .. 7 => procs[1].fds[0] = R(launcher, 1)

\* Which launcher is linked, and how many programs it is given.
LEMMA GccContext ==
  ASSUME Typed, launcher = "inf15_2"
  PROVE  IsLinked /\ Stages = 1 /\ Text = Code("inf15_2", 1)
  <1>1. Accepts(launcher, Stages) /\ Text = Code(launcher, Stages)
    BY Context DEF Typed, Chosen
  <1>2. Stages = 1
    BY <1>1 DEF Accepts
  <1> QED BY <1>1, <1>2 DEF IsLinked, Linked

\* Every step keeps it.
LEMMA GccStep ==
  ASSUME Typed, Placed, Room, IsLinked, RootWired, Gcc, Same, NEW p \in DOMAIN procs, Process(p)
  PROVE  Gcc'
  <1> SUFFICES ASSUME launcher = "inf15_2", procs'[1].at \in 6 .. 7
               PROVE  procs'[1].fds[0] = R(launcher, 1)
    BY TextStays DEF Gcc
  <1> DEFINE a == procs[1].at
             C == Code("inf15_2", 1)
             r == R("inf15_2", 1)
  <1>1. /\ Len(C) = 7 /\ C[5] = Dup2(0, 0) /\ C[6] = Close(0) /\ C[7] = ReadAll
        /\ Knows("inf15_2", 1, 5, 0, r) /\ Knows("inf15_2", 1, 6, 0, r)
    BY ReadAll152
  <1>2. Stages = 1 /\ Text = C /\ Len(Text) = 7
    BY <1>1, GccContext
  <1>3. 1 \in DOMAIN procs /\ a \in Nat /\ procs[1].inside = 0 /\ procs[1].state # "program"
    BY TypedProc DEF Typed, RootWired, RootFor
  <1>4. /\ Dup2(0, 0).op = "dup2" /\ Dup2(0, 0).slot = 0 /\ Dup2(0, 0).to = 0
        /\ Close(0).op = "close" /\ Close(0).slot = 0 /\ ReadAll.op = "readAll"
    BY DEF Dup2, Close, ReadAll
  <1>5. r # Unset /\ r # Nothing
    BY Ends, HandleEnds
  <1>6. 0 \in Fds /\ 0 \in Slots
    BY <1>2 DEF Fds, Slots
  <1>7. CASE p # 1
    <2>1. procs'[1] = procs[1]
      BY <1>7, RootGoes
    <2> QED BY <2>1 DEF Gcc
  <1>8. CASE p = 1
    <2>1. \/ a \in 1 .. 7 /\ procs'[1].at = a + 1
          \/ procs'[1].at = a /\ (a <= 7 => Text[a].op = "readAll")
      BY <1>2, <1>8, RootGoes
    <2>20. procs[1].state = "launcher" \/ a = Len(Text) + 1
      BY DEF RootWired, RootFor
    <2>2. procs[1].state = "launcher" \/ a = 8
      <3> HIDE DEF a, C
      <3> QED BY <1>2, <2>20
    <2>3. a \in 5 .. 7
      BY <1>3, <2>1
    <2>4. procs[1].state = "launcher" /\ a <= Len(Text) /\ Instr(1) = Text[a]
      <3>1. procs[1].state = "launcher" /\ a <= 7
        BY <2>2, <2>3
      <3> QED BY <1>2, <1>3, <3>1 DEF Instr
    <2>5. CASE a = 7
      <3>1. Instr(1).op = "readAll"
        BY <1>1, <1>2, <1>4, <2>4, <2>5
      <3>2. ReadLoop(1)
        BY <1>8, <2>4, <3>1, ActsBy
      <3>3. Moves1(1)
        BY <1>3, <3>2, DoesReadLoop DEF Takes, Sees
      <3>4. procs'[1].fds = procs[1].fds
        BY <3>3 DEF Moves1, SameFiles
      <3> QED BY <2>5, <3>4 DEF Gcc
    <2>6. CASE a = 6
      <3>1. Instr(1) = Close(0)
        BY <1>1, <1>2, <2>4, <2>6
      <3>2. CloseSlot(1)
        <4>1. \A op : Runs(1, op) => op = "close"
          BY <1>4, <3>1 DEF Runs
        <4>2. ~(Instr(1).op = "exit")
          BY <1>4, <3>1
        <4> QED BY <1>3, <1>8, <2>4, <4>1, <4>2
            DEF Process, Launch, MakePipe, Redirect, AssignSlot, ForkChild, Execute, WaitFor,
                ExitLauncher, ReadOnce, ReadLoop, ReadInput, WriteOutput, EndProgram
      <3>3. \A d \in Fds : procs'[1].fds[d] = IF d = procs[1].slots[Instr(1).slot] THEN Nothing ELSE procs[1].fds[d]
        BY <1>3, <3>2, DoesClose
      <3>4. KnownIn(procs[1], 0, r)
        BY <1>1, <1>2, <2>6 DEF RootWired, RootFor
      <3>5. procs[1].slots[0] > 2
        BY <1>5, <3>4 DEF KnownIn
      <3>6. Instr(1).slot = 0
        BY <1>4, <3>1
      <3>7. procs'[1].fds[0] = procs[1].fds[0]
        BY <1>6, <3>3, <3>5, <3>6
      <3> QED BY <2>6, <3>7 DEF Gcc
    <2>7. CASE a = 5
      <3>1. Instr(1) = Dup2(0, 0)
        BY <1>1, <1>2, <2>4, <2>7
      <3>2. Redirect(1)
        <4>1. \A op : Runs(1, op) => op = "dup2"
          BY <1>4, <3>1 DEF Runs
        <4>2. ~(Instr(1).op = "exit")
          BY <1>4, <3>1
        <4> QED BY <1>3, <1>8, <2>4, <4>1, <4>2
            DEF Process, Launch, MakePipe, CloseSlot, AssignSlot, ForkChild, Execute, WaitFor,
                ExitLauncher, ReadOnce, ReadLoop, ReadInput, WriteOutput, EndProgram
      <3>3. KnownIn(procs[1], 0, r)
        BY <1>1, <1>2, <2>7 DEF RootWired, RootFor
      <3>4. procs[1].slots[0] > 2 /\ procs[1].fds[procs[1].slots[0]] = r
        BY <1>5, <3>3 DEF KnownIn
      <3>5. procs[1].slots[0] \in Fds
        <4>1. procs[1].slots \in [Slots -> Fds \cup {-1}]
          BY <1>3, TypedProc DEF SlotMaps
        <4>2. procs[1].slots[0] \in Fds \cup {-1}
          BY <1>6, <4>1
        <4> QED BY <3>4, <4>2
      <3>6. Instr(1).slot = 0 /\ Instr(1).to = 0
        BY <1>4, <3>1
      <3>7. Handle(1, Instr(1).slot) = r
        BY <3>4, <3>5, <3>6 DEF Handle
      <3>8. LET h == Handle(1, Instr(1).slot)
            IN  /\ Others(1) /\ SameKin(1) /\ SameState(1) /\ Onward(1) /\ SameData(1) /\ SamePipes
                /\ procs'[1] \in Procs /\ procs'[1].slots = procs[1].slots
                /\ \A d \in Fds : procs'[1].fds[d] = IF d = Instr(1).to /\ h # Nothing THEN h ELSE procs[1].fds[d]
                /\ h = Nothing \/ \E d \in Fds : h = procs[1].fds[d]
        BY <1>3, <3>2, DoesDup2
      <3> QED BY <1>5, <1>6, <3>6, <3>7, <3>8
    <2> QED BY <2>3, <2>5, <2>6, <2>7
  <1> QED BY <1>7, <1>8

(***************************************************************************)
(* What goes through the pipe behind the k-th program.                     *)
(***************************************************************************)
\* The process r, which is there for stage s, reads what the k-th program writes.
ReadsFrom(l, r, s, k) == IF l = "inf15_2" THEN r = 1 ELSE r # 1 /\ s = k + 1
\* What was written is what has been read and what the pipe holds, and whoever has seen the
\* end was right to.
Balanced(k) ==
  /\ (/\ Joint(launcher, k) \in DOMAIN pipes
      /\ \A c \in DOMAIN procs : ~(procs[c].parent = 1 /\ procs[c].stage = k)) => pipes[Joint(launcher, k)] = 0
  /\ \A c \in DOMAIN procs : procs[c].parent = 1 /\ procs[c].stage = k =>
       /\ Joint(launcher, k) \in DOMAIN pipes
       /\ (\A r \in DOMAIN procs : ~ReadsFrom(launcher, r, procs[r].stage, k)) =>
            pipes[Joint(launcher, k)] = procs[c].wrote
       /\ \A r \in DOMAIN procs : ReadsFrom(launcher, r, procs[r].stage, k) =>
            /\ procs[c].wrote = pipes[Joint(launcher, k)] + procs[r].took
            /\ procs[r].eof => ~Live(c) /\ pipes[Joint(launcher, k)] = 0

\* The same of the next state, when launcher and line stay.
LEMMA BalancedNext ==
  ASSUME Same, NEW k, NEW J, J = Joint(launcher, k),
         (/\ J \in DOMAIN pipes'
          /\ \A c \in DOMAIN procs' : ~(procs'[c].parent = 1 /\ procs'[c].stage = k)) => pipes'[J] = 0,
         \A c \in DOMAIN procs' : procs'[c].parent = 1 /\ procs'[c].stage = k =>
           /\ J \in DOMAIN pipes'
           /\ (\A r \in DOMAIN procs' : ~ReadsFrom(launcher, r, procs'[r].stage, k)) => pipes'[J] = procs'[c].wrote
           /\ \A r \in DOMAIN procs' : ReadsFrom(launcher, r, procs'[r].stage, k) =>
                /\ procs'[c].wrote = pipes'[J] + procs'[r].took
                /\ procs'[r].eof => ~Live(c)' /\ pipes'[J] = 0
  PROVE  Balanced(k)'
  <1>1. launcher' = launcher
    BY TextStays
  <1> QED BY <1>1 DEF Balanced

\* A step that changes neither the pipe, nor its writer, nor its readers.
LEMMA BalancedOther ==
  ASSUME NEW k, NEW J, J = Joint(launcher, k), Balanced(k), Same,
         DOMAIN procs' = DOMAIN procs,
         \A q \in DOMAIN procs : procs'[q].parent = procs[q].parent /\ procs'[q].stage = procs[q].stage,
         J \in DOMAIN pipes' <=> J \in DOMAIN pipes, J \in DOMAIN pipes => pipes'[J] = pipes[J],
         \A c \in DOMAIN procs : procs[c].parent = 1 /\ procs[c].stage = k =>
           procs'[c].wrote = procs[c].wrote /\ (Live(c)' => Live(c)),
         \A r \in DOMAIN procs : ReadsFrom(launcher, r, procs[r].stage, k) =>
           procs'[r].took = procs[r].took /\ procs'[r].eof = procs[r].eof
  PROVE  Balanced(k)'
  <1>1. /\ (/\ J \in DOMAIN pipes
            /\ \A c \in DOMAIN procs : ~(procs[c].parent = 1 /\ procs[c].stage = k)) => pipes[J] = 0
        /\ \A c \in DOMAIN procs : procs[c].parent = 1 /\ procs[c].stage = k =>
             /\ J \in DOMAIN pipes
             /\ (\A r \in DOMAIN procs : ~ReadsFrom(launcher, r, procs[r].stage, k)) => pipes[J] = procs[c].wrote
             /\ \A r \in DOMAIN procs : ReadsFrom(launcher, r, procs[r].stage, k) =>
                  /\ procs[c].wrote = pipes[J] + procs[r].took
                  /\ procs[r].eof => ~Live(c) /\ pipes[J] = 0
    BY DEF Balanced
  <1>2. ASSUME J \in DOMAIN pipes', \A c \in DOMAIN procs' : ~(procs'[c].parent = 1 /\ procs'[c].stage = k)
        PROVE  pipes'[J] = 0
    BY <1>1, <1>2
  <1>3. ASSUME NEW c \in DOMAIN procs', procs'[c].parent = 1, procs'[c].stage = k
        PROVE  /\ J \in DOMAIN pipes'
               /\ (\A r \in DOMAIN procs' : ~ReadsFrom(launcher, r, procs'[r].stage, k)) => pipes'[J] = procs'[c].wrote
               /\ \A r \in DOMAIN procs' : ReadsFrom(launcher, r, procs'[r].stage, k) =>
                    /\ procs'[c].wrote = pipes'[J] + procs'[r].took
                    /\ procs'[r].eof => ~Live(c)' /\ pipes'[J] = 0
    <2>1. c \in DOMAIN procs /\ procs[c].parent = 1 /\ procs[c].stage = k
      BY <1>3
    <2>2. /\ J \in DOMAIN pipes /\ pipes'[J] = pipes[J] /\ procs'[c].wrote = procs[c].wrote
          /\ (\A r \in DOMAIN procs : ~ReadsFrom(launcher, r, procs[r].stage, k)) => pipes[J] = procs[c].wrote
          /\ \A r \in DOMAIN procs : ReadsFrom(launcher, r, procs[r].stage, k) =>
               /\ procs[c].wrote = pipes[J] + procs[r].took
               /\ procs[r].eof => ~Live(c) /\ pipes[J] = 0
      BY <1>1, <2>1
    <2>3. Live(c)' => Live(c)
      BY <2>1
    <2>4. \A r \in DOMAIN procs' : r \in DOMAIN procs /\ procs'[r].stage = procs[r].stage
      OBVIOUS
    <2>5. ASSUME NEW r \in DOMAIN procs', ReadsFrom(launcher, r, procs'[r].stage, k)
          PROVE  /\ procs'[c].wrote = pipes'[J] + procs'[r].took
                 /\ procs'[r].eof => ~Live(c)' /\ pipes'[J] = 0
      <3>1. /\ procs'[r].took = procs[r].took /\ procs'[r].eof = procs[r].eof
            /\ r \in DOMAIN procs /\ ReadsFrom(launcher, r, procs[r].stage, k)
        BY <2>4, <2>5
      <3> QED BY <2>2, <2>3, <3>1
    <2>6. ASSUME \A r \in DOMAIN procs' : ~ReadsFrom(launcher, r, procs'[r].stage, k)
          PROVE  pipes'[J] = procs'[c].wrote
      BY <2>2, <2>4, <2>6
    <2> QED BY <2>2, <2>5, <2>6
  <1> QED BY <1>2, <1>3, BalancedNext

\* When all programs are known, every process but the launcher is a child of it.
AllKids == \A c \in DOMAIN procs : c # 1 => procs[c].parent = 1

\* Each program has a pipe of its own behind it.
LEMMA JointsDiffer ==
  ASSUME Typed, IsLinked, NEW j \in 1 .. Stages, NEW k \in 1 .. Stages, j # k,
         Targets(launcher, Stages, j), Targets(launcher, Stages, k)
  PROVE  Joint(launcher, j) # Joint(launcher, k)
  <1>1. Apart(launcher, Stages)
    BY LinkedContext DEF Typed
  <1>2. MadeAt(launcher, j) # MadeAt(launcher, k)
    BY <1>1 DEF Apart
  <1> QED BY <1>2 DEF Joint

\* Only one process reads from a pipe.
LEMMA OneReader ==
  ASSUME Typed, Forks, AllKids, RootWired, NEW k,
         NEW p \in DOMAIN procs, NEW q \in DOMAIN procs,
         ReadsFrom(launcher, p, procs[p].stage, k), ReadsFrom(launcher, q, procs[q].stage, k)
  PROVE  p = q
  <1>1. CASE launcher = "inf15_2"
    BY <1>1 DEF ReadsFrom
  <1>2. CASE launcher # "inf15_2"
    <2>1. p # 1 /\ q # 1 /\ procs[p].stage = k + 1 /\ procs[q].stage = k + 1
      BY <1>2 DEF ReadsFrom
    <2>2. procs[p].parent = 1 /\ procs[q].parent = 1
      BY <2>1 DEF AllKids
    <2> QED BY <2>1, <2>2 DEF Forks
  <1> QED BY <1>1, <1>2

\* A pipe that is made is empty, and nobody has been forked to write to it.
LEMMA BalancedMade ==
  ASSUME Typed, Placed, Room, IsLinked, RootWired, Forks, Same, MakePipe(1),
         NEW k \in 1 .. Stages, Targets(launcher, Stages, k), Balanced(k)
  PROVE  Balanced(k)'
  <1> DEFINE J == Joint(launcher, k)
             a == procs[1].at
  <1>1. Runs(1, "pipe") /\ 1 \in DOMAIN procs
    BY DEF MakePipe, Typed
  <1>2. PICK x, y \in Fds : x # y /\ procs[1].fds[x] = Nothing /\ procs[1].fds[y] = Nothing
    BY <1>1, FreePair
  <1>3. LET j == <<1, procs[1].at>>
            s0 == Instr(1).slot
        IN  /\ Others(1) /\ SameKin(1) /\ SameState(1) /\ Onward(1) /\ SameData(1)
            /\ procs'[1] \in Procs
            /\ DOMAIN pipes' = DOMAIN pipes \cup {j} /\ pipes'[j] = 0
            /\ \A i \in DOMAIN pipes : i # j => pipes'[i] = pipes[i]
            /\ \E r, w \in Fds :
                 /\ r # w /\ procs[1].fds[r] = Nothing /\ procs[1].fds[w] = Nothing
                 /\ \A d \in Fds : procs'[1].fds[d] = IF d = r THEN ReadEnd(j)
                                                      ELSE IF d = w THEN WriteEnd(j)
                                                      ELSE procs[1].fds[d]
                 /\ \A s \in Slots : procs'[1].slots[s] = IF s = s0 THEN r
                                                          ELSE IF s = s0 + 1 THEN w
                                                          ELSE procs[1].slots[s]
    BY ZenonT(60), <1>1, <1>2, DoesPipe
  <1>4. /\ Others(1) /\ SameKin(1) /\ SameState(1) /\ SameData(1)
        /\ DOMAIN pipes' = DOMAIN pipes \cup {<<1, a>>} /\ pipes'[<<1, a>>] = 0
        /\ \A i \in DOMAIN pipes : i # <<1, a>> => pipes'[i] = pipes[i]
    BY <1>3
  <1>5. /\ DOMAIN procs' = DOMAIN procs
        /\ \A q \in DOMAIN procs :
             /\ procs'[q].parent = procs[q].parent /\ procs'[q].stage = procs[q].stage
             /\ procs'[q].state = procs[q].state /\ procs'[q].took = procs[q].took
             /\ procs'[q].wrote = procs[q].wrote /\ procs'[q].eof = procs[q].eof
    BY <1>4 DEF Others, SameKin, SameState, SameData
  <1>6. CASE J = <<1, a>>
    <2>1. ASSUME NEW c \in DOMAIN procs, procs[c].parent = 1, procs[c].stage = k PROVE FALSE
      <3>1. a > ForkAt(launcher, Stages, k)
        BY <2>1 DEF Forks
      <3>2. MadeAt(launcher, k) \in 1 .. ForkAt(launcher, Stages, k) - 1
        BY LinkedContext DEF Typed, Apart
      <3>3. a = MadeAt(launcher, k)
        BY <1>6 DEF Joint
      <3>4. ForkAt(launcher, Stages, k) \in Nat /\ a \in Nat
        BY <1>1, ForkPlaces, TypedProc
      <3> HIDE DEF a
      <3> QED BY <3>1, <3>2, <3>3, <3>4
    <2>2. pipes'[J] = 0
      BY <1>4, <1>6
    <2> HIDE DEF J
    <2> QED BY <1>5, <2>1, <2>2, BalancedNext DEF J
  <1>7. CASE J # <<1, a>>
    <2>1. (J \in DOMAIN pipes' <=> J \in DOMAIN pipes) /\ (J \in DOMAIN pipes => pipes'[J] = pipes[J])
      BY <1>4, <1>7
    <2>2. \A c : (Live(c)' <=> procs'[c].state \in {"launcher", "program"}) /\ (Live(c) <=> procs[c].state \in {"launcher", "program"})
      BY DEF Live
    <2> HIDE DEF J
    <2> QED BY <1>5, <2>1, <2>2, BalancedOther DEF J
  <1> QED BY <1>6, <1>7

\* A program that is forked finds its pipe empty, and has read nothing.
LEMMA BalancedFork ==
  ASSUME Typed, Placed, Room, IsLinked, RootWired, Forks, AllKids, Same, ForkChild(1),
         NEW k \in 1 .. Stages, Targets(launcher, Stages, k), Balanced(k)
  PROVE  Balanced(k)'
  <1> DEFINE J == Joint(launcher, k)
             a == procs[1].at
             d == Len(procs) + 1
             m == Text[a].stage
             F(i) == ForkAt(launcher, Stages, i)
             l == launcher
  <1>1. Runs(1, "fork") /\ 1 \in DOMAIN procs
    BY DEF ForkChild, Typed
  <1>2. a \in 1 .. Len(Text) /\ Instr(1) = Text[a] /\ m \in 1 .. Stages /\ a = F(m)
    BY <1>1, RootRules DEF Orders
  <1>3. /\ DOMAIN procs' = DOMAIN procs \cup {d} /\ d \notin DOMAIN procs
        /\ \A q \in DOMAIN procs : q # 1 => procs'[q] = procs[q]
        /\ SameKin(1) /\ SameState(1) /\ SameData(1) /\ pipes' = pipes
        /\ procs'[d].parent = 1 /\ procs'[d].stage = Instr(1).stage
        /\ procs'[d].took = procs[1].took /\ procs'[d].wrote = procs[1].wrote /\ procs'[d].eof = procs[1].eof
    BY <1>1, DoesFork DEF Grown, SamePipes
  <1>4. \A q \in DOMAIN procs :
          /\ procs'[q].parent = procs[q].parent /\ procs'[q].stage = procs[q].stage
          /\ procs'[q].state = procs[q].state /\ procs'[q].took = procs[q].took
          /\ procs'[q].wrote = procs[q].wrote /\ procs'[q].eof = procs[q].eof
    BY <1>3 DEF SameKin, SameState, SameData
  <1>5. procs[1].took = 0 /\ procs[1].wrote = 0 /\ ~procs[1].eof
    <2>1. F(m) \in 1 .. Len(Text) /\ Len(Text) \in Nat /\ (m < Stages => F(m) < F(Stages)) /\ F(Stages) \in 1 .. Len(Text)
      BY <1>2, ForkPlaces
    <2>2. m = Stages \/ m < Stages
      BY <1>2, ForkPlaces
    <2>3. a <= F(Stages)
      <3> HIDE DEF F, m
      <3> QED BY <1>2, <2>1, <2>2
    <2> QED BY <2>3 DEF RootWired, RootFor
  <1>6. /\ procs'[d].stage = m /\ procs'[d].took = 0 /\ procs'[d].wrote = 0 /\ procs'[d].eof = FALSE
        /\ d # 1
    <2>1. procs[1].eof \in BOOLEAN
      BY <1>1, TypedProc
    <2> QED BY <1>1, <1>2, <1>3, <1>5, <2>1
  <1>7. \A i \in 1 .. Stages : F(i) \in Nat /\ (i > m => F(m) < F(i))
    BY <1>2, ForkPlaces
  <1>8. \A c \in DOMAIN procs : procs[c].parent = 1 => procs[c].stage \in 1 .. Stages /\ a > F(procs[c].stage)
    BY DEF Forks
  <1>9. k \in Nat /\ m \in Nat /\ a \in Nat /\ Stages \in Nat
    BY <1>1, <1>2, ForkPlaces, TypedProc
  <1>10. \A c \in DOMAIN procs : procs[c].parent = 1 => procs[c].stage < m
    <2> SUFFICES ASSUME NEW c \in DOMAIN procs, procs[c].parent = 1, ~(procs[c].stage < m) PROVE FALSE
      OBVIOUS
    <2> DEFINE i == procs[c].stage
    <2>1. i \in 1 .. Stages /\ a > F(i)
      BY <1>8
    <2>2. i = m \/ i > m
      <3> HIDE DEF m, i
      <3> QED BY <1>9, <2>1 DEF i
    <2>3. F(i) \in Nat /\ (i > m => F(m) < F(i))
      BY <1>7, <2>1
    <2> HIDE DEF F, m, i, a
    <2> QED BY <1>2, <1>9, <2>1, <2>2, <2>3
  <1>11. /\ (/\ J \in DOMAIN pipes
             /\ \A c \in DOMAIN procs : ~(procs[c].parent = 1 /\ procs[c].stage = k)) => pipes[J] = 0
         /\ \A c \in DOMAIN procs : procs[c].parent = 1 /\ procs[c].stage = k =>
              /\ J \in DOMAIN pipes
              /\ (\A r \in DOMAIN procs : ~ReadsFrom(l, r, procs[r].stage, k)) => pipes[J] = procs[c].wrote
              /\ \A r \in DOMAIN procs : ReadsFrom(l, r, procs[r].stage, k) =>
                   /\ procs[c].wrote = pipes[J] + procs[r].took
                   /\ procs[r].eof => ~Live(c) /\ pipes[J] = 0
    BY DEF Balanced
  <1>12. \A q : (Live(q)' <=> procs'[q].state \in {"launcher", "program"}) /\ (Live(q) <=> procs[q].state \in {"launcher", "program"})
    BY DEF Live
  <1>13. m = k => J \in DOMAIN pipes
    <2> SUFFICES ASSUME m = k PROVE J \in DOMAIN pipes
      OBVIOUS
    <2> DEFINE B == Body(launcher, Stages, k)
    <2>1. BodyRules(launcher, Stages, k)
      BY ForkPlaces
    <2>2. Text = Code(launcher, Stages) /\ Text[a].op = "fork"
      BY <1>1, RootRules, Context DEF Typed
    <2>3. B = Text[a].body
      BY <1>2, <2>2 DEF Body
    <2>4. Len(B) \in Nat /\ Len(B) > 0
      <3>1. Instr(1).body # <<>> /\ Len(Instr(1).body) \in Nat /\ Len(Instr(1).body) > 0
        BY <1>1, Forker
      <3>2. Instr(1).body = B
        BY <1>2, <2>3
      <3> HIDE DEF B
      <3> QED BY <3>1, <3>2
    <2>5. 1 \in 1 .. Len(B) /\ \A z \in 1 .. 1 - 1 : FALSE
      BY <2>4
    <2>6. \/ \E s : Left(launcher, Stages, k, 1, s, W(launcher, k))
          \/ Moved(launcher, Stages, k, 1, OutFd(launcher), W(launcher, k))
      BY <2>1, <2>5 DEF BodyRules
    <2>7. ~Moved(launcher, Stages, k, 1, OutFd(launcher), W(launcher, k))
      BY <2>5 DEF Moved
    <2>8. PICK s : Knows(launcher, Stages, a, s, W(launcher, k))
      BY <1>2, <2>6, <2>7 DEF Left, Facts
    <2>9. Holds(1, W(launcher, k))
      BY <1>2, <2>8, RootHolds, Ends
    <2> QED BY <1>1, <2>9, JointOpen
  <1>14. procs'[d].stage = k <=> m = k
    BY <1>6
  <1>15. ASSUME NEW r \in DOMAIN procs'
         PROVE  ReadsFrom(l, r, procs'[r].stage, k) <=>
                  \/ r \in DOMAIN procs /\ ReadsFrom(l, r, procs[r].stage, k)
                  \/ r = d /\ l # "inf15_2" /\ m = k + 1
    <2> HIDE DEF d, m
    <2> QED BY <1>1, <1>3, <1>4, <1>6 DEF ReadsFrom
  <1> HIDE DEF J, d, m, F, l
  <1>16. ASSUME J \in DOMAIN pipes', \A c \in DOMAIN procs' : ~(procs'[c].parent = 1 /\ procs'[c].stage = k)
         PROVE  pipes'[J] = 0
    BY <1>3, <1>4, <1>11, <1>16
  <1>17. ASSUME NEW c \in DOMAIN procs', procs'[c].parent = 1, procs'[c].stage = k
         PROVE  /\ J \in DOMAIN pipes'
                /\ (\A r \in DOMAIN procs' : ~ReadsFrom(l, r, procs'[r].stage, k)) => pipes'[J] = procs'[c].wrote
                /\ \A r \in DOMAIN procs' : ReadsFrom(l, r, procs'[r].stage, k) =>
                     /\ procs'[c].wrote = pipes'[J] + procs'[r].took
                     /\ procs'[r].eof => ~Live(c)' /\ pipes'[J] = 0
    <2>1. CASE c = d
      <3>1. m = k /\ J \in DOMAIN pipes
        BY <1>13, <1>14, <1>17, <2>1
      <3>2. pipes[J] = 0
        BY <1>9, <1>10, <1>11, <3>1
      <3>3. ASSUME NEW r \in DOMAIN procs', ReadsFrom(l, r, procs'[r].stage, k)
            PROVE  procs'[r].took = 0 /\ ~procs'[r].eof
        <4>1. m # k + 1
          BY <1>9, <3>1
        <4>2. r \in DOMAIN procs /\ ReadsFrom(l, r, procs[r].stage, k)
          BY <1>15, <3>3, <4>1
        <4>3. CASE l = "inf15_2"
          BY <1>4, <1>5, <4>2, <4>3 DEF ReadsFrom
        <4>4. CASE l # "inf15_2"
          <5>1. r # 1 /\ procs[r].stage = k + 1
            BY <4>2, <4>4 DEF ReadsFrom
          <5>2. procs[r].parent = 1
            BY <4>2, <5>1 DEF AllKids
          <5>3. procs[r].stage < m
            BY <1>10, <4>2, <5>2
          <5> QED BY <1>9, <3>1, <5>1, <5>3
        <4> QED BY <4>3, <4>4
      <3> QED BY <1>3, <1>6, <2>1, <3>1, <3>2, <3>3
    <2>2. CASE c \in DOMAIN procs
      <3>1. procs[c].parent = 1 /\ procs[c].stage = k /\ procs'[c].wrote = procs[c].wrote
        BY <1>4, <1>17, <2>2
      <3>2. /\ J \in DOMAIN pipes
            /\ (\A r \in DOMAIN procs : ~ReadsFrom(l, r, procs[r].stage, k)) => pipes[J] = procs[c].wrote
            /\ \A r \in DOMAIN procs : ReadsFrom(l, r, procs[r].stage, k) =>
                 /\ procs[c].wrote = pipes[J] + procs[r].took
                 /\ procs[r].eof => ~Live(c) /\ pipes[J] = 0
        BY <1>11, <2>2, <3>1
      <3>3. Live(c)' <=> Live(c)
        BY <1>4, <1>12, <2>2
      <3>4. ASSUME \A r \in DOMAIN procs' : ~ReadsFrom(l, r, procs'[r].stage, k)
            PROVE  pipes'[J] = procs'[c].wrote
        <4>1. \A r \in DOMAIN procs : ~ReadsFrom(l, r, procs[r].stage, k)
          BY <1>3, <1>15, <3>4
        <4> QED BY <1>3, <3>1, <3>2, <4>1
      <3>5. ASSUME NEW r \in DOMAIN procs', ReadsFrom(l, r, procs'[r].stage, k)
            PROVE  /\ procs'[c].wrote = pipes'[J] + procs'[r].took
                   /\ procs'[r].eof => ~Live(c)' /\ pipes'[J] = 0
        <4>1. CASE r \in DOMAIN procs /\ ReadsFrom(l, r, procs[r].stage, k)
          <5>1. procs'[r].took = procs[r].took /\ procs'[r].eof = procs[r].eof
            BY <1>4, <4>1
          <5> QED BY <1>3, <3>1, <3>2, <3>3, <4>1, <5>1
        <4>2. CASE r = d /\ l # "inf15_2" /\ m = k + 1
          <5>1. ASSUME NEW q \in DOMAIN procs, ReadsFrom(l, q, procs[q].stage, k) PROVE FALSE
            <6>1. q # 1 /\ procs[q].stage = k + 1
              BY <4>2, <5>1 DEF ReadsFrom
            <6>2. procs[q].parent = 1
              BY <6>1 DEF AllKids
            <6>3. procs[q].stage < m
              BY <1>10, <6>2
            <6> QED BY <1>9, <4>2, <6>1, <6>3
          <5>2. pipes[J] = procs[c].wrote
            BY <3>2, <5>1
          <5>3. pipes[J] \in Nat
            BY <3>2, Context DEF Typed
          <5> QED BY <1>3, <1>6, <3>1, <4>2, <5>2, <5>3
        <4> QED BY <1>15, <3>5, <4>1, <4>2
      <3> QED BY <1>3, <3>2, <3>4, <3>5
    <2> QED BY <1>3, <2>1, <2>2
  <1>18. J = Joint(launcher, k)
    BY DEF J
  <1> QED BY <1>16, <1>17, <1>18, BalancedNext DEF l

\* A step that reads and writes nothing.
LEMMA BalancedQuiet ==
  ASSUME Typed, Same, NEW p \in DOMAIN procs, Others(p),
         procs'[p].parent = procs[p].parent, procs'[p].stage = procs[p].stage,
         SameData(p), pipes' = pipes, Live(p)' => Live(p), NEW k, Balanced(k)
  PROVE  Balanced(k)'
  <1> DEFINE J == Joint(launcher, k)
  <1>1. /\ DOMAIN procs' = DOMAIN procs
        /\ \A q \in DOMAIN procs :
             /\ procs'[q].parent = procs[q].parent /\ procs'[q].stage = procs[q].stage
             /\ procs'[q].took = procs[q].took /\ procs'[q].wrote = procs[q].wrote /\ procs'[q].eof = procs[q].eof
    BY DEF Others, SameData
  <1>2. \A q \in DOMAIN procs : Live(q)' => Live(q)
    BY DEF Others, Live
  <1>3. (J \in DOMAIN pipes' <=> J \in DOMAIN pipes) /\ (J \in DOMAIN pipes => pipes'[J] = pipes[J])
    OBVIOUS
  <1> HIDE DEF J
  <1> QED BY <1>1, <1>2, <1>3, BalancedOther DEF J

\* A reader takes a unit from its pipe.
LEMMA BalancedTake ==
  ASSUME Typed, IsLinked, RootWired, Forks, AllKids, Same, NEW p \in DOMAIN procs,
         NEW m \in 1 .. Stages, Targets(launcher, Stages, m),
         ReadsFrom(launcher, p, procs[p].stage, m), Takes(p, R(launcher, m)),
         NEW k \in 1 .. Stages, Targets(launcher, Stages, k), Balanced(k)
  PROVE  Balanced(k)'
  <1> DEFINE J == Joint(launcher, k)
             l == launcher
  <1>1. R(launcher, m).pipe = Joint(launcher, m)
    BY DEF R, ReadEnd
  <1>2. /\ Others(p) /\ SameKin(p) /\ SameState(p)
        /\ pipes[Joint(launcher, m)] > 0 /\ OnePipe(Joint(launcher, m), pipes[Joint(launcher, m)] - 1)
        /\ procs'[p].took = procs[p].took + 1 /\ procs'[p].wrote = procs[p].wrote /\ procs'[p].eof = procs[p].eof
    BY <1>1 DEF Takes, Moves1
  <1>3. /\ DOMAIN procs' = DOMAIN procs
        /\ \A q \in DOMAIN procs :
             /\ procs'[q].parent = procs[q].parent /\ procs'[q].stage = procs[q].stage
             /\ procs'[q].state = procs[q].state
             /\ procs'[q].wrote = procs[q].wrote /\ procs'[q].eof = procs[q].eof
             /\ q # p => procs'[q].took = procs[q].took
    BY <1>2 DEF Others, SameKin, SameState
  <1>4. \A q : (Live(q)' <=> procs'[q].state \in {"launcher", "program"}) /\ (Live(q) <=> procs[q].state \in {"launcher", "program"})
    BY DEF Live
  <1>5. CASE k # m
    <2>1. J # Joint(launcher, m)
      BY <1>5, JointsDiffer
    <2>2. (J \in DOMAIN pipes' <=> J \in DOMAIN pipes) /\ (J \in DOMAIN pipes => pipes'[J] = pipes[J])
      BY <1>2, <2>1 DEF OnePipe
    <2>3. ~ReadsFrom(launcher, p, procs[p].stage, k)
      <3>1. CASE launcher = "inf15_2"
        BY <1>5, <3>1, GccContext
      <3>2. CASE launcher # "inf15_2"
        <4>1. procs[p].stage = m + 1 /\ k \in Nat /\ m \in Nat
          BY <3>2, ForkPlaces DEF ReadsFrom
        <4> QED BY <1>5, <3>2, <4>1 DEF ReadsFrom
      <3> QED BY <3>1, <3>2
    <2> HIDE DEF J
    <2> QED BY <1>3, <1>4, <2>2, <2>3, BalancedOther DEF J
  <1>6. CASE k = m
    <2>1. /\ (/\ J \in DOMAIN pipes
              /\ \A c \in DOMAIN procs : ~(procs[c].parent = 1 /\ procs[c].stage = k)) => pipes[J] = 0
          /\ \A c \in DOMAIN procs : procs[c].parent = 1 /\ procs[c].stage = k =>
               /\ J \in DOMAIN pipes
               /\ (\A r \in DOMAIN procs : ~ReadsFrom(l, r, procs[r].stage, k)) => pipes[J] = procs[c].wrote
               /\ \A r \in DOMAIN procs : ReadsFrom(l, r, procs[r].stage, k) =>
                    /\ procs[c].wrote = pipes[J] + procs[r].took
                    /\ procs[r].eof => ~Live(c) /\ pipes[J] = 0
      BY DEF Balanced
    <2>2. /\ DOMAIN pipes' = DOMAIN pipes /\ pipes[J] > 0
          /\ J \in DOMAIN pipes => pipes'[J] = pipes[J] - 1 /\ pipes[J] \in Nat
      <3>1. J \in DOMAIN pipes => pipes[J] \in Nat
        BY Context DEF Typed
      <3> QED BY <1>2, <1>6, <3>1 DEF OnePipe
    <2>3. procs[p].took \in Nat /\ procs'[p].took = procs[p].took + 1
      BY <1>2, TypedProc
    <2>4. \A r \in DOMAIN procs : ReadsFrom(l, r, procs[r].stage, k) => r = p
      BY <1>6, OneReader
    <2>5. ReadsFrom(l, p, procs[p].stage, k)
      BY <1>6
    <2> HIDE DEF J, l
    <2>6. ~(/\ J \in DOMAIN pipes
            /\ \A c \in DOMAIN procs : ~(procs[c].parent = 1 /\ procs[c].stage = k))
      BY <2>1, <2>2
    <2>7. ASSUME NEW c \in DOMAIN procs', procs'[c].parent = 1, procs'[c].stage = k
          PROVE  /\ J \in DOMAIN pipes'
                 /\ (\A r \in DOMAIN procs' : ~ReadsFrom(l, r, procs'[r].stage, k)) => pipes'[J] = procs'[c].wrote
                 /\ \A r \in DOMAIN procs' : ReadsFrom(l, r, procs'[r].stage, k) =>
                      /\ procs'[c].wrote = pipes'[J] + procs'[r].took
                      /\ procs'[r].eof => ~Live(c)' /\ pipes'[J] = 0
      <3>1. c \in DOMAIN procs /\ procs[c].parent = 1 /\ procs[c].stage = k /\ procs'[c].wrote = procs[c].wrote
        BY <1>3, <2>7
      <3>2. /\ J \in DOMAIN pipes
            /\ procs[c].wrote = pipes[J] + procs[p].took
            /\ procs[p].eof => pipes[J] = 0
        BY <2>1, <2>5, <3>1
      <3>3. ~procs'[p].eof
        BY <1>2, <2>2, <3>2
      <3>4. procs'[c].wrote = pipes'[J] + procs'[p].took
        BY <2>2, <2>3, <3>1, <3>2
      <3>5. \A r \in DOMAIN procs' : ReadsFrom(l, r, procs'[r].stage, k) => r = p
        BY <1>3, <2>4
      <3>6. p \in DOMAIN procs' /\ ReadsFrom(l, p, procs'[p].stage, k)
        BY <1>3, <2>5
      <3> QED BY <2>2, <3>2, <3>3, <3>4, <3>5, <3>6
    <2>8. J = Joint(launcher, k)
      BY DEF J
    <2> QED BY <1>3, <2>2, <2>6, <2>7, <2>8, BalancedNext DEF l
  <1> QED BY <1>5, <1>6

\* A reader sees the end of its pipe, which nobody can write to any more.
LEMMA BalancedSee ==
  ASSUME Typed, Placed, IsLinked, RootWired, Forks, ChildrenWired, AllKids, AllKnown, Same, NEW p \in DOMAIN procs,
         NEW m \in 1 .. Stages, Targets(launcher, Stages, m),
         ReadsFrom(launcher, p, procs[p].stage, m), Sees(p, R(launcher, m)),
         NEW k \in 1 .. Stages, Targets(launcher, Stages, k), Balanced(k)
  PROVE  Balanced(k)'
  <1> DEFINE J == Joint(launcher, k)
             l == launcher
  <1>1. R(launcher, m).pipe = Joint(launcher, m) /\ R(launcher, m).end = "read"
    BY DEF R, ReadEnd
  <1>2. /\ Others(p) /\ SameKin(p) /\ SameState(p) /\ pipes' = pipes
        /\ pipes[Joint(launcher, m)] = 0 /\ ~HasWriters(Joint(launcher, m))
        /\ procs'[p].took = procs[p].took /\ procs'[p].wrote = procs[p].wrote
    BY <1>1 DEF Sees, Moves1, AtEnd, SamePipes
  <1>3. /\ DOMAIN procs' = DOMAIN procs
        /\ \A q \in DOMAIN procs :
             /\ procs'[q].parent = procs[q].parent /\ procs'[q].stage = procs[q].stage
             /\ procs'[q].state = procs[q].state
             /\ procs'[q].wrote = procs[q].wrote /\ procs'[q].took = procs[q].took
             /\ q # p => procs'[q].eof = procs[q].eof
    BY <1>2 DEF Others, SameKin, SameState
  <1>4. \A q : (Live(q)' <=> procs'[q].state \in {"launcher", "program"}) /\ (Live(q) <=> procs[q].state \in {"launcher", "program"})
    BY DEF Live
  <1>5. CASE k # m
    <2>1. (J \in DOMAIN pipes' <=> J \in DOMAIN pipes) /\ (J \in DOMAIN pipes => pipes'[J] = pipes[J])
      BY <1>2
    <2>3. ~ReadsFrom(launcher, p, procs[p].stage, k)
      <3>1. CASE launcher = "inf15_2"
        BY <1>5, <3>1, GccContext
      <3>2. CASE launcher # "inf15_2"
        <4>1. procs[p].stage = m + 1 /\ k \in Nat /\ m \in Nat
          BY <3>2, ForkPlaces DEF ReadsFrom
        <4> QED BY <1>5, <3>2, <4>1 DEF ReadsFrom
      <3> QED BY <3>1, <3>2
    <2> HIDE DEF J
    <2> QED BY <1>3, <1>4, <2>1, <2>3, BalancedOther DEF J
  <1>6. CASE k = m
    <2>1. /\ (/\ J \in DOMAIN pipes
              /\ \A c \in DOMAIN procs : ~(procs[c].parent = 1 /\ procs[c].stage = k)) => pipes[J] = 0
          /\ \A c \in DOMAIN procs : procs[c].parent = 1 /\ procs[c].stage = k =>
               /\ J \in DOMAIN pipes
               /\ (\A r \in DOMAIN procs : ~ReadsFrom(l, r, procs[r].stage, k)) => pipes[J] = procs[c].wrote
               /\ \A r \in DOMAIN procs : ReadsFrom(l, r, procs[r].stage, k) =>
                    /\ procs[c].wrote = pipes[J] + procs[r].took
                    /\ procs[r].eof => ~Live(c) /\ pipes[J] = 0
      BY DEF Balanced
    <2>2. pipes[J] = 0 /\ ~HasWriters(J)
      BY <1>2, <1>6
    <2>3. ASSUME NEW c \in DOMAIN procs, procs[c].parent = 1, procs[c].stage = k PROVE ~Live(c)
      <3>1. ASSUME Live(c) PROVE FALSE
        <4>1. line[procs[c].stage].known
          BY <2>3 DEF AllKnown
        <4>2. Holds(c, W(launcher, procs[c].stage))
          BY <2>3, <3>1, <4>1, ChildHolds
        <4>3. HasWriters(J)
          BY <2>3, <4>2 DEF HasWriters, W
        <4> QED BY <2>2, <4>3
      <3> QED BY <3>1
    <2> HIDE DEF J, l
    <2>7. ASSUME NEW c \in DOMAIN procs', procs'[c].parent = 1, procs'[c].stage = k
          PROVE  /\ J \in DOMAIN pipes'
                 /\ (\A r \in DOMAIN procs' : ~ReadsFrom(l, r, procs'[r].stage, k)) => pipes'[J] = procs'[c].wrote
                 /\ \A r \in DOMAIN procs' : ReadsFrom(l, r, procs'[r].stage, k) =>
                      /\ procs'[c].wrote = pipes'[J] + procs'[r].took
                      /\ procs'[r].eof => ~Live(c)' /\ pipes'[J] = 0
      <3>1. c \in DOMAIN procs /\ procs[c].parent = 1 /\ procs[c].stage = k /\ procs'[c].wrote = procs[c].wrote
        BY <1>3, <2>7
      <3>2. ~Live(c)'
        BY <1>3, <1>4, <2>3, <3>1
      <3>3. \A r \in DOMAIN procs' : r \in DOMAIN procs /\ procs'[r].stage = procs[r].stage /\ procs'[r].took = procs[r].took
        BY <1>3
      <3>4. /\ J \in DOMAIN pipes
            /\ (\A r \in DOMAIN procs : ~ReadsFrom(l, r, procs[r].stage, k)) => pipes[J] = procs[c].wrote
            /\ \A r \in DOMAIN procs : ReadsFrom(l, r, procs[r].stage, k) => procs[c].wrote = pipes[J] + procs[r].took
        BY <2>1, <3>1
      <3> QED BY <1>2, <1>3, <2>2, <3>1, <3>2, <3>3, <3>4
    <2>8. J = Joint(launcher, k)
      BY DEF J
    <2> QED BY <1>2, <2>2, <2>7, <2>8, BalancedNext DEF l
  <1> QED BY <1>5, <1>6

\* A program puts a unit in the pipe behind it.
LEMMA BalancedPut ==
  ASSUME Typed, IsLinked, RootWired, Forks, AllKids, Same, NEW p \in DOMAIN procs,
         procs[p].parent = 1, procs[p].stage \in 1 .. Stages, Live(p),
         Targets(launcher, Stages, procs[p].stage), Puts(p),
         OnePipe(Joint(launcher, procs[p].stage), pipes[Joint(launcher, procs[p].stage)] + 1),
         NEW k \in 1 .. Stages, Targets(launcher, Stages, k), Balanced(k)
  PROVE  Balanced(k)'
  <1> DEFINE J == Joint(launcher, k)
             l == launcher
             m == procs[p].stage
  <1>2. /\ Others(p) /\ SameKin(p) /\ SameState(p)
        /\ procs'[p].took = procs[p].took /\ procs'[p].wrote = procs[p].wrote + 1 /\ procs'[p].eof = procs[p].eof
    BY DEF Puts, Moves1
  <1>3. /\ DOMAIN procs' = DOMAIN procs
        /\ \A q \in DOMAIN procs :
             /\ procs'[q].parent = procs[q].parent /\ procs'[q].stage = procs[q].stage
             /\ procs'[q].state = procs[q].state
             /\ procs'[q].took = procs[q].took /\ procs'[q].eof = procs[q].eof
             /\ q # p => procs'[q].wrote = procs[q].wrote
    BY <1>2 DEF Others, SameKin, SameState
  <1>4. \A q : (Live(q)' <=> procs'[q].state \in {"launcher", "program"}) /\ (Live(q) <=> procs[q].state \in {"launcher", "program"})
    BY DEF Live
  <1>5. CASE k # m
    <2>1. J # Joint(launcher, m)
      BY <1>5, JointsDiffer
    <2>2. (J \in DOMAIN pipes' <=> J \in DOMAIN pipes) /\ (J \in DOMAIN pipes => pipes'[J] = pipes[J])
      BY <2>1 DEF OnePipe
    <2>3. \A c \in DOMAIN procs : procs[c].stage = k => c # p
      BY <1>5
    <2> HIDE DEF J
    <2> QED BY <1>3, <1>4, <2>2, <2>3, BalancedOther DEF J
  <1>6. CASE k = m
    <2>1. \A c \in DOMAIN procs : procs[c].parent = 1 /\ procs[c].stage = k =>
               /\ J \in DOMAIN pipes
               /\ (\A r \in DOMAIN procs : ~ReadsFrom(l, r, procs[r].stage, k)) => pipes[J] = procs[c].wrote
               /\ \A r \in DOMAIN procs : ReadsFrom(l, r, procs[r].stage, k) =>
                    /\ procs[c].wrote = pipes[J] + procs[r].took
                    /\ procs[r].eof => ~Live(c) /\ pipes[J] = 0
      BY DEF Balanced
    <2>2. /\ J \in DOMAIN pipes
          /\ (\A r \in DOMAIN procs : ~ReadsFrom(l, r, procs[r].stage, k)) => pipes[J] = procs[p].wrote
          /\ \A r \in DOMAIN procs : ReadsFrom(l, r, procs[r].stage, k) =>
               /\ procs[p].wrote = pipes[J] + procs[r].took
               /\ ~procs[r].eof
      BY <1>6, <2>1
    <2>3. DOMAIN pipes' = DOMAIN pipes /\ pipes'[J] = pipes[J] + 1 /\ pipes[J] \in Nat
      <3>1. pipes[J] \in Nat
        BY <2>2, Context DEF Typed
      <3> QED BY <1>6, <2>2, <3>1 DEF OnePipe
    <2>4. \A c \in DOMAIN procs : procs[c].parent = 1 /\ procs[c].stage = k => c = p
      BY <1>6 DEF Forks
    <2>5. \A r \in DOMAIN procs : procs[r].took \in Nat
      BY TypedProc
    <2>6. procs[p].stage = k
      BY <1>6
    <2> HIDE DEF J, l, m
    <2>7. ASSUME NEW c \in DOMAIN procs', procs'[c].parent = 1, procs'[c].stage = k
          PROVE  /\ J \in DOMAIN pipes'
                 /\ (\A r \in DOMAIN procs' : ~ReadsFrom(l, r, procs'[r].stage, k)) => pipes'[J] = procs'[c].wrote
                 /\ \A r \in DOMAIN procs' : ReadsFrom(l, r, procs'[r].stage, k) =>
                      /\ procs'[c].wrote = pipes'[J] + procs'[r].took
                      /\ procs'[r].eof => ~Live(c)' /\ pipes'[J] = 0
      <3>1. c = p
        BY <1>3, <2>4, <2>7
      <3>2. \A r \in DOMAIN procs' :
              /\ r \in DOMAIN procs /\ procs'[r].stage = procs[r].stage
              /\ procs'[r].took = procs[r].took /\ procs'[r].eof = procs[r].eof
        BY <1>3
      <3>3. ASSUME NEW r \in DOMAIN procs', ReadsFrom(l, r, procs'[r].stage, k)
            PROVE  procs'[p].wrote = pipes'[J] + procs'[r].took /\ ~procs'[r].eof
        <4>1. procs[p].wrote = pipes[J] + procs[r].took /\ ~procs[r].eof /\ procs[r].took \in Nat
          BY <2>2, <2>5, <3>2, <3>3
        <4> QED BY <1>2, <2>3, <3>2, <4>1
      <3>4. (\A r \in DOMAIN procs' : ~ReadsFrom(l, r, procs'[r].stage, k)) => pipes'[J] = procs'[p].wrote
        BY <1>2, <1>3, <2>2, <2>3
      <3> QED BY <2>2, <2>3, <3>1, <3>3, <3>4
    <2>8. J = Joint(launcher, k)
      BY DEF J
    <2>9. p \in DOMAIN procs' /\ procs'[p].parent = 1 /\ procs'[p].stage = k
      BY <1>3, <2>6
    <2> QED BY <2>7, <2>8, <2>9, BalancedNext DEF l
  <1> QED BY <1>5, <1>6

\* What the readers have got and the pipes hold is what was written.
Flow ==
  AllKnown =>
    /\ AllKids /\ (procs[1].eof => launcher = "inf15_2")
    /\ \A k \in 1 .. Stages : Targets(launcher, Stages, k) => Balanced(k)

\* The launcher's part in it.
LEMMA RootFlows ==
  ASSUME Typed, Placed, Room, IsLinked, RootWired, Forks, ChildrenWired, AllKids, AllKnown, Gcc, Same,
         Process(1), procs[1].eof => launcher = "inf15_2"
  PROVE  /\ procs'[1].eof => launcher = "inf15_2"
         /\ \A k \in 1 .. Stages : Targets(launcher, Stages, k) /\ Balanced(k) => Balanced(k)'
  <1>0. 1 \in DOMAIN procs /\ procs[1].state \in {"launcher", "ended"}
    BY DEF Typed, RootWired, RootFor
  <1>1. Launch(1)
    BY <1>0 DEF Process, ReadInput, WriteOutput, EndProgram
  <1> DEFINE Good == /\ procs'[1].eof => launcher = "inf15_2"
                     /\ \A k \in 1 .. Stages : Targets(launcher, Stages, k) /\ Balanced(k) => Balanced(k)'
             Quiet == Others(1) /\ SameKin(1) /\ SameData(1) /\ SamePipes /\ (Live(1)' => Live(1))
  <1>2. ASSUME SameState(1) PROVE Live(1)' => Live(1)
    BY <1>2 DEF SameState, Live
  <1>3. ASSUME Quiet PROVE Good
    <2>1. procs'[1].parent = procs[1].parent /\ procs'[1].stage = procs[1].stage /\ procs'[1].eof = procs[1].eof
          /\ pipes' = pipes
      BY <1>3 DEF SameKin, SameData, SamePipes
    <2> QED BY <1>0, <1>3, <2>1, BalancedQuiet
  <1>4. CASE MakePipe(1)
    <2>1. SameData(1)
      BY <1>0, <1>4, MakesPipe
    <2>2. procs'[1].eof = procs[1].eof
      BY <2>1 DEF SameData
    <2> QED BY <1>4, <2>2, BalancedMade
  <1>5. CASE Redirect(1)
    BY <1>0, <1>2, <1>3, <1>5, DoesDup2
  <1>6. CASE CloseSlot(1)
    BY <1>0, <1>2, <1>3, <1>6, DoesClose
  <1>7. CASE AssignSlot(1)
    BY <1>0, <1>2, <1>3, <1>7, DoesAssign
  <1>8. CASE ForkChild(1)
    <2>1. SameData(1)
      BY <1>0, <1>8, DoesFork
    <2>2. procs'[1].eof = procs[1].eof
      BY <2>1 DEF SameData
    <2> QED BY <1>8, <2>2, BalancedFork
  <1>9. CASE Execute(1)
    <2>1. Runs(1, "exec")
      BY <1>9 DEF Execute
    <2>2. FALSE
      BY <2>1, RootRules DEF Orders
    <2> QED BY <2>2
  <1>10. CASE WaitFor(1)
    BY <1>0, <1>2, <1>3, <1>10, DoesWait
  <1>11. CASE ExitLauncher(1)
    <2>1. Ends1(1)
      BY <1>0, <1>11, DoesEnd DEF ExitLauncher
    <2>2. ~Live(1)'
      BY <2>1 DEF Ends1, Live
    <2> QED BY <1>3, <2>1, <2>2 DEF Ends1
  <1>12. CASE ReadOnce(1)
    <2>1. Runs(1, "read")
      BY <1>12 DEF ReadOnce
    <2>2. FALSE
      BY <2>1, RootRules DEF Orders
    <2> QED BY <2>2
  <1>13. CASE ReadLoop(1)
    <2>1. Runs(1, "readAll")
      BY <1>13 DEF ReadLoop
    <2>2. procs[1].at \in 1 .. Len(Text) /\ Text[procs[1].at].op = "readAll" /\ launcher = "inf15_2"
      BY <2>1, RootRules DEF Ordered
    <2>3. Stages = 1 /\ Text = Code("inf15_2", 1)
      BY <2>2, GccContext
    <2>4. procs[1].at = 7
      <3>1. procs[1].at \in 1 .. 7 /\ ~(procs[1].at \in 1 .. 6)
        BY <2>2, <2>3, ReadAll152
      <3> QED BY <3>1
    <2>5. procs[1].fds[0] = R(launcher, 1)
      BY <2>2, <2>4 DEF Gcc
    <2>6. 1 \in 1 .. Stages /\ Targets(launcher, Stages, 1) /\ ReadsFrom(launcher, 1, procs[1].stage, 1)
      BY <2>2, <2>3 DEF Targets, ReadsFrom
    <2>7. Takes(1, R(launcher, 1)) \/ Sees(1, R(launcher, 1))
      BY <1>0, <1>13, <2>5, DoesReadLoop
    <2> QED BY <1>0, <2>2, <2>6, <2>7, BalancedTake, BalancedSee
  <1> HIDE DEF Good, Quiet
  <1>14. Good
    BY <1>1, <1>4, <1>5, <1>6, <1>7, <1>8, <1>9, <1>10, <1>11, <1>12, <1>13 DEF Launch, Good
  <1> QED BY <1>14 DEF Good

\* A program's part in it.
LEMMA ChildFlows ==
  ASSUME Typed, Placed, Room, IsLinked, RootWired, Forks, ChildrenWired, AllKids, AllKnown, Same,
         NEW p \in DOMAIN procs, p # 1, Process(p)
  PROVE  /\ Others(p) /\ procs'[p].parent = 1
         /\ \A k \in 1 .. Stages : Targets(launcher, Stages, k) /\ Balanced(k) => Balanced(k)'
  <1>0. procs[p].parent = 1 /\ procs[p].stage \in 1 .. Stages /\ line[procs[p].stage].known
    BY DEF AllKids, Forks, AllKnown
  <1>1. \/ procs[p].state = "launcher" /\ (Redirect(p) \/ CloseSlot(p) \/ Execute(p))
        \/ procs[p].state = "program" /\ (ReadInput(p) \/ WriteOutput(p) \/ EndProgram(p))
    BY <1>0, ChildDoes
  <1>2. ~ForkChild(p)
    BY <1>1, Running DEF ForkChild, Redirect, CloseSlot, Execute, Runs
  <1>3. Others(p) /\ procs'[p].parent = procs[p].parent /\ procs'[p].stage = procs[p].stage
    BY <1>2, StageStays
  <1>4. Live(p)
    BY ProcessLives
  <1>5. Stages \in Nat /\ procs[p].stage \in Nat
    BY <1>0, ForkPlaces
  <1> DEFINE Good == \A k \in 1 .. Stages : Targets(launcher, Stages, k) /\ Balanced(k) => Balanced(k)'
             i == procs[p].stage
  <1>6. ASSUME SameData(p), SamePipes PROVE Good
    BY <1>3, <1>4, <1>6, BalancedQuiet DEF SamePipes
  <1> SUFFICES Good
    BY <1>0, <1>3
  <1>7. CASE procs[p].state = "launcher"
    <2>1. CASE Redirect(p)
      BY <1>6, <2>1, DoesDup2
    <2>2. CASE CloseSlot(p)
      BY <1>6, <2>2, DoesClose
    <2>3. CASE Execute(p)
      BY <1>6, <2>3, DoesExec
    <2> QED BY <1>1, <1>7, <2>1, <2>2, <2>3
  <1>8. CASE procs[p].state = "program"
    <2>0. procs[p].fds[0] = Input(launcher, i) /\ procs[p].fds[OutFd(launcher)] = Target(launcher, Stages, i)
      BY <1>0, <1>8 DEF ChildrenWired, ChildFor, PlumbedFor
    <2>1. CASE ReadInput(p)
      <3>1. Takes(p, procs[p].fds[0]) \/ Sees(p, procs[p].fds[0])
        BY <2>1, DoesReadInput
      <3>2. CASE i = 1
        <4>1. procs[p].fds[0] = Terminal
          BY <2>0, <3>2 DEF Input
        <4>2. Sees(p, Terminal)
          BY <3>1, <4>1, HandleEnds DEF Takes
        <4>3. /\ pipes' = pipes /\ procs'[p].wrote = procs[p].wrote
              /\ procs'[p].state = procs[p].state
          BY <4>2 DEF Sees, Moves1, SamePipes, SameState
        <4>4. ASSUME NEW k \in 1 .. Stages PROVE ~ReadsFrom(launcher, p, procs[p].stage, k)
          BY <1>5, <3>2 DEF ReadsFrom
        <4>5. /\ DOMAIN procs' = DOMAIN procs
              /\ \A q \in DOMAIN procs :
                   /\ procs'[q].parent = procs[q].parent /\ procs'[q].stage = procs[q].stage
                   /\ procs'[q].wrote = procs[q].wrote /\ procs'[q].state = procs[q].state
                   /\ q # p => procs'[q].took = procs[q].took /\ procs'[q].eof = procs[q].eof
          BY <1>3, <4>3 DEF Others
        <4>6. \A q \in DOMAIN procs : Live(q)' => Live(q)
          BY <4>5 DEF Live
        <4> QED BY <4>3, <4>4, <4>5, <4>6, BalancedOther
      <3>3. CASE i # 1
        <4>1. i - 1 \in 1 .. Stages /\ i - 1 < Stages /\ i = (i - 1) + 1
          BY <1>0, <1>5, <3>3
        <4>2. launcher # "inf15_2"
          BY <1>5, <4>1, GccContext
        <4>3. Targets(launcher, Stages, i - 1) /\ ReadsFrom(launcher, p, procs[p].stage, i - 1)
          BY <4>1, <4>2 DEF Targets, ReadsFrom
        <4>4. procs[p].fds[0] = R(launcher, i - 1)
          BY <2>0, <3>3 DEF Input
        <4>5. Takes(p, R(launcher, i - 1)) \/ Sees(p, R(launcher, i - 1))
          BY <3>1, <4>4
        <4> DEFINE m == i - 1
        <4>6. /\ m \in 1 .. Stages /\ Targets(launcher, Stages, m) /\ ReadsFrom(launcher, p, procs[p].stage, m)
              /\ (Takes(p, R(launcher, m)) \/ Sees(p, R(launcher, m)))
          BY <4>1, <4>3, <4>5
        <4> HIDE DEF m, i
        <4> QED BY <4>6, BalancedTake, BalancedSee
      <3> QED BY <3>2, <3>3
    <2>2. CASE WriteOutput(p)
      <3>1. Output(p) = Target(launcher, Stages, i)
        BY <2>0 DEF Output, OutFd
      <3> DEFINE h == Output(p)
      <3>2. \/ h.end = "write" /\ Puts(p) /\ OnePipe(h.pipe, pipes[h.pipe] + 1)
            \/ Ends1(p)
            \/ h.end # "write" /\ Puts(p) /\ SamePipes
        BY <2>2, DoesWrite
      <3>3. CASE Ends1(p)
        BY <1>6, <3>3 DEF Ends1
      <3>4. CASE ~Ends1(p) /\ Targets(launcher, Stages, i)
        <4>1. h = W(launcher, i) /\ h.end = "write" /\ h.pipe = Joint(launcher, i)
          BY <3>1, <3>4 DEF Target, W, WriteEnd
        <4>2. Puts(p) /\ OnePipe(Joint(launcher, i), pipes[Joint(launcher, i)] + 1)
          BY <3>2, <3>4, <4>1
        <4> QED BY <1>0, <1>4, <3>4, <4>2, BalancedPut
      <3>5. CASE ~Ends1(p) /\ ~Targets(launcher, Stages, i)
        <4>1. h.end # "write"
          BY <3>1, <3>5, HandleEnds DEF Target
        <4>2. Puts(p) /\ SamePipes
          BY <3>2, <3>5, <4>1
        <4>3. /\ pipes' = pipes /\ procs'[p].took = procs[p].took /\ procs'[p].eof = procs[p].eof
              /\ procs'[p].state = procs[p].state
          BY <4>2 DEF Puts, Moves1, SamePipes, SameState
        <4>5. /\ DOMAIN procs' = DOMAIN procs
              /\ \A q \in DOMAIN procs :
                   /\ procs'[q].parent = procs[q].parent /\ procs'[q].stage = procs[q].stage
                   /\ procs'[q].took = procs[q].took /\ procs'[q].eof = procs[q].eof
                   /\ procs'[q].state = procs[q].state
                   /\ q # p => procs'[q].wrote = procs[q].wrote
          BY <1>3, <4>3 DEF Others
        <4>6. \A q \in DOMAIN procs : Live(q)' => Live(q)
          BY <4>5 DEF Live
        <4>7. ASSUME NEW k \in 1 .. Stages, Targets(launcher, Stages, k), Balanced(k) PROVE Balanced(k)'
          <5>1. k # procs[p].stage
            BY <3>5, <4>7
          <5> QED BY <4>3, <4>5, <4>6, <4>7, <5>1, BalancedOther
        <4> QED BY <4>7
      <3> QED BY <3>3, <3>4, <3>5
    <2>3. CASE EndProgram(p)
      <3>1. Ends1(p)
        BY <2>3, DoesEnd DEF EndProgram
      <3> QED BY <1>6, <3>1 DEF Ends1
    <2> QED BY <1>1, <1>8, <2>1, <2>2, <2>3
  <1> HIDE DEF Good
  <1> QED BY <1>1, <1>7, <1>8

\* The flow stays as it is in every step.
LEMMA FlowStep ==
  ASSUME Typed, Placed, Room, IsLinked, RootWired, Forks, ChildrenWired, Gcc, Flow, Same,
         NEW p \in DOMAIN procs, Process(p)
  PROVE  Flow'
  <1> SUFFICES ASSUME AllKnown' PROVE Flow'
    BY DEF Flow
  <1>0. AllKnown /\ launcher' = launcher /\ Stages' = Stages
    BY TextStays
  <1>1. /\ AllKids /\ (procs[1].eof => launcher = "inf15_2")
        /\ \A k \in 1 .. Stages : Targets(launcher, Stages, k) => Balanced(k)
    BY <1>0 DEF Flow
  <1>2. 1 \in DOMAIN procs
    BY DEF Typed
  <1>3. CASE p = 1
    <2>1. /\ procs'[1].eof => launcher = "inf15_2"
          /\ \A k \in 1 .. Stages : Targets(launcher, Stages, k) /\ Balanced(k) => Balanced(k)'
      BY <1>0, <1>1, <1>3, RootFlows
    <2>2. AllKids'
      <3>1. CASE ForkChild(1)
        <4>1. Grown(1) /\ procs'[Len(procs) + 1].parent = 1
          BY <1>2, <3>1, DoesFork
        <4> QED BY <1>1, <4>1 DEF AllKids, Grown
      <3>2. CASE ~ForkChild(1)
        <4>1. Others(1)
          BY <1>2, <1>3, <3>2, StageStays
        <4> QED BY <1>1, <4>1 DEF AllKids, Others
      <3> QED BY <3>1, <3>2
    <2> QED BY <1>0, <1>1, <2>1, <2>2 DEF Flow
  <1>4. CASE p # 1
    <2>1. /\ Others(p) /\ procs'[p].parent = 1
          /\ \A k \in 1 .. Stages : Targets(launcher, Stages, k) /\ Balanced(k) => Balanced(k)'
      BY <1>0, <1>1, <1>4, ChildFlows
    <2>2. AllKids' /\ procs'[1] = procs[1]
      BY <1>1, <1>2, <1>4, <2>1 DEF AllKids, Others
    <2> QED BY <1>0, <1>1, <2>1, <2>2 DEF Flow
  <1> QED BY <1>3, <1>4

-----------------------------------------------------------------------------
(***************************************************************************)
(* A single program, with nothing to connect.                              *)
(***************************************************************************)
\* Only a program reads to an end, and there is only the first one.
AloneFor(r) ==
  /\ r.state = "launcher" => ~r.eof
  /\ r.state = "program" => r.stage = 1
  /\ r.eof => r.stage = 1
\* So of every process.
Alone == \A p \in DOMAIN procs : AloneFor(procs[p])

\* Who connects nothing is given one program, and leaves reading to the end to it.
LEMMA AloneContext ==
  ASSUME Typed, ~IsLinked
  PROVE  Stages = 1 /\ launcher # "inf15_2"
  <1>1. /\ launcher \in Launchers /\ Accepts(launcher, Stages) /\ Stages \in Nat
    BY Context DEF Typed, Chosen
  <1>2. launcher \in {"inf15_0", "inf15_1", "inf15_2", "inf15_3", "inf15_4", "main_c"}
    BY <1>1 DEF Launchers
  <1>3. ~Linked(launcher, Stages)
    BY DEF IsLinked
  <1> QED BY <1>1, <1>2, <1>3 DEF Accepts, Linked

\* The step of a process that connects nothing.
LEMMA AloneStep1 ==
  ASSUME Typed, Placed, Room, ~IsLinked, Alone, Same, NEW p \in DOMAIN procs, Process(p)
  PROVE  Alone'
  <1>0. Stages = 1 /\ launcher # "inf15_2" /\ AloneFor(procs[p])
    BY AloneContext DEF Alone
  <1>1. ASSUME Others(p), AloneFor(procs'[p]) PROVE Alone'
    BY <1>1 DEF Others, Alone, AloneFor
  <1> DEFINE Quiet == Others(p) /\ SameKin(p) /\ SameState(p) /\ SameData(p)
  <1>2. ASSUME Quiet PROVE Alone'
    <2>1. AloneFor(procs'[p])
      BY <1>0, <1>2 DEF SameKin, SameState, SameData, AloneFor
    <2> QED BY <1>1, <1>2, <2>1
  <1>3. CASE MakePipe(p)
    BY <1>2, <1>3, MakesPipe
  <1>4. CASE Redirect(p)
    BY <1>2, <1>4, DoesDup2
  <1>5. CASE CloseSlot(p)
    BY <1>2, <1>5, DoesClose
  <1>6. CASE AssignSlot(p)
    BY <1>2, <1>6, DoesAssign
  <1>7. CASE ForkChild(p)
    <2>1. /\ Grown(p) /\ SameKin(p) /\ SameState(p) /\ SameData(p)
          /\ procs'[Len(procs) + 1].state = procs[p].state /\ procs'[Len(procs) + 1].eof = procs[p].eof
      BY <1>7, DoesFork
    <2>2. procs[p].state = "launcher"
      BY <1>7, Forker
    <2>3. AloneFor(procs'[p]) /\ AloneFor(procs'[Len(procs) + 1])
      BY <1>0, <2>1, <2>2 DEF SameKin, SameState, SameData, AloneFor
    <2> QED BY <2>1, <2>3 DEF Grown, Alone, AloneFor
  <1>8. CASE Execute(p)
    <2>1. /\ Others(p) /\ SameData(p)
          /\ ~line[Instr(p).stage].known => SameKin(p) /\ SameState(p)
          /\ line[Instr(p).stage].known => procs'[p].state = "program" /\ procs'[p].stage = Instr(p).stage
      BY <1>8, DoesExec
    <2>2. CASE ~line[Instr(p).stage].known
      BY <1>2, <2>1, <2>2
    <2>3. CASE line[Instr(p).stage].known
      <3>1. Runs(p, "exec")
        BY <1>8 DEF Execute
      <3>2. Instr(p).op = "exec" /\ Fits(Stages, Instr(p))
        BY <3>1, Running
      <3>3. Instr(p).stage \in 1 .. 1
        BY <1>0, <3>2 DEF Fits
      <3>4. Instr(p).stage = 1
        BY <3>3
      <3>5. AloneFor(procs'[p])
        BY <2>1, <2>3, <3>4 DEF AloneFor
      <3> QED BY <1>1, <2>1, <3>5
    <2> QED BY <2>2, <2>3
  <1>9. CASE WaitFor(p)
    BY <1>2, <1>9, DoesWait
  <1>10. ASSUME Ends1(p) PROVE Alone'
    <2>1. Others(p) /\ SameKin(p) /\ SameData(p) /\ procs'[p].state = "ended"
      BY <1>10 DEF Ends1
    <2>2. AloneFor(procs'[p])
      BY <1>0, <2>1 DEF SameKin, SameData, AloneFor
    <2> QED BY <1>1, <2>1, <2>2
  <1>11. CASE ExitLauncher(p)
    BY <1>10, <1>11, DoesEnd DEF ExitLauncher
  <1>12. ASSUME Others(p), SameKin(p), SameState(p), procs'[p].eof = procs[p].eof PROVE Alone'
    <2>1. AloneFor(procs'[p])
      BY <1>0, <1>12 DEF SameKin, SameState, AloneFor
    <2> QED BY <1>1, <1>12, <2>1
  <1>13. CASE ReadOnce(p)
    <2>1. \/ Takes(p, Handle(p, Instr(p).slot))
          \/ Moves1(p) /\ SameData(p) /\ SamePipes
      BY <1>13, DoesReadOnce
    <2> QED BY <1>12, <2>1 DEF Takes, Moves1, SameData
  <1>14. CASE ReadLoop(p)
    <2>1. Runs(p, "readAll")
      BY <1>14 DEF ReadLoop
    <2>2. procs[p].inside = 0 /\ Instr(p).op = "readAll" /\ Ordered(launcher, Stages, procs[p].at, Instr(p))
      BY <2>1, Running
    <2>3. FALSE
      BY <1>0, <2>2 DEF Ordered
    <2> QED BY <2>3
  <1>15. CASE ReadInput(p)
    <2>1. /\ procs[p].state = "program"
          /\ Takes(p, procs[p].fds[0]) \/ Sees(p, procs[p].fds[0])
      BY <1>15, DoesReadInput
    <2>2. Moves1(p)
      BY <2>1 DEF Takes, Sees
    <2>3. AloneFor(procs'[p])
      BY <1>0, <2>1, <2>2 DEF Moves1, SameKin, SameState, AloneFor
    <2> QED BY <1>1, <2>2, <2>3 DEF Moves1
  <1>16. CASE WriteOutput(p)
    <2>1. Puts(p) \/ Ends1(p)
      BY <1>16, DoesWrite
    <2> QED BY <1>10, <1>12, <2>1 DEF Puts, Moves1
  <1>17. CASE EndProgram(p)
    BY <1>10, <1>17, DoesEnd DEF EndProgram
  <1> HIDE DEF Quiet
  <1> QED BY <1>3, <1>4, <1>5, <1>6, <1>7, <1>8, <1>9, <1>11, <1>13, <1>14, <1>15, <1>16, <1>17 DEF Process, Launch

-----------------------------------------------------------------------------
\* Whoever reads to the end has got all of it.
LEMMA AllGets ==
  ASSUME Typed, IsLinked => RootWired /\ Forks /\ Flow, ~IsLinked => Alone
  PROVE  StageGetsAll
  <1> SUFFICES ASSUME NEW p \in DOMAIN procs, NEW q \in DOMAIN procs,
                      AllKnown, procs[p].eof, procs[p].stage # 1,
                      procs[q].stage = IF p = 1 THEN 1 ELSE procs[p].stage - 1
               PROVE  ~Live(q) /\ procs[p].took = procs[q].wrote
    BY DEF StageGetsAll
  <1>1. CASE ~IsLinked
    BY <1>1 DEF Alone, AloneFor
  <1>2. CASE IsLinked
    <2>1. /\ AllKids /\ (procs[1].eof => launcher = "inf15_2")
          /\ \A k \in 1 .. Stages : Targets(launcher, Stages, k) => Balanced(k)
          /\ procs[1].stage = 0 /\ Stages \in Nat
      BY <1>2, ForkPlaces DEF Flow, RootWired, RootFor
    <2>2. \A c \in DOMAIN procs : c # 1 => procs[c].parent = 1 /\ procs[c].stage \in 1 .. Stages
      BY <1>2, <2>1 DEF AllKids, Forks
    <2>3. procs[p].took \in Nat
      BY TypedProc
    <2>4. ASSUME NEW k \in 1 .. Stages, Targets(launcher, Stages, k), procs[q].stage = k, q # 1,
                 ReadsFrom(launcher, p, procs[p].stage, k)
          PROVE  ~Live(q) /\ procs[p].took = procs[q].wrote
      <3>1. Balanced(k) /\ procs[q].parent = 1
        BY <2>1, <2>2, <2>4
      <3>2. /\ procs[q].wrote = pipes[Joint(launcher, k)] + procs[p].took
            /\ ~Live(q) /\ pipes[Joint(launcher, k)] = 0
        BY <2>4, <3>1 DEF Balanced
      <3> QED BY <2>3, <3>2
    <2>5. CASE p = 1
      <3>1. launcher = "inf15_2" /\ Stages = 1
        BY <2>1, <2>5, GccContext
      <3>2. 1 \in 1 .. Stages /\ Targets(launcher, Stages, 1) /\ procs[q].stage = 1 /\ q # 1
            /\ ReadsFrom(launcher, p, procs[p].stage, 1)
        BY <2>1, <2>5, <3>1 DEF Targets, ReadsFrom
      <3> QED BY <2>4, <3>2
    <2>6. CASE p # 1
      <3> DEFINE k == procs[p].stage - 1
      <3>1. k \in 1 .. Stages /\ k < Stages /\ procs[p].stage = k + 1 /\ procs[q].stage = k /\ Stages # 1
        BY <2>1, <2>2, <2>6
      <3>2. launcher # "inf15_2"
        BY <3>1, GccContext
      <3>3. q # 1
        BY <2>1, <3>1
      <3>4. Targets(launcher, Stages, k) /\ ReadsFrom(launcher, p, procs[p].stage, k)
        BY <2>6, <3>1, <3>2 DEF Targets, ReadsFrom
      <3> HIDE DEF k
      <3> QED BY <2>4, <3>1, <3>3, <3>4
    <2> QED BY <2>5, <2>6
  <1> QED BY <1>1, <1>2

-----------------------------------------------------------------------------
(***************************************************************************)
(* The inductive invariant, and what follows from it.                      *)
(***************************************************************************)
IInv ==
  /\ Typed /\ Placed /\ Room /\ WaitsCome
  /\ IsLinked => RootWired /\ Forks /\ ChildrenWired /\ Eagerly /\ Gcc /\ Flow
  /\ ~IsLinked => Alone

\* At its first place a launcher knows nothing but that main.c has not set slot 2.
LEMMA KnowsFirst ==
  ASSUME NEW l \in Launchers, NEW n \in Nat, Linked(l, n), NEW s, NEW h, Knows(l, n, 1, s, h)
  PROVE  l = "main_c" /\ s = 2 /\ h = Unset
  <1>1. l # "inf15_1" /\ l # "inf15_2"
    BY DEF Knows, Knows151, Knows152
  <1>2. l # "inf15_3"
    BY DEF Knows, Knows153
  <1>3. l # "inf15_4"
    <2>1. ASSUME l = "inf15_4" PROVE FALSE
      <3>1. n >= 2
        BY <2>1 DEF Linked
      <3> QED BY <2>1, <3>1, Known154
    <2> QED BY <2>1
  <1>4. l = "main_c" /\ n >= 2
    BY <1>1, <1>2, <1>3 DEF Linked
  <1> QED BY <1>4, KnownMain

\* The state before the first step.
LEMMA FirstProc ==
  ASSUME Init
  PROVE  /\ Typed /\ Len(procs) = 1 /\ DOMAIN procs = {1} /\ DOMAIN pipes = {}
         /\ procs[1].parent = 0 /\ procs[1].stage = 0 /\ procs[1].state = "launcher"
         /\ procs[1].at = 1 /\ procs[1].inside = 0 /\ procs[1].took = 0 /\ procs[1].wrote = 0 /\ ~procs[1].eof
         /\ \A s \in Slots : launcher # "inf15_3" => procs[1].slots[s] = -1
         /\ \A d \in Fds : procs[1].fds[d] = IF d < 3 THEN Terminal ELSE Nothing
  <1>1. Chosen
    BY DEF Init, Chosen, Stages
  <1>2. Stages \in Nat /\ Stages > 0
    BY <1>1, Context
  <1> DEFINE f == [d \in Fds |-> IF d < 3 THEN Terminal ELSE Nothing]
             s == [t \in Slots |-> IF launcher = "inf15_3" THEN 0 ELSE -1]
             r == [parent |-> 0, stage |-> 0, state |-> "launcher",
                   at |-> 1, inside |-> 0, slots |-> s, fds |-> f,
                   took |-> 0, wrote |-> 0, eof |-> FALSE]
  <1>3. procs = <<r>> /\ pipes = <<>>
    BY DEF Init
  <1>4. Terminal \in Handles /\ Nothing \in Handles /\ Terminal.pipe = <<0, 0>> /\ Nothing.pipe = <<0, 0>>
    BY DEF Terminal, Nothing, Handles
  <1>5. f \in FdMaps /\ \A d \in Fds : f[d].pipe = <<0, 0>>
    BY <1>4 DEF FdMaps
  <1>6. s \in SlotMaps
    BY <1>2 DEF SlotMaps, Fds
  <1>7. \A t \in Slots : launcher # "inf15_3" => s[t] = -1
    OBVIOUS
  <1>8. \A d \in Fds : f[d] = IF d < 3 THEN Terminal ELSE Nothing
    OBVIOUS
  <1> HIDE DEF f, s
  <1>9. 0 \in 0 .. Stages + 1
    BY <1>2
  <1>10. r \in Procs
    BY <1>5, <1>6, <1>9 DEF Procs
  <1>11. /\ r.parent = 0 /\ r.stage = 0 /\ r.state = "launcher" /\ r.at = 1 /\ r.inside = 0
         /\ r.slots = s /\ r.fds = f /\ r.took = 0 /\ r.wrote = 0 /\ r.eof = FALSE
    OBVIOUS
  <1> HIDE DEF r
  <1>12. procs \in Seq(Procs) /\ Len(procs) = 1 /\ procs[1] = r /\ DOMAIN procs = {1}
    BY <1>3, <1>10
  <1>13. DOMAIN pipes = {}
    BY <1>3
  <1>14. Typed
    <2>1. \A p \in DOMAIN procs : p = 1 /\ \A d \in Fds : procs[p].fds[d].pipe = <<0, 0>>
      BY <1>5, <1>11, <1>12
    <2>2. \A p \in DOMAIN procs : \A d \in Fds : procs[p].fds[d].pipe \in DOMAIN pipes \cup {<<0, 0>>}
      BY <2>1
    <2>3. /\ procs \in Seq(Procs) /\ Len(procs) > 0 /\ procs[1].parent = 0
          /\ \A k \in DOMAIN pipes : pipes[k] \in 0 .. Capacity
      BY <1>11, <1>12, <1>13
    <2> QED BY <1>1, <2>1, <2>2, <2>3 DEF Typed
  <1> QED BY <1>7, <1>8, <1>11, <1>12, <1>13, <1>14

\* The invariant holds before the first step.
LEMMA IInvInit ==
  ASSUME Init PROVE IInv
  <1>1. /\ Typed /\ Len(procs) = 1 /\ DOMAIN procs = {1} /\ DOMAIN pipes = {}
        /\ procs[1].parent = 0 /\ procs[1].stage = 0 /\ procs[1].state = "launcher"
        /\ procs[1].at = 1 /\ procs[1].inside = 0 /\ procs[1].took = 0 /\ procs[1].wrote = 0 /\ ~procs[1].eof
        /\ \A s \in Slots : launcher # "inf15_3" => procs[1].slots[s] = -1
        /\ \A d \in Fds : procs[1].fds[d] = IF d < 3 THEN Terminal ELSE Nothing
    BY FirstProc
  <1>2. Len(Text) \in Nat /\ Stages \in Nat /\ Stages > 0 /\ launcher \in Launchers
    BY <1>1, Context DEF Typed, Chosen
  <1>3. Placed
    BY <1>1, <1>2 DEF Placed
  <1>4. Room
    <2>1. \A d \in Fds : d > 2 => procs[1].fds[d] = Nothing
      BY <1>1 DEF Fds
    <2> QED BY <1>1, <2>1 DEF Room
  <1>5. WaitsCome
    BY <1>1 DEF WaitsCome
  <1>6. ASSUME IsLinked PROVE RootWired /\ Forks /\ ChildrenWired /\ Eagerly /\ Gcc /\ Flow
    <2>0. \A k \in 1 .. Stages : ForkAt(launcher, Stages, k) \in 1 .. Len(Text)
      BY <1>1, <1>6, ForkPlaces
    <2>1. RootWired
      <3>1. ASSUME NEW s, NEW h, Knows(launcher, Stages, 1, s, h) PROVE KnownIn(procs[1], s, h)
        <4>1. launcher = "main_c" /\ s = 2 /\ h = Unset
          BY <1>2, <1>6, <3>1, KnowsFirst DEF IsLinked
        <4>2. 2 \in Slots
          BY <1>2 DEF Slots
        <4> QED BY <1>1, <4>1, <4>2 DEF KnownIn
      <3>2. \A d \in 0 .. 2 : procs[1].fds[d] = Terminal
        <4>1. \A d \in 0 .. 2 : d \in Fds /\ d < 3
          BY <1>2 DEF Fds
        <4> QED BY <1>1, <4>1
      <3>3. procs[1].state = "launcher" /\ procs[1].state # "ended"
        BY <1>1
      <3> QED BY <1>1, <3>1, <3>2, <3>3 DEF RootWired, RootFor
    <2>2. Forks
      <3>1. \A c \in DOMAIN procs : procs[c].parent # 1
        BY <1>1
      <3>2. \A k \in 1 .. Stages : ~(procs[1].at > ForkAt(launcher, Stages, k))
        BY <1>1, <2>0
      <3> QED BY <3>1, <3>2 DEF Forks
    <2>3. ChildrenWired
      BY <1>1 DEF ChildrenWired
    <2>4. Eagerly
      <3>1. ASSUME NEW k \in 1 .. Stages, IsEager(launcher, Stages, k)
            PROVE  ForkAt(launcher, Stages, k) \in Nat /\ ForkAt(launcher, Stages, k) >= 2
        <4>1. ForkAt(launcher, Stages, k) \in Nat /\ ForkAt(launcher, Stages, k) - 1 \in 1 .. Len(Text)
          BY <1>1, <1>6, <3>1, EagerContext
        <4> QED BY <1>2, <4>1
      <3>2. ASSUME NEW k \in 1 .. Stages, IsEager(launcher, Stages, k)
            PROVE  /\ procs[1].at # ForkAt(launcher, Stages, k) /\ procs[1].at # ForkAt(launcher, Stages, k) + 1
                   /\ ~(procs[1].at > ForkAt(launcher, Stages, k) + 1)
        BY <1>1, <3>1, <3>2
      <3> QED BY <3>2 DEF Eagerly
    <2>5. Gcc
      BY <1>1 DEF Gcc
    <2>6. Flow
      <3>1. AllKids /\ ~procs[1].eof
        BY <1>1 DEF AllKids
      <3>2. \A k : Balanced(k)
        <4>1. \A c \in DOMAIN procs : procs[c].parent # 1
          BY <1>1
        <4> QED BY <1>1, <4>1 DEF Balanced
      <3> QED BY <3>1, <3>2 DEF Flow
    <2> QED BY <2>1, <2>2, <2>3, <2>4, <2>5, <2>6
  <1>7. Alone
    BY <1>1 DEF Alone, AloneFor
  <1> QED BY <1>1, <1>3, <1>4, <1>5, <1>6, <1>7 DEF IInv

\* Every step keeps it.
LEMMA IInvStep ==
  ASSUME IInv, [Next]_vars
  PROVE  IInv'
  <1>1. CASE UNCHANGED vars
    <2>1. launcher' = launcher /\ line' = line /\ procs' = procs /\ pipes' = pipes
      BY <1>1 DEF vars
    <2>2. Same
      BY <2>1 DEF Same
    <2>3. Stages' = Stages /\ Text' = Text /\ Fds' = Fds /\ Slots' = Slots /\ Procs' = Procs /\ Chosen' = Chosen
          /\ IsLinked' = IsLinked /\ AllKnown' = AllKnown
      BY <2>2, TextStays
    <2>4. \A p : Live(p)' = Live(p)
      BY <2>1 DEF Live
    <2>5. Typed' = Typed
      BY <2>1, <2>3 DEF Typed
    <2>6. Placed' = Placed
      BY <2>1, <2>3 DEF Placed
    <2>7. Room' = Room
      BY <2>1, <2>3 DEF Room
    <2>8. WaitsCome' = WaitsCome
      BY <2>1, <2>3, <2>4 DEF WaitsCome
    <2>9. RootWired' = RootWired
      BY <2>1, <2>3 DEF RootWired
    <2>10. Forks' = Forks
      BY <2>1, <2>3 DEF Forks
    <2>11. ChildrenWired' = ChildrenWired
      BY <2>1, <2>3 DEF ChildrenWired
    <2>12. Eagerly' = Eagerly
      BY <2>1, <2>3 DEF Eagerly
    <2>13. Gcc' = Gcc
      BY <2>1, <2>3 DEF Gcc
    <2>14. Flow' = Flow
      <3>1. AllKids' = AllKids
        BY <2>1 DEF AllKids
      <3>2. \A k : Balanced(k)' = Balanced(k)
        BY <2>1, <2>4 DEF Balanced
      <3> QED BY <2>1, <2>3, <3>1, <3>2 DEF Flow
    <2>15. Alone' = Alone
      BY <2>1 DEF Alone
    <2> QED BY <2>3, <2>5, <2>6, <2>7, <2>8, <2>9, <2>10, <2>11, <2>12, <2>13, <2>14, <2>15 DEF IInv
  <1>2. CASE ~UNCHANGED vars
    <2>1. PICK p \in DOMAIN procs : Process(p)
      BY <1>2 DEF Next, Finished
    <2>2. Same
      BY <1>2, StepIsSame
    <2>3. IsLinked' = IsLinked
      BY <2>2, TextStays
    <2>4. Typed' /\ Placed' /\ Room' /\ WaitsCome'
      BY <2>1, <2>2, TypedStep, PlacedStep, RoomStep, WaitsStep DEF IInv
    <2>5. CASE IsLinked
      BY <2>1, <2>2, <2>3, <2>4, <2>5, RootStep, ForksStep, ChildrenStep, EagerStep, GccStep, FlowStep DEF IInv
    <2>6. CASE ~IsLinked
      BY <2>1, <2>2, <2>3, <2>4, <2>6, AloneStep1 DEF IInv
    <2> QED BY <2>5, <2>6
  <1> QED BY <1>1, <1>2

\* The types that the run checks.
LEMMA TypedIsOK ==
  ASSUME Typed
  PROVE  TypeOK
  <1>1. ASSUME NEW p \in DOMAIN procs
        PROVE  /\ procs[p].state \in {"launcher", "program", "ended"}
               /\ procs[p].parent \in 0 .. p - 1 /\ procs[p].stage \in 0 .. Stages + 1
               /\ procs[p].slots \in [Slots -> Fds \cup {-1}]
               /\ \A d \in Fds : procs[p].fds[d].pipe \in DOMAIN pipes \cup {<<0, 0>>}
    <2>1. p \in Nat /\ p >= 1
      BY TypedProc
    <2>2. procs[p].parent \in 0 .. p - 1
      <3>1. CASE p = 1
        BY <3>1 DEF Typed
      <3>2. CASE p # 1
        BY <3>2, <2>1 DEF Typed
      <3> QED BY <3>1, <3>2
    <2> QED BY <2>2, TypedProc DEF Typed, SlotMaps
  <1> QED BY <1>1 DEF Typed, Chosen, TypeOK

\* The types hold, whoever reads to the end gets everything, and a launcher that has
\* returned leaves nothing running, for every command line and every size of a pipe.
THEOREM PipelinesAreRight == Spec => []Inv
  <1>1. Init => IInv
    BY IInvInit
  <1>2. IInv /\ [Next]_vars => IInv'
    BY IInvStep
  <1>3. IInv => Inv
    BY TypedIsOK, AllGets, NothingLeft DEF IInv, Inv
  <1> QED BY <1>1, <1>2, <1>3, PTL DEF Spec

\* A launcher that waits for a program before anybody reads what it writes never returns
\* when that is more than a pipe holds.
THEOREM OverflowStopsLaunchers == Spec => []OverflowIsFatal
  <1>1. Init => IInv
    BY IInvInit
  <1>2. IInv /\ [Next]_vars => IInv'
    BY IInvStep
  <1>3. IInv => OverflowIsFatal
    BY EagerEnds DEF IInv
  <1> QED BY <1>1, <1>2, <1>3, PTL DEF Spec

=============================================================================
