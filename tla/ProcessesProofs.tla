---------------------------- MODULE ProcessesProofs ----------------------------
EXTENDS MCProcesses, Functions, SequencesExt, FiniteSetTheorems, SequenceTheorems,
        WellFoundedInduction, TLAPS

(***************************************************************************)
(* Induction over the natural numbers, with the numbers a claim holds for  *)
(* as a set, and the sums of the community modules, which are folds over   *)
(* finite sets.                                                            *)
(***************************************************************************)
\* Every set of natural numbers that is not empty has a least element.
LEMMA LeastElement ==
  ASSUME NEW K \in SUBSET Nat, K # {}
  PROVE  \E x \in K : \A y \in K : x <= y
  <1> DEFINE U == {0 .. x : x \in K}
  <1>1. U \subseteq FiniteSubsetsOf(Nat) /\ U # {}
    <2>1. ASSUME NEW x \in Nat PROVE IsFiniteSet(0 .. x) /\ 0 .. x \subseteq Nat
      BY FS_Interval
    <2>2. QED BY <2>1 DEF FiniteSubsetsOf
  <1>2. PICK u \in U : \A v \in U : ~ (<<v, u>> \in StrictSubsetOrdering(Nat))
    BY <1>1, FS_StrictSubsetOrderingWellFounded, WFMin
  <1>3. PICK x \in K : u = 0 .. x
    OBVIOUS
  <1>4. ASSUME NEW y \in K, y < x PROVE FALSE
    <2>1. 0 .. y \in U /\ 0 .. y \subseteq 0 .. x /\ x \in 0 .. x /\ x \notin 0 .. y
      BY <1>4
    <2>2. 0 .. y \in SUBSET Nat /\ 0 .. x \in SUBSET Nat
      OBVIOUS
    <2>3. <<0 .. y, 0 .. x>> \in StrictSubsetOrdering(Nat)
      BY <2>1, <2>2 DEF StrictSubsetOrdering
    <2>4. QED BY <1>2, <1>3, <2>1, <2>3
  <1>5. QED BY <1>4

\* Induction: K holds the numbers a claim is true of.
LEMMA Induction ==
  ASSUME NEW K, 0 \in K, \A n \in Nat : n \in K => n + 1 \in K
  PROVE  \A n \in Nat : n \in K
  <1> DEFINE U == {n \in Nat : n \notin K}
  <1> SUFFICES ASSUME U # {} PROVE FALSE
    OBVIOUS
  <1>1. PICK x \in U : \A y \in U : x <= y
    BY LeastElement
  <1>2. x \in Nat /\ x # 0 /\ x \notin K
    OBVIOUS
  <1>3. x - 1 \in Nat /\ x - 1 \notin U /\ (x - 1) + 1 = x
    BY <1>1, <1>2
  <1>4. x - 1 \in K
    BY <1>3
  <1> QED BY <1>2, <1>3, <1>4

-----------------------------------------------------------------------------
(***************************************************************************)
(* A sum is the value, at the whole set, of a function on its subsets that *)
(* takes one element away after the other.                                 *)
(***************************************************************************)
Picked(s) == CHOOSE x \in s : TRUE
SumsOver(g, f, D) ==
  g = [s \in D |-> IF s = {} THEN 0 ELSE f[Picked(s)] + g[s \ {Picked(s)}]]

LEMMA SumIsChosen ==
  ASSUME NEW f, NEW H
  PROVE  SumFunctionOnSet(f, H) = (CHOOSE g : SumsOver(g, f, SUBSET H))[H]
  BY DEF SumFunctionOnSet, FoldFunctionOnSet, MapThenFoldSet, SumsOver, Picked

LEMMA SumOfSequence ==
  ASSUME NEW s
  PROVE  FoldSeq(+, 0, s) = SumFunctionOnSet(s, DOMAIN s)
  BY DEF SumFunctionOnSet, FoldSeq, FoldFunction

LEMMA SmallerSubset ==
  ASSUME NEW H, IsFiniteSet(H), H # {}
  PROVE  /\ Picked(H) \in H /\ IsFiniteSet(H \ {Picked(H)})
         /\ Cardinality(H) \in Nat \ {0}
         /\ Cardinality(H \ {Picked(H)}) = Cardinality(H) - 1
  <1>1. Picked(H) \in H
    BY DEF Picked
  <1>2. Cardinality(H) \in Nat \ {0}
    BY FS_CardinalityType, FS_EmptySet
  <1> QED BY <1>1, <1>2, FS_RemoveElement

LEMMA SumExists ==
  ASSUME NEW f, NEW H, IsFiniteSet(H)
  PROVE  \E g : SumsOver(g, f, SUBSET H)
  <1> DEFINE Sub(n) == {s \in SUBSET H : Cardinality(s) <= n}
             K == {n \in Nat : \E g : SumsOver(g, f, Sub(n))}
  <1>1. \A s \in SUBSET H : IsFiniteSet(s) /\ Cardinality(s) \in Nat
    BY FS_Subset, FS_CardinalityType
  <1>2. 0 \in K
    <2>1. \A s \in Sub(0) : s = {}
      BY <1>1, FS_EmptySet
    <2> DEFINE g == [s \in Sub(0) |-> 0]
    <2>2. SumsOver(g, f, Sub(0))
      BY <2>1 DEF SumsOver
    <2> QED BY <2>2
  <1>3. ASSUME NEW n \in Nat, n \in K PROVE n + 1 \in K
    <2>1. PICK h : SumsOver(h, f, Sub(n))
      BY <1>3
    <2> DEFINE g == [s \in Sub(n + 1) |->
                       IF s = {} THEN 0 ELSE f[Picked(s)] + h[s \ {Picked(s)}]]
    <2>2. \A s \in Sub(n) : s \in Sub(n + 1) /\ g[s] = h[s]
      <3> SUFFICES ASSUME NEW s \in Sub(n) PROVE s \in Sub(n + 1) /\ g[s] = h[s]
        OBVIOUS
      <3>1. s \in Sub(n + 1)
        BY <1>1
      <3>2. h[s] = IF s = {} THEN 0 ELSE f[Picked(s)] + h[s \ {Picked(s)}]
        BY <2>1 DEF SumsOver
      <3> QED BY <3>1, <3>2
    <2>3. ASSUME NEW s \in Sub(n + 1), s # {} PROVE s \ {Picked(s)} \in Sub(n)
      <3>1. /\ s \in SUBSET H /\ IsFiniteSet(s) /\ Cardinality(s) \in Nat
            /\ Cardinality(s) <= n + 1
        BY <1>1
      <3>2. Cardinality(s \ {Picked(s)}) = Cardinality(s) - 1
        BY <2>3, <3>1, SmallerSubset
      <3>3. s \ {Picked(s)} \in SUBSET H /\ Cardinality(s \ {Picked(s)}) <= n
        BY <3>1, <3>2
      <3> QED BY <3>3
    <2>4. \A s \in Sub(n + 1) :
            g[s] = IF s = {} THEN 0 ELSE f[Picked(s)] + g[s \ {Picked(s)}]
      BY <2>2, <2>3
    <2>5. g = [s \in Sub(n + 1) |-> g[s]]
      OBVIOUS
    <2> HIDE DEF g, Sub
    <2>6. [s \in Sub(n + 1) |-> g[s]] =
          [s \in Sub(n + 1) |-> IF s = {} THEN 0 ELSE f[Picked(s)] + g[s \ {Picked(s)}]]
      BY <2>4
    <2>7. SumsOver(g, f, Sub(n + 1))
      BY <2>5, <2>6 DEF SumsOver
    <2> QED BY <2>7
  <1> HIDE DEF K
  <1>4. \A n \in Nat : n \in K
    BY <1>2, <1>3, Induction
  <1>5. Cardinality(H) \in K
    BY <1>4, FS_CardinalityType
  <1>6. Sub(Cardinality(H)) = SUBSET H
    BY <1>1, FS_Subset
  <1> QED BY <1>5, <1>6 DEF K

\* Two such functions agree where what they sum up does.
LEMMA SumsAgree ==
  ASSUME NEW f, NEW g, NEW A, NEW B, NEW u, NEW v, NEW H, H \subseteq A, H \subseteq B,
         IsFiniteSet(H), SumsOver(u, f, SUBSET A), SumsOver(v, g, SUBSET B),
         \A x \in H : f[x] = g[x]
  PROVE  u[H] = v[H]
  <1> DEFINE K == {n \in Nat : \A s \in SUBSET H : Cardinality(s) = n => u[s] = v[s]}
  <1>1. \A s \in SUBSET H : IsFiniteSet(s) /\ Cardinality(s) \in Nat
    BY FS_Subset, FS_CardinalityType
  <1>2. \A s \in SUBSET H :
          /\ u[s] = IF s = {} THEN 0 ELSE f[Picked(s)] + u[s \ {Picked(s)}]
          /\ v[s] = IF s = {} THEN 0 ELSE g[Picked(s)] + v[s \ {Picked(s)}]
    <2> SUFFICES ASSUME NEW s \in SUBSET H
        PROVE /\ u[s] = IF s = {} THEN 0 ELSE f[Picked(s)] + u[s \ {Picked(s)}]
              /\ v[s] = IF s = {} THEN 0 ELSE g[Picked(s)] + v[s \ {Picked(s)}]
      OBVIOUS
    <2>1. s \in SUBSET A /\ s \in SUBSET B
      OBVIOUS
    <2> QED BY <2>1 DEF SumsOver
  <1>3. 0 \in K
    BY <1>1, <1>2, FS_EmptySet
  <1>4. ASSUME NEW n \in Nat, n \in K PROVE n + 1 \in K
    <2> SUFFICES ASSUME NEW s \in SUBSET H, Cardinality(s) = n + 1 PROVE u[s] = v[s]
      OBVIOUS
    <2>1. s # {}
      BY FS_EmptySet
    <2>2. Picked(s) \in H /\ s \ {Picked(s)} \in SUBSET H /\ Cardinality(s \ {Picked(s)}) = n
      BY <1>1, <2>1, SmallerSubset
    <2>3. u[s \ {Picked(s)}] = v[s \ {Picked(s)}] /\ f[Picked(s)] = g[Picked(s)]
      BY <1>4, <2>2
    <2> QED BY <1>2, <2>1, <2>3
  <1> HIDE DEF K
  <1>5. \A n \in Nat : n \in K
    BY <1>3, <1>4, Induction
  <1>6. Cardinality(H) \in K /\ H \in SUBSET H
    BY <1>5, FS_CardinalityType
  <1> QED BY <1>6 DEF K

\* A sum depends on the values in the set alone.
LEMMA SumEqual ==
  ASSUME NEW f, NEW g, NEW H, IsFiniteSet(H), \A x \in H : f[x] = g[x]
  PROVE  SumFunctionOnSet(f, H) = SumFunctionOnSet(g, H)
  <1> DEFINE u == CHOOSE h : SumsOver(h, f, SUBSET H)
             v == CHOOSE h : SumsOver(h, g, SUBSET H)
  <1>1. SumsOver(u, f, SUBSET H) /\ SumsOver(v, g, SUBSET H)
    BY SumExists
  <1> HIDE DEF u, v
  <1>2. u[H] = v[H]
    BY <1>1, SumsAgree
  <1> QED BY <1>2, SumIsChosen DEF u, v

LEMMA SumOfNothing == ASSUME NEW f PROVE SumFunctionOnSet(f, {}) = 0
  <1> DEFINE u == CHOOSE h : SumsOver(h, f, SUBSET {})
  <1>1. SumsOver(u, f, SUBSET {})
    BY SumExists, FS_EmptySet
  <1> HIDE DEF u
  <1>2. u[{}] = 0
    BY <1>1 DEF SumsOver
  <1> QED BY <1>2, SumIsChosen DEF u

LEMMA SumTakesPicked ==
  ASSUME NEW f, NEW H, IsFiniteSet(H), H # {}
  PROVE  SumFunctionOnSet(f, H) = f[Picked(H)] + SumFunctionOnSet(f, H \ {Picked(H)})
  <1> DEFINE R == H \ {Picked(H)}
             u == CHOOSE h : SumsOver(h, f, SUBSET H)
             v == CHOOSE h : SumsOver(h, f, SUBSET R)
  <1>1. IsFiniteSet(R) /\ R \subseteq H
    BY SmallerSubset
  <1>2. SumsOver(u, f, SUBSET H) /\ SumsOver(v, f, SUBSET R)
    BY <1>1, SumExists
  <1> HIDE DEF u, v
  <1>3. u[R] = v[R]
    <2> HIDE DEF R
    <2>1. R \subseteq R /\ \A x \in R : f[x] = f[x]
      OBVIOUS
    <2> QED BY ONLY <1>1, <1>2, <2>1, SumsAgree
  <1>4. u[H] = f[Picked(H)] + u[R]
    BY <1>2 DEF SumsOver
  <1>5. SumFunctionOnSet(f, H) = u[H] /\ SumFunctionOnSet(f, R) = v[R]
    BY SumIsChosen DEF u, v
  <1> QED BY <1>3, <1>4, <1>5

\* The sum of integers is one.
LEMMA SumType ==
  ASSUME NEW f, NEW H, IsFiniteSet(H), \A x \in H : f[x] \in Int
  PROVE  SumFunctionOnSet(f, H) \in Int
  <1> DEFINE K == {n \in Nat : \A s \in SUBSET H :
                                 Cardinality(s) = n => SumFunctionOnSet(f, s) \in Int}
  <1>1. \A s \in SUBSET H : IsFiniteSet(s) /\ Cardinality(s) \in Nat
    BY FS_Subset, FS_CardinalityType
  <1>2. 0 \in K
    BY <1>1, FS_EmptySet, SumOfNothing
  <1>3. ASSUME NEW n \in Nat, n \in K PROVE n + 1 \in K
    <2> SUFFICES ASSUME NEW s \in SUBSET H, Cardinality(s) = n + 1
        PROVE SumFunctionOnSet(f, s) \in Int
      OBVIOUS
    <2>1. s # {} /\ IsFiniteSet(s)
      BY <1>1, FS_EmptySet
    <2>2. Picked(s) \in H /\ s \ {Picked(s)} \in SUBSET H /\ Cardinality(s \ {Picked(s)}) = n
      BY <1>1, <2>1, SmallerSubset
    <2>3. SumFunctionOnSet(f, s \ {Picked(s)}) \in Int /\ f[Picked(s)] \in Int
      BY <1>3, <2>2
    <2>4. SumFunctionOnSet(f, s) = f[Picked(s)] + SumFunctionOnSet(f, s \ {Picked(s)})
      BY <2>1, SumTakesPicked
    <2> QED BY <2>3, <2>4
  <1> HIDE DEF K
  <1>4. Cardinality(H) \in K /\ H \in SUBSET H
    BY <1>2, <1>3, Induction, FS_CardinalityType
  <1> QED BY <1>4 DEF K

\* Any element can be taken away first.
LEMMA SumTakesAny ==
  ASSUME NEW f, NEW H, IsFiniteSet(H), \A x \in H : f[x] \in Int, NEW y \in H
  PROVE  SumFunctionOnSet(f, H) = f[y] + SumFunctionOnSet(f, H \ {y})
  <1> DEFINE Claim(s) ==
               \A x \in s : SumFunctionOnSet(f, s) = f[x] + SumFunctionOnSet(f, s \ {x})
             K == {n \in Nat : \A s \in SUBSET H : Cardinality(s) = n => Claim(s)}
  <1>1. \A s \in SUBSET H :
          IsFiniteSet(s) /\ Cardinality(s) \in Nat /\ SumFunctionOnSet(f, s) \in Int
    <2> SUFFICES ASSUME NEW s \in SUBSET H
        PROVE IsFiniteSet(s) /\ Cardinality(s) \in Nat /\ SumFunctionOnSet(f, s) \in Int
      OBVIOUS
    <2>1. IsFiniteSet(s)
      BY FS_Subset
    <2>2. SumFunctionOnSet(f, s) \in Int
      BY <2>1, SumType
    <2> QED BY <2>1, <2>2, FS_CardinalityType
  <1>2. 0 \in K
    BY <1>1, FS_EmptySet
  <1>3. ASSUME NEW n \in Nat, n \in K PROVE n + 1 \in K
    <2> SUFFICES ASSUME NEW s \in SUBSET H, Cardinality(s) = n + 1
        PROVE Claim(s)
      <3> HIDE DEF Claim
      <3> QED OBVIOUS
    <2> SUFFICES ASSUME NEW x \in s
        PROVE SumFunctionOnSet(f, s) = f[x] + SumFunctionOnSet(f, s \ {x})
      OBVIOUS
    <2> DEFINE p == Picked(s)
    <2>1. s # {} /\ IsFiniteSet(s) /\ p \in s /\ p \in H /\ Cardinality(s \ {p}) = n
      BY <1>1, SmallerSubset
    <2>2. SumFunctionOnSet(f, s) = f[p] + SumFunctionOnSet(f, s \ {p})
      BY <2>1, SumTakesPicked
    <2> HIDE DEF p
    <2>3. CASE x = p
      BY <2>2, <2>3
    <2>4. CASE x # p
      <3>1. Cardinality(s \ {x}) = n /\ s \ {x} \in SUBSET H /\ s \ {p} \in SUBSET H
        BY <2>1, FS_RemoveElement
      <3>6. Claim(s \ {p}) /\ Claim(s \ {x}) /\ x \in s \ {p} /\ p \in s \ {x}
        BY <1>3, <2>1, <2>4, <3>1
      <3>2. SumFunctionOnSet(f, s \ {p}) = f[x] + SumFunctionOnSet(f, (s \ {p}) \ {x})
        BY <3>6
      <3>3. SumFunctionOnSet(f, s \ {x}) = f[p] + SumFunctionOnSet(f, (s \ {x}) \ {p})
        BY <3>6
      <3>4. (s \ {p}) \ {x} = (s \ {x}) \ {p} /\ (s \ {x}) \ {p} \in SUBSET H
        OBVIOUS
      <3>5. SumFunctionOnSet(f, (s \ {x}) \ {p}) \in Int /\ f[x] \in Int /\ f[p] \in Int
        BY <1>1, <2>1, <3>4
      <3> DEFINE X == SumFunctionOnSet(f, (s \ {x}) \ {p})
                 Y == SumFunctionOnSet(f, s \ {x})
                 Z == SumFunctionOnSet(f, s \ {p})
                 W == SumFunctionOnSet(f, s)
      <3>7. SumFunctionOnSet(f, (s \ {p}) \ {x}) = X
        BY <3>4, Zenon
      <3>8. Z = f[x] + X /\ Y = f[p] + X /\ W = f[p] + Z /\ X \in Int
        BY <2>2, <3>2, <3>3, <3>5, <3>7
      <3> HIDE DEF X, Y, Z, W
      <3>9. W = f[x] + Y
        BY <3>5, <3>8
      <3> QED BY <3>9 DEF W, Y
    <2> QED BY <2>3, <2>4
  <1> HIDE DEF K
  <1>4. Cardinality(H) \in K /\ H \in SUBSET H
    BY <1>2, <1>3, Induction, FS_CardinalityType
  <1> QED BY <1>4 DEF K

\* One value changes.
LEMMA SumOfChanged ==
  ASSUME NEW f, NEW g, NEW H, IsFiniteSet(H), \A x \in H : f[x] \in Int, NEW y \in H,
         g[y] \in Int, \A x \in H \ {y} : g[x] = f[x]
  PROVE  SumFunctionOnSet(g, H) = SumFunctionOnSet(f, H) - f[y] + g[y]
  <1>1. IsFiniteSet(H \ {y}) /\ \A x \in H : g[x] \in Int
    BY FS_RemoveElement
  <1>2. SumFunctionOnSet(f, H) = f[y] + SumFunctionOnSet(f, H \ {y})
    BY SumTakesAny
  <1>3. SumFunctionOnSet(g, H) = g[y] + SumFunctionOnSet(g, H \ {y})
    BY <1>1, SumTakesAny
  <1>4. SumFunctionOnSet(f, H \ {y}) = SumFunctionOnSet(g, H \ {y})
    BY <1>1, SumEqual
  <1>5. SumFunctionOnSet(f, H \ {y}) \in Int
    BY <1>1, SumType
  <1> QED BY <1>2, <1>3, <1>4, <1>5

LEMMA SumOfZeros ==
  ASSUME NEW f, NEW H, IsFiniteSet(H), \A x \in H : f[x] = 0
  PROVE  SumFunctionOnSet(f, H) = 0
  <1> DEFINE K == {n \in Nat : \A s \in SUBSET H :
                                 Cardinality(s) = n => SumFunctionOnSet(f, s) = 0}
  <1>1. \A s \in SUBSET H : IsFiniteSet(s) /\ Cardinality(s) \in Nat
    BY FS_Subset, FS_CardinalityType
  <1>2. 0 \in K
    BY <1>1, FS_EmptySet, SumOfNothing
  <1>3. ASSUME NEW n \in Nat, n \in K PROVE n + 1 \in K
    <2> SUFFICES ASSUME NEW s \in SUBSET H, Cardinality(s) = n + 1
        PROVE SumFunctionOnSet(f, s) = 0
      OBVIOUS
    <2>1. s # {} /\ IsFiniteSet(s)
      BY <1>1, FS_EmptySet
    <2>2. Picked(s) \in H /\ s \ {Picked(s)} \in SUBSET H /\ Cardinality(s \ {Picked(s)}) = n
      BY <1>1, <2>1, SmallerSubset
    <2>3. SumFunctionOnSet(f, s \ {Picked(s)}) = 0 /\ f[Picked(s)] = 0
      BY <1>3, <2>2
    <2>4. SumFunctionOnSet(f, s) = f[Picked(s)] + SumFunctionOnSet(f, s \ {Picked(s)})
      BY <2>1, SumTakesPicked
    <2> QED BY <2>3, <2>4
  <1> HIDE DEF K
  <1>4. Cardinality(H) \in K /\ H \in SUBSET H
    BY <1>2, <1>3, Induction, FS_CardinalityType
  <1> QED BY <1>4 DEF K

\* The numbers of a sequence, the first apart.
LEMMA SumHeadTail ==
  ASSUME NEW s \in Seq(Int), s # <<>>
  PROVE  FoldSeq(+, 0, s) = Head(s) + FoldSeq(+, 0, Tail(s))
  <1> DEFINE Q == Len(s) t == Tail(s)
             K == {n \in Nat : n < Q =>
                     SumFunctionOnSet(s, 1 .. n + 1) = s[1] + SumFunctionOnSet(t, 1 .. n)}
  <1>1. /\ Q \in Nat \ {0} /\ DOMAIN s = 1 .. Q /\ \A x \in 1 .. Q : s[x] \in Int
        /\ t \in Seq(Int) /\ Len(t) = Q - 1 /\ DOMAIN t = 1 .. Q - 1
        /\ \A x \in 1 .. Q - 1 : t[x] = s[x + 1] /\ t[x] \in Int
        /\ Head(s) = s[1]
    OBVIOUS
  <1> HIDE DEF Q, t
  <1>2. \A n \in Nat : IsFiniteSet(1 .. n)
    BY FS_Interval
  <1>3. 0 \in K
    <2>1. 1 .. 1 = {1} /\ 1 .. 0 = {} /\ {1} \ {1} = {}
      OBVIOUS
    <2>4. s[1] \in Int /\ 0 < Q
      BY <1>1
    <2>5. IsFiniteSet({1})
      BY FS_Singleton, Zenon
    <2>2. IsFiniteSet({1}) /\ 1 \in {1} /\ \A x \in {1} : s[x] \in Int
      BY <2>4, <2>5
    <2>3. SumFunctionOnSet(s, {1}) = s[1] + SumFunctionOnSet(s, {1} \ {1})
      BY ONLY <2>2, SumTakesAny
    <2>6. SumFunctionOnSet(t, {}) = 0 /\ SumFunctionOnSet(s, {}) = 0
      BY SumOfNothing
    <2>10. SumFunctionOnSet(s, {1} \ {1}) = 0
      BY <2>1, <2>6, Zenon
    <2>7. SumFunctionOnSet(s, {1}) = s[1]
      BY <2>3, <2>4, <2>10
    <2>8. 0 + 1 = 1 /\ 1 .. 0 + 1 = {1} /\ s[1] + 0 = s[1]
      BY <2>4
    <2>9. SumFunctionOnSet(s, 1 .. 0 + 1) = s[1] + SumFunctionOnSet(t, 1 .. 0)
      BY <2>1, <2>6, <2>7, <2>8
    <2> QED BY <2>9
  <1>4. ASSUME NEW n \in Nat, n \in K PROVE n + 1 \in K
    <2> SUFFICES ASSUME n + 1 < Q
        PROVE SumFunctionOnSet(s, 1 .. (n + 1) + 1) = s[1] + SumFunctionOnSet(t, 1 .. n + 1)
      OBVIOUS
    <2>1. /\ (1 .. (n + 1) + 1) \ {n + 2} = 1 .. n + 1 /\ (1 .. n + 1) \ {n + 1} = 1 .. n
          /\ n + 2 \in 1 .. (n + 1) + 1 /\ n + 1 \in 1 .. n + 1
          /\ (n + 1) + 1 \in Nat /\ n + 1 \in Nat
      OBVIOUS
    <2>2. /\ \A x \in 1 .. (n + 1) + 1 : s[x] \in Int
          /\ \A x \in 1 .. n + 1 : t[x] \in Int /\ s[x] \in Int
          /\ \A x \in 1 .. n : t[x] \in Int
          /\ t[n + 1] = s[n + 2]
      BY <1>1
    <2> DEFINE A == 1 .. (n + 1) + 1 B == 1 .. n + 1 C == 1 .. n
    <2>7. IsFiniteSet(A) /\ IsFiniteSet(B) /\ IsFiniteSet(C)
      BY <1>2, <2>1
    <2>8. /\ A \ {n + 2} = B /\ B \ {n + 1} = C /\ n + 2 \in A /\ n + 1 \in B
          /\ \A x \in A : s[x] \in Int
          /\ \A x \in B : t[x] \in Int /\ s[x] \in Int
          /\ \A x \in C : t[x] \in Int
      BY <2>1, <2>2
    <2> HIDE DEF A, B, C
    <2>3. SumFunctionOnSet(s, A) = s[n + 2] + SumFunctionOnSet(s, B)
      <3>1. SumFunctionOnSet(s, A) = s[n + 2] + SumFunctionOnSet(s, A \ {n + 2})
        BY ONLY <2>7, <2>8, SumTakesAny
      <3> QED BY <2>8, <3>1
    <2>4. SumFunctionOnSet(t, B) = t[n + 1] + SumFunctionOnSet(t, C)
      <3>1. SumFunctionOnSet(t, B) = t[n + 1] + SumFunctionOnSet(t, B \ {n + 1})
        BY ONLY <2>7, <2>8, SumTakesAny, SMTT(30)
      <3> QED BY <2>8, <3>1
    <2>5. SumFunctionOnSet(s, B) = s[1] + SumFunctionOnSet(t, C)
      BY <1>1, <1>4 DEF B, C
    <2>6. SumFunctionOnSet(t, C) \in Int
      BY ONLY <2>7, <2>8, SumType
    <2>9. s[1] \in Int /\ s[n + 2] \in Int
      BY <1>1
    <2>10. SumFunctionOnSet(s, A) = s[1] + SumFunctionOnSet(t, B)
      BY <2>2, <2>3, <2>4, <2>5, <2>6, <2>9
    <2> QED BY <2>10 DEF A, B
  <1> HIDE DEF K
  <1>5. Q - 1 \in K
    <2>1. \A n \in Nat : n \in K
      BY <1>3, <1>4, Induction
    <2> QED BY <1>1, <2>1
  <1>6. SumFunctionOnSet(s, 1 .. Q) = s[1] + SumFunctionOnSet(t, 1 .. Q - 1)
    BY <1>1, <1>5 DEF K
  <1> QED BY <1>1, <1>6, SumOfSequence DEF t

-----------------------------------------------------------------------------

(***************************************************************************)
(* The shares of the children are a partition of the array.                *)
(***************************************************************************)
LEMMA DivisionOfCells ==
  ASSUME proc_cnt \in Processors, NEW c \in Nat
  PROVE  /\ work(c) \in Nat /\ remainder(c) \in 0 .. proc_cnt - 1
         /\ c = work(c) * proc_cnt + remainder(c)
  <1>1. proc_cnt \in Nat \ {0}
    BY ProcessorsAssumption
  <1>2. c \div proc_cnt \in Nat /\ c % proc_cnt \in 0 .. proc_cnt - 1
        /\ c = proc_cnt * (c \div proc_cnt) + (c % proc_cnt)
    BY <1>1
  <1>3. proc_cnt * (c \div proc_cnt) = (c \div proc_cnt) * proc_cnt
    BY <1>1, <1>2
  <1> QED BY <1>2, <1>3 DEF work, remainder

LEMMA ProductsAreMonotone ==
  ASSUME NEW a \in Nat, NEW b \in Nat, NEW w \in Nat, a <= b
  PROVE  a * w <= b * w /\ a * w \in Nat /\ b * w \in Nat
  <1>1. PICK d \in Nat : b = a + d
    <2>1. b - a \in Nat /\ b = a + (b - a)
      OBVIOUS
    <2> QED BY <2>1
  <1>2. b * w = a * w + d * w
    BY <1>1
  <1>3. a * w \in Nat /\ d * w \in Nat
    BY <1>1
  <1> QED BY <1>2, <1>3

LEMMA EveryCellHasAShare ==
  ASSUME proc_cnt \in Processors, NEW c \in Nat, NEW k \in 0 .. c - 1
  PROVE  \E s \in Slots : k \in Share(c, s)
  <1> DEFINE w == work(c) r == remainder(c)
  <1>1. w \in Nat /\ r \in 0 .. proc_cnt - 1 /\ c = w * proc_cnt + r /\ proc_cnt \in Nat \ {0}
    BY DivisionOfCells, ProcessorsAssumption
  <1>2. Slots = 0 .. proc_cnt - 1
    BY DEF Slots
  <1>3. w * proc_cnt \in Nat
    BY <1>1
  <1>4. CASE k >= w * proc_cnt
    <2> DEFINE s == k - w * proc_cnt
    <2>1. s \in Slots /\ s < r /\ w * proc_cnt + s = k
      <3> DEFINE b == w * proc_cnt
      <3>1. b \in Nat /\ b <= k /\ c = b + r /\ s = k - b
        BY <1>1, <1>3, <1>4
      <3> HIDE DEF b, s, r
      <3>2. s \in Nat /\ s < r /\ b + s = k
        BY <3>1, <1>1
      <3> QED BY <3>2, <1>1, <1>2 DEF b
    <2>2. k \in Share(c, s)
      BY <2>1 DEF Share
    <2> QED BY <2>1, <2>2
  <1>5. CASE k < w * proc_cnt
    <2> DEFINE s == k \div w
    <2>1. w \in Nat \ {0}
      <3>1. w # 0
        <4> SUFFICES ASSUME w = 0 PROVE FALSE
          OBVIOUS
        <4>1. w * proc_cnt = 0
          BY <1>1
        <4> QED BY <4>1, <1>5
      <3> QED BY <1>1, <3>1
    <2>2. s \in Nat /\ s * w <= k /\ k < s * w + w /\ s * w \in Nat
      BY <2>1
    <2>3. (s + 1) * w = s * w + w
      BY <2>1, <2>2
    <2>4. s < proc_cnt
      <3> SUFFICES ASSUME proc_cnt <= s PROVE FALSE
        BY <1>1, <2>2
      <3>1. proc_cnt * w <= s * w
        BY <1>1, <2>1, <2>2, ProductsAreMonotone
      <3>2. proc_cnt * w = w * proc_cnt
        BY <1>1
      <3> QED BY <1>3, <1>5, <2>2, <3>1, <3>2
    <2>5. k \in s * w .. (s + 1) * w - 1
      BY <2>1, <2>2, <2>3
    <2>6. k \in Share(c, s)
      BY <2>5 DEF Share
    <2>7. s \in Slots
      BY <1>1, <1>2, <2>2, <2>4
    <2> QED BY <2>6, <2>7
  <1> QED BY <1>3, <1>4, <1>5

LEMMA SharesAreDisjoint ==
  ASSUME proc_cnt \in Processors, NEW c \in Nat, NEW s \in Slots, NEW t \in Slots, s < t
  PROVE  Share(c, s) \cap Share(c, t) = {}
  <1> DEFINE w == work(c) r == remainder(c)
  <1>0. proc_cnt \in Nat \ {0}
    BY ProcessorsAssumption
  <1>1. w \in Nat /\ proc_cnt \in Nat \ {0} /\ s \in Nat /\ t \in Nat /\ t < proc_cnt
    <2>1. w \in Nat
      BY DivisionOfCells
    <2>2. s \in Nat /\ t \in Nat /\ t < proc_cnt
      BY <1>0 DEF Slots
    <2> QED BY <1>0, <2>1, <2>2
  <1>2. (s + 1) * w <= t * w /\ (s + 1) * w \in Nat /\ t * w \in Nat
    BY <1>1, ProductsAreMonotone
  <1>3. (t + 1) * w <= proc_cnt * w /\ (t + 1) * w \in Nat /\ proc_cnt * w \in Nat
    BY <1>1, ProductsAreMonotone
  <1>4. w * proc_cnt = proc_cnt * w
    BY <1>1
  <1>5. (t + 1) * w = t * w + w /\ s * w \in Nat
    BY <1>1
  <1>6. SUFFICES ASSUME NEW k \in Share(c, s), k \in Share(c, t) PROVE FALSE
    OBVIOUS
  <1>7. k \in s * w .. (s + 1) * w - 1 \/ k = w * proc_cnt + s
    BY DEF Share
  <1>8. k \in t * w .. (t + 1) * w - 1 \/ k = w * proc_cnt + t
    BY <1>6 DEF Share
  <1> HIDE DEF w
  <1> QED BY <1>1, <1>2, <1>3, <1>4, <1>5, <1>7, <1>8

\* Every cell of the array belongs to the share of exactly one child, for every
\* length and every number of processors (inf20-1.c:43-50).
THEOREM SharesPartitionTheArray ==
  ASSUME proc_cnt \in Processors, NEW c \in Nat, NEW k \in 0 .. c - 1
  PROVE  /\ \E s \in Slots : k \in Share(c, s)
         /\ \A s, t \in Slots : k \in Share(c, s) /\ k \in Share(c, t) => s = t
  <1>1. \A s, t \in Slots : s = t \/ s < t \/ t < s
    BY ProcessorsAssumption DEF Slots
  <1> QED BY <1>1, EveryCellHasAShare, SharesAreDisjoint

-----------------------------------------------------------------------------
(***************************************************************************)
(* As long as nobody has been misled about which process it is, the caller *)
(* alone forks, and the processes are numbered in that order.              *)
(***************************************************************************)
Kids == procs \ {Main}

\* Number of the forks the caller has tried, and of the posts it has taken.
Tried == IF pc[Main] \in {"map", "killed"} THEN 0
         ELSE IF pc[Main] = "fork" THEN i[Main]
         ELSE IF pc[Main] \in {"store", "test"} THEN i[Main] + 1
         ELSE proc_cnt
Waited == IF pc[Main] = "wait" THEN i[Main]
          ELSE IF pc[Main] \in {"reap", "returned"} THEN proc_cnt ELSE 0

Shapes ==
  /\ proc_cnt \in Processors /\ count \in Nat /\ semaphore \in Int
  /\ pc \in [Ids -> {"none", "map", "killed", "fork", "store", "test", "work", "post",
                     "wait", "reap", "returned", "exited", "reaped"}]
  /\ i \in [Ids -> Slots] /\ forked \in [Ids -> Int] /\ parent \in [Ids -> Int]
  /\ buffer \in [0 .. count - 1 -> Nat]

Family ==
  /\ \E m \in 1 .. MaxProcs :
       procs = 1 .. m /\ (failed => m <= Tried) /\ (~failed => m = Tried + 1)
  /\ parent[Main] = Nobody
  /\ pc[Main] \in {"map", "killed", "fork", "store", "test", "wait", "reap", "returned"}
  /\ pc[Main] \in {"store", "test"} => forked[Main] # 0
  /\ pc[Main] = "map" => i[Main] = 0
  /\ \A p \in Kids :
       /\ forked[p] = 0 /\ i[p] < Tried /\ (~failed => i[p] = p - 2)
       /\ pc[p] \in {"store", "test", "work", "post", "exited", "reaped"}
  /\ \A p, q \in Kids : i[p] = i[q] => p = q

\* The caller has taken no more posts than the children have sent, unless the
\* pids lie over the semaphore.
Sent == {p \in Kids : pc[p] \in {"exited", "reaped"}}
Tokens == Apart => semaphore \in Nat /\ semaphore + Waited <= Cardinality(Sent)

\* A cell is computed when its child has done its share, and then once.
Done == {p \in Kids : pc[p] \in {"post", "exited", "reaped"}}
Cells ==
  \A k \in 0 .. count - 1 :
    buffer[k] = IF \E p \in Done : k \in Share(count, i[p]) THEN 1 ELSE 0

Good == Shapes /\ Family /\ Tokens /\ Cells
MapInv ==
  /\ build \in {"keeps", "reloads"}
  /\ misled => build = "reloads"
  /\ ~misled => Good

LEMMA SlotFacts ==
  ASSUME proc_cnt \in Processors
  PROVE
  /\ proc_cnt \in Nat \ {0} /\ MaxProcs \in Nat /\ MaxProcs > proc_cnt
  /\ Slots = 0 .. proc_cnt - 1 /\ Ids = 1 .. MaxProcs /\ Main \in Ids /\ 0 \in Slots
  BY ProcessorsAssumption DEF Slots, Ids, Main

LEMMA ApartStays == ASSUME proc_cnt' = proc_cnt, count' = count PROVE Apart' = Apart
  BY DEF Apart, ValueSlot

LEMMA GoodInit == Init => Good
  <1> SUFFICES ASSUME Init PROVE Good
    OBVIOUS
  <1>0. proc_cnt \in Processors
    BY DEF Init
  <1> USE <1>0, SlotFacts DEF Init
  <1>1. count \in Nat
    BY CountsAssumption
  <1>2. Shapes
    BY <1>1 DEF Shapes, Nobody
  <1>3. procs = 1 .. 1 /\ Kids = {} /\ Tried = 0 /\ pc[Main] = "map" /\ i[Main] = 0
    BY DEF Kids, Tried, Main
  <1>4. Family
    <2>1. (failed => 1 <= Tried) /\ (~failed => 1 = Tried + 1) /\ 1 \in 1 .. MaxProcs
      BY <1>3
    <2>2. \E m \in 1 .. MaxProcs :
            procs = 1 .. m /\ (failed => m <= Tried) /\ (~failed => m = Tried + 1)
      BY <1>3, <2>1
    <2>3. parent[Main] = Nobody
      OBVIOUS
    <2> QED BY <1>3, <2>2, <2>3 DEF Family
  <1>5. Sent = {} /\ Done = {} /\ Waited = 0
    BY <1>3 DEF Sent, Done, Waited
  <1>6. Tokens
    BY <1>5, FS_EmptySet DEF Tokens
  <1>7. Cells
    BY <1>5 DEF Cells
  <1> QED BY <1>2, <1>4, <1>6, <1>7 DEF Good

\* Who can be where.
LEMMA CallerAndKids ==
  ASSUME Good
  PROVE  /\ Main \in procs /\ procs \subseteq Ids /\ Kids \subseteq Ids
         /\ IsFiniteSet(procs) /\ IsFiniteSet(Sent) /\ Cardinality(Sent) \in Nat
         /\ \A p \in procs : pc[p] \in {"fork", "wait", "reap"} => p = Main
         /\ \A p \in procs : pc[p] \in {"work", "post"} => p \in Kids
         /\ Tried \in 0 .. proc_cnt
  <1>0. proc_cnt \in Processors
    BY DEF Good, Shapes
  <1> USE <1>0, SlotFacts DEF Good
  <1>1. PICK m \in 1 .. MaxProcs : procs = 1 .. m
    BY DEF Family
  <1>2. Main \in procs /\ procs \subseteq Ids
    BY <1>1 DEF Main
  <1>3. IsFiniteSet(procs)
    BY <1>1, FS_Interval
  <1>4. Sent \subseteq procs /\ Kids \subseteq procs
    BY DEF Sent, Kids
  <1>5. IsFiniteSet(Sent) /\ Cardinality(Sent) \in Nat
    BY <1>3, <1>4, FS_Subset, FS_CardinalityType
  <1>6. \A p \in procs : p = Main \/ p \in Kids
    BY DEF Kids
  <1>7. Tried \in 0 .. proc_cnt
    <2>1. i[Main] \in 0 .. proc_cnt - 1
      BY DEF Shapes
    <2>2. i[Main] \in 0 .. proc_cnt /\ i[Main] + 1 \in 0 .. proc_cnt
      BY <2>1
    <2>3. 0 \in 0 .. proc_cnt /\ proc_cnt \in 0 .. proc_cnt
      OBVIOUS
    <2> QED BY <2>2, <2>3 DEF Tried
  <1> QED BY <1>2, <1>3, <1>4, <1>5, <1>6, <1>7 DEF Family

\* A step that moves no child.
LEMMA KidsKept ==
  ASSUME Good, UNCHANGED <<procs, buffer, proc_cnt, count>>,
         \A p \in Kids : pc'[p] = pc[p] /\ i'[p] = i[p]
  PROVE  Kids' = Kids /\ Sent' = Sent /\ Done' = Done /\ Cells'
  <1>1. Kids' = Kids
    BY DEF Kids
  <1>2. Sent' = Sent /\ Done' = Done
    BY <1>1 DEF Sent, Done
  <1>3. \A p \in Done : i'[p] = i[p]
    BY DEF Done
  <1>4. Cells'
    BY <1>2, <1>3 DEF Cells, Good, Share, work, remainder
  <1> QED BY <1>1, <1>2, <1>4

LEMMA MapKeepsGood == Good /\ Map => Good'
  <1> SUFFICES ASSUME Good, Map PROVE Good'
    OBVIOUS
  <1>0. proc_cnt \in Processors /\ proc_cnt' = proc_cnt /\ Slots' = Slots
    BY DEF Good, Shapes, Map, call, Slots
  <1> USE <1>0, SlotFacts DEF Map, GoesTo, call
  <1>1. /\ pc' \in {[pc EXCEPT ![Main] = "fork"], [pc EXCEPT ![Main] = "killed"]}
        /\ UNCHANGED <<count, procs, parent, i, forked, buffer, semaphore, failed>>
    OBVIOUS
  <1>2. pc'[Main] \in {"fork", "killed"} /\ \A p \in Kids : pc'[p] = pc[p] /\ i'[p] = i[p]
    BY <1>1, CallerAndKids DEF Good, Shapes, Kids
  <1>3. Kids' = Kids /\ Sent' = Sent /\ Cells'
    BY <1>1, <1>2, KidsKept
  <1>4. Shapes'
    BY <1>1 DEF Good, Shapes
  <1>5. Tried' = Tried /\ Waited' = Waited
    BY <1>1, <1>2 DEF Tried, Waited, Good, Family
  <1>6. Family'
    BY <1>1, <1>2, <1>3, <1>5 DEF Good, Family
  <1>7. Tokens'
    BY <1>1, <1>3, <1>5, ApartStays DEF Good, Tokens
  <1> QED BY <1>3, <1>4, <1>6, <1>7 DEF Good

LEMMA TwoEntries ==
  ASSUME NEW f \in [Ids -> Int], NEW a \in Ids, NEW b \in Ids, NEW x \in Int, NEW y \in Int
  PROVE  [f EXCEPT ![a] = x, ![b] = y] \in [Ids -> Int]
  OBVIOUS

LEMMA ForkKeepsGood == ASSUME Good, NEW p \in procs, Fork(p) PROVE Good'
  <1>0. proc_cnt \in Processors /\ proc_cnt' = proc_cnt /\ Slots' = Slots
    BY DEF Good, Shapes, Fork, call, Slots
  <1> USE <1>0, SlotFacts DEF Fork, call
  <1>1. p = Main /\ pc[Main] = "fork"
    BY CallerAndKids
  <1>2. PICK m \in 1 .. MaxProcs :
          procs = 1 .. m /\ (failed => m <= Tried) /\ (~failed => m = Tried + 1)
    BY DEF Good, Family
  <1>3. Cardinality(procs) = m
    <2>1. m \in Nat /\ m > 0
      OBVIOUS
    <2>2. Cardinality(1 .. m) = IF 1 > m THEN 0 ELSE m - 1 + 1
      BY <2>1, FS_Interval, 1 \in Int, m \in Int
    <2> QED BY <1>2, <2>1, <2>2
  <1>4. i[Main] \in Slots /\ Tried = i[Main] /\ m <= proc_cnt
    <2>1. i[Main] \in 0 .. proc_cnt - 1 /\ Tried = i[Main]
      BY <1>1 DEF Good, Shapes, Tried
    <2>2. m <= Tried + 1 /\ m \in Int
      BY <1>2, <2>1
    <2> QED BY <2>1, <2>2
  <1> DEFINE q == m + 1
  <1>5. q \in 2 .. MaxProcs /\ q \notin procs /\ q # Main
    BY <1>2, <1>4 DEF Main
  <1>6. /\ procs' = procs \cup {q} /\ parent' = [parent EXCEPT ![q] = Main]
        /\ i' = [i EXCEPT ![q] = i[Main]] /\ forked' = [forked EXCEPT ![Main] = q, ![q] = 0]
        /\ pc' = [pc EXCEPT ![Main] = "store", ![q] = "store"]
        /\ UNCHANGED <<count, buffer, semaphore, failed>>
    BY <1>1, <1>3
  <1>7. /\ procs' = 1 .. q /\ Kids' = Kids \cup {q}
        /\ \A r \in Kids : r \in Ids /\ r # q /\ r # Main
    BY <1>2, <1>5, <1>6, CallerAndKids DEF Kids
  <1> HIDE DEF q
  <1>80. /\ i[Main] \in Slots /\ q \in Ids /\ q \in Int /\ Main \in Int
         /\ i \in [Ids -> Slots] /\ forked \in [Ids -> Int] /\ parent \in [Ids -> Int]
    <2>1. Main \in Ids /\ Ids \subseteq Int /\ q \in Ids /\ i[Main] \in Slots
      BY <1>4, <1>5
    <2>2. i \in [Ids -> Slots] /\ forked \in [Ids -> Int] /\ parent \in [Ids -> Int]
      BY DEF Good, Shapes
    <2> QED BY <2>1, <2>2
  <1>8. Shapes'
    <2>1. i' \in [Ids -> Slots]
      BY <1>6, <1>80
    <2>2. forked' \in [Ids -> Int]
      <3>1. Main \in Ids /\ 0 \in Int /\ forked \in [Ids -> Int] /\ q \in Ids /\ q \in Int
        BY <1>80
      <3>2. [forked EXCEPT ![Main] = q, ![q] = 0] \in [Ids -> Int]
        BY ONLY <3>1, TwoEntries
      <3>3. forked' = [forked EXCEPT ![Main] = q, ![q] = 0]
        BY ONLY <1>6
      <3> QED BY ONLY <3>2, <3>3
    <2>3. parent' \in [Ids -> Int]
      BY <1>6, <1>80
    <2>4. pc' \in [Ids -> {"none", "map", "killed", "fork", "store", "test", "work", "post",
                           "wait", "reap", "returned", "exited", "reaped"}]
      BY <1>6 DEF Good, Shapes
    <2> QED BY <1>6, <2>1, <2>2, <2>3, <2>4 DEF Good, Shapes
  <1>9. /\ pc'[Main] = "store" /\ pc'[q] = "store" /\ i'[q] = i[Main] /\ i'[Main] = i[Main]
        /\ forked'[q] = 0 /\ forked'[Main] = q /\ parent'[Main] = parent[Main]
        /\ \A r \in Kids : pc'[r] = pc[r] /\ i'[r] = i[r] /\ forked'[r] = forked[r]
    <2>1. pc'[Main] = "store" /\ pc'[q] = "store" /\ \A r \in Kids : pc'[r] = pc[r]
      BY <1>5, <1>6, <1>7, <1>80 DEF Good, Shapes
    <2>2. i'[q] = i[Main] /\ i'[Main] = i[Main] /\ \A r \in Kids : i'[r] = i[r]
      BY <1>5, <1>6, <1>7, <1>80
    <2>3. forked'[q] = 0 /\ forked'[Main] = q /\ \A r \in Kids : forked'[r] = forked[r]
      BY <1>5, <1>6, <1>7, <1>80
    <2>4. parent'[Main] = parent[Main]
      BY <1>5, <1>6, <1>80
    <2> QED BY <2>1, <2>2, <2>3, <2>4
  <1>10. Tried' = Tried + 1 /\ Waited' = 0 /\ Waited = 0
    BY <1>1, <1>4, <1>9 DEF Tried, Waited
  <1>11. Family'
    <2>1. \E l \in 1 .. MaxProcs :
            procs' = 1 .. l /\ (failed' => l <= Tried') /\ (~failed' => l = Tried' + 1)
      <3>1. (failed' => q <= Tried') /\ (~failed' => q = Tried' + 1) /\ q \in 1 .. MaxProcs
        BY <1>2, <1>4, <1>5, <1>6, <1>10 DEF q
      <3> QED BY <1>7, <3>1
    <2>2. \A r \in Kids :
            /\ forked[r] = 0 /\ i[r] < Tried /\ (~failed => i[r] = r - 2)
            /\ pc[r] \in {"store", "test", "work", "post", "exited", "reaped"}
      BY DEF Good, Family
    <2>3. ~failed => i[Main] = q - 2
      BY <1>2, <1>4 DEF q
    <2>4. i[Main] < Tried' /\ \A r \in Kids : i[r] \in Int /\ i[r] < Tried'
      <3>1. \A r \in Kids : i[r] \in Int /\ i[r] < Tried
        BY <1>7, <1>80, <2>2
      <3>2. i[Main] \in Int /\ Tried = i[Main] /\ Tried' = Tried + 1
        BY <1>4, <1>10
      <3> QED BY <3>1, <3>2
    <2>5. \A r \in Kids' :
            /\ forked'[r] = 0 /\ i'[r] < Tried' /\ (~failed' => i'[r] = r - 2)
            /\ pc'[r] \in {"store", "test", "work", "post", "exited", "reaped"}
      <3> SUFFICES ASSUME NEW r \in Kids'
          PROVE /\ forked'[r] = 0 /\ i'[r] < Tried' /\ (~failed' => i'[r] = r - 2)
                /\ pc'[r] \in {"store", "test", "work", "post", "exited", "reaped"}
        OBVIOUS
      <3>1. CASE r = q
        BY <3>1, <1>6, <1>9, <2>3, <2>4
      <3>2. CASE r \in Kids
        <4>1. i'[r] = i[r] /\ forked'[r] = forked[r] /\ pc'[r] = pc[r] /\ failed' = failed
          BY <3>2, <1>6, <1>9
        <4>2. i[r] < Tried'
          BY <3>2, <2>4
        <4> QED BY <3>2, <4>1, <4>2, <2>2
      <3> QED BY <1>7, <3>1, <3>2
    <2>6. \A r \in Kids : i[r] # i[Main]
      BY <1>4, <1>7, <2>2 DEF Good, Shapes
    <2>7. \A r, t \in Kids' : i'[r] = i'[t] => r = t
      BY <1>7, <1>9, <2>6 DEF Good, Family
    <2>8. parent'[Main] = Nobody /\ forked'[Main] # 0
      BY <1>5, <1>9 DEF Good, Family
    <2> QED BY <1>9, <2>1, <2>5, <2>7, <2>8 DEF Family
  <1>12. Sent' = Sent /\ Done' = Done
    BY ZenonT(60), <1>7, <1>9 DEF Sent, Done
  <1>13. Tokens'
    BY <1>6, <1>10, <1>12, ApartStays DEF Good, Tokens
  <1>14. Cells'
    <2>1. \A r \in Done : i'[r] = i[r]
      BY <1>9 DEF Done
    <2> QED BY <1>6, <1>12, <2>1 DEF Good, Cells, Share, work, remainder
  <1> QED BY <1>8, <1>11, <1>13, <1>14 DEF Good

LEMMA ForkFailsKeepsGood == ASSUME Good, NEW p \in procs, ForkFails(p) PROVE Good'
  <1>0. proc_cnt \in Processors /\ proc_cnt' = proc_cnt /\ Slots' = Slots
    BY DEF Good, Shapes, ForkFails, call, Slots
  <1> USE <1>0, SlotFacts DEF ForkFails, GoesTo, call
  <1>1. p = Main /\ pc[Main] = "fork" /\ ~failed /\ failed'
    BY CallerAndKids
  <1>2. /\ forked' = [forked EXCEPT ![Main] = -1] /\ pc' = [pc EXCEPT ![Main] = "store"]
        /\ UNCHANGED <<count, procs, parent, i, buffer, semaphore>>
    BY <1>1
  <1>3. /\ pc'[Main] = "store" /\ forked'[Main] = -1
        /\ \A r \in Kids : pc'[r] = pc[r] /\ i'[r] = i[r] /\ forked'[r] = forked[r]
    BY <1>2, CallerAndKids DEF Good, Shapes, Kids
  <1>4. Kids' = Kids /\ Sent' = Sent /\ Cells'
    BY <1>2, <1>3, KidsKept
  <1>5. Shapes'
    <2>1. -1 \in Int /\ forked \in [Ids -> Int]
      BY DEF Good, Shapes
    <2>2. forked' \in [Ids -> Int]
      BY <1>2, <2>1
    <2> QED BY <1>2, <2>2 DEF Good, Shapes
  <1>6. Tried' = Tried + 1 /\ Waited' = Waited /\ Tried \in Int
    BY <1>1, <1>2, <1>3, CallerAndKids DEF Tried, Waited
  <1>7. Family'
    <2>1. \E m \in 1 .. MaxProcs : procs' = 1 .. m /\ m <= Tried'
      BY <1>1, <1>2, <1>6 DEF Good, Family
    <2>2. \A r \in Kids : i[r] \in Int /\ i[r] < Tried'
      <3>1. \A r \in Kids : i[r] \in Slots /\ i[r] < Tried
        BY CallerAndKids DEF Good, Family, Shapes
      <3> QED BY <1>6, <3>1
    <2> QED BY <1>1, <1>2, <1>3, <1>4, <2>1, <2>2 DEF Good, Family
  <1>8. Tokens'
    BY <1>2, <1>4, <1>6, ApartStays DEF Good, Tokens
  <1> QED BY <1>4, <1>5, <1>7, <1>8 DEF Good

\* A step that changes only where one process is, and no child's count of posts.
LEMMA StoreKeepsGood == ASSUME Good, NEW p \in procs, Store(p) PROVE Good'
  <1>0. proc_cnt \in Processors /\ proc_cnt' = proc_cnt /\ Slots' = Slots
    BY DEF Good, Shapes, Store, call, Slots
  <1> USE <1>0, SlotFacts DEF Store, GoesTo, call
  <1>1. /\ pc' = [pc EXCEPT ![p] = "test"] /\ pc[p] = "store" /\ p \in Ids
        /\ semaphore' \in Int /\ (Apart => semaphore' = semaphore)
        /\ UNCHANGED <<count, procs, parent, i, forked, buffer, failed>>
    <2>1. /\ pc' = [pc EXCEPT ![p] = "test"] /\ pc[p] = "store" /\ p \in Ids
          /\ semaphore' = IF i[p] = ValueSlot THEN forked[p] ELSE semaphore
          /\ UNCHANGED <<count, procs, parent, i, forked, buffer, failed>>
      BY CallerAndKids
    <2>2. forked[p] \in Int /\ semaphore \in Int /\ i[p] \in 0 .. proc_cnt - 1
      BY <2>1 DEF Good, Shapes
    <2>3. Apart => i[p] # ValueSlot
      BY <2>2 DEF Apart
    <2> QED BY <2>1, <2>2, <2>3
  <1>2. Kids' = Kids /\ \A r \in Kids : r \in Ids
    BY <1>1, CallerAndKids DEF Kids
  <1>3. pc'[p] = "test" /\ \A r \in Ids : r # p => pc'[r] = pc[r]
    BY <1>1 DEF Good, Shapes
  <1>4. Sent' = Sent /\ Done' = Done
    BY <1>1, <1>2, <1>3 DEF Sent, Done
  <1>5. Cells'
    BY <1>1, <1>4 DEF Good, Cells, Share, work, remainder
  <1>6. Shapes'
    BY <1>1 DEF Good, Shapes
  <1>7. \/ pc'[Main] = pc[Main]
        \/ pc[Main] = "store" /\ pc'[Main] = "test"
    BY <1>1, <1>3
  <1>8. Tried' = Tried /\ Waited' = Waited
    BY <1>1, <1>7 DEF Tried, Waited
  <1>9. Family'
    <2>1. \A r \in Kids : pc'[r] \in {"store", "test", "work", "post", "exited", "reaped"}
      BY <1>2, <1>3 DEF Good, Family
    <2> QED BY <1>1, <1>2, <1>7, <1>8, <2>1 DEF Good, Family
  <1>10. Tokens'
    BY <1>1, <1>4, <1>8, ApartStays DEF Good, Tokens
  <1> QED BY <1>5, <1>6, <1>9, <1>10 DEF Good

LEMMA TestKeepsGood == ASSUME Good, NEW p \in procs, Test(p), ~misled' PROVE Good'
  <1>0. proc_cnt \in Processors /\ proc_cnt' = proc_cnt /\ Slots' = Slots
    BY DEF Good, Shapes, Test, call, Slots
  <1> USE <1>0, SlotFacts DEF call
  <1> DEFINE last == i[p] = proc_cnt - 1
  <1>1. PICK pid :
        /\ pc[p] = "test" /\ p \in Ids
        /\ pc' = [pc EXCEPT ![p] = IF pid = 0 THEN "work" ELSE IF last THEN "wait" ELSE "fork"]
        /\ i' = [i EXCEPT ![p] = IF pid = 0 THEN i[p] ELSE IF last THEN 0 ELSE i[p] + 1]
        /\ misled' = (misled \/ (pid = 0) # (forked[p] = 0))
        /\ UNCHANGED <<count, procs, parent, forked, buffer, semaphore, failed>>
    BY CallerAndKids DEF Test, Good, Shapes
  <1>2. (pid = 0) = (forked[p] = 0)
    BY <1>1
  <1>3. i[p] \in Slots
    BY <1>1 DEF Good, Shapes
  <1>4. Kids' = Kids /\ \A r \in Kids : r \in Ids /\ r # Main
    BY <1>1, CallerAndKids DEF Kids
  <1>5. CASE p = Main
    <2>1. pid # 0
      BY <1>1, <1>2, <1>5 DEF Good, Family
    <2>2. /\ pc' = [pc EXCEPT ![Main] = IF last THEN "wait" ELSE "fork"]
          /\ i' = [i EXCEPT ![Main] = IF last THEN 0 ELSE i[Main] + 1]
      BY <1>1, <1>5, <2>1
    <2>3. \A r \in Kids : pc'[r] = pc[r] /\ i'[r] = i[r]
      BY <1>4, <2>2 DEF Good, Shapes
    <2>4. /\ pc'[Main] = IF last THEN "wait" ELSE "fork"
          /\ i'[Main] = IF last THEN 0 ELSE i[Main] + 1
      BY <2>2 DEF Good, Shapes
    <2>5. Sent' = Sent /\ Cells'
      BY <1>1, <2>3, KidsKept
    <2>6. (IF last THEN 0 ELSE i[Main] + 1) \in Slots
      BY <1>3, <1>5
    <2>7. Shapes'
      <3>1. i' \in [Ids -> Slots]
        BY <2>2, <2>6 DEF Good, Shapes
      <3>2. pc' \in [Ids -> {"none", "map", "killed", "fork", "store", "test", "work", "post",
                             "wait", "reap", "returned", "exited", "reaped"}]
        BY <2>2 DEF Good, Shapes
      <3> QED BY <1>1, <3>1, <3>2 DEF Good, Shapes
    <2>8. Tried' = Tried /\ Waited' = 0 /\ Waited = 0
      BY <1>1, <1>3, <1>5, <2>4 DEF Tried, Waited
    <2>9. Family'
      BY <1>1, <1>4, <2>3, <2>4, <2>8 DEF Good, Family
    <2>10. Tokens'
      BY <1>1, <2>5, <2>8, ApartStays DEF Good, Tokens
    <2> QED BY <2>5, <2>7, <2>9, <2>10 DEF Good
  <1>6. CASE p \in Kids
    <2>1. pid = 0
      BY <1>2, <1>6 DEF Good, Family
    <2>2. pc' = [pc EXCEPT ![p] = "work"] /\ i' = [i EXCEPT ![p] = i[p]]
      BY <1>1, <2>1
    <2>3. i' = i
      BY <2>2 DEF Good, Shapes
    <2>4. pc'[p] = "work" /\ \A r \in Ids : r # p => pc'[r] = pc[r]
      BY <1>1, <2>2 DEF Good, Shapes
    <2>5. Sent' = Sent /\ Done' = Done
      BY <1>1, <1>4, <2>4 DEF Sent, Done
    <2>6. Cells'
      BY <1>1, <2>3, <2>5 DEF Good, Cells, Share, work, remainder
    <2>7. Shapes'
      BY <1>1, <2>2, <2>3 DEF Good, Shapes
    <2>8. pc'[Main] = pc[Main]
      BY <1>4, <1>6, <2>4
    <2>9. Tried' = Tried /\ Waited' = Waited
      BY <2>3, <2>8 DEF Tried, Waited
    <2>10. \A r \in Kids : pc'[r] \in {"store", "test", "work", "post", "exited", "reaped"}
      BY <1>4, <2>4 DEF Good, Family
    <2>11. Family'
      BY <1>1, <1>4, <2>3, <2>8, <2>9, <2>10 DEF Good, Family
    <2>12. Tokens'
      BY <1>1, <2>5, <2>9, ApartStays DEF Good, Tokens
    <2> QED BY <2>6, <2>7, <2>11, <2>12 DEF Good
  <1> QED BY <1>5, <1>6 DEF Kids

LEMMA WorkKeepsGood == ASSUME Good, NEW p \in procs, Work(p) PROVE Good'
  <1>0. proc_cnt \in Processors /\ proc_cnt' = proc_cnt /\ Slots' = Slots
    BY DEF Good, Shapes, Work, call, Slots
  <1> USE <1>0, SlotFacts DEF GoesTo, call
  <1>1. /\ pc[p] = "work" /\ p \in Ids /\ p \in Kids
        /\ pc' = [pc EXCEPT ![p] = "post"]
        /\ buffer' = [k \in DOMAIN buffer |->
                        IF k \in Share(count, i[p]) THEN buffer[k] + 1 ELSE buffer[k]]
        /\ UNCHANGED <<count, procs, parent, i, forked, semaphore, failed>>
    BY CallerAndKids DEF Work
  <1>2. Kids' = Kids /\ \A r \in Kids : r \in Ids /\ r # Main
    BY <1>1, CallerAndKids DEF Kids
  <1>3. pc'[p] = "post" /\ \A r \in Ids : r # p => pc'[r] = pc[r]
    BY <1>1 DEF Good, Shapes
  <1>4. pc'[Main] = pc[Main]
    BY <1>1, <1>2, <1>3
  <1>5. Sent' = Sent /\ Done' = Done \cup {p} /\ p \notin Done
    BY <1>1, <1>2, <1>3 DEF Sent, Done
  <1>6. Shapes'
    <2>1. buffer' \in [0 .. count - 1 -> Nat]
      BY <1>1 DEF Good, Shapes
    <2>2. pc' \in [Ids -> {"none", "map", "killed", "fork", "store", "test", "work", "post",
                           "wait", "reap", "returned", "exited", "reaped"}]
      BY <1>1 DEF Good, Shapes
    <2> QED BY <1>1, <2>1, <2>2 DEF Good, Shapes
  <1>7. Tried' = Tried /\ Waited' = Waited
    BY <1>1, <1>4 DEF Tried, Waited
  <1>8. Family'
    <2>1. \A r \in Kids : pc'[r] \in {"store", "test", "work", "post", "exited", "reaped"}
      BY <1>2, <1>3 DEF Good, Family
    <2> QED BY <1>1, <1>2, <1>4, <1>7, <2>1 DEF Good, Family
  <1>9. Tokens'
    BY <1>1, <1>5, <1>7, ApartStays DEF Good, Tokens
  <1>10. Cells'
    <2>1. \A k \in 0 .. count - 1 :
            buffer'[k] = IF \E r \in Done' : k \in Share(count, i[r]) THEN 1 ELSE 0
      <3> SUFFICES ASSUME NEW k \in 0 .. count - 1
          PROVE buffer'[k] = IF \E r \in Done' : k \in Share(count, i[r]) THEN 1 ELSE 0
        OBVIOUS
      <3>1. buffer[k] = IF \E r \in Done : k \in Share(count, i[r]) THEN 1 ELSE 0
        BY DEF Good, Cells
      <3>2. buffer'[k] = IF k \in Share(count, i[p]) THEN buffer[k] + 1 ELSE buffer[k]
        BY <1>1 DEF Good, Shapes
      <3>3. CASE k \in Share(count, i[p])
        <4>1. \A r \in Done : k \notin Share(count, i[r])
          <5> SUFFICES ASSUME NEW r \in Done, k \in Share(count, i[r]) PROVE FALSE
            OBVIOUS
          <5>1. r \in Kids /\ r # p
            BY <1>5 DEF Done
          <5>2. i[r] # i[p]
            BY <1>1, <5>1 DEF Good, Family
          <5>3. i[r] \in Slots /\ i[p] \in Slots
            BY <1>1, <1>2, <5>1 DEF Good, Shapes
          <5>4. i[r] < i[p] \/ i[p] < i[r]
            BY <5>2, <5>3
          <5> QED BY <3>3, <5>3, <5>4, SharesAreDisjoint DEF Good, Shapes
        <4> QED BY <1>5, <3>1, <3>2, <3>3, <4>1
      <3>4. CASE k \notin Share(count, i[p])
        BY <1>5, <3>1, <3>2, <3>4
      <3> QED BY <3>3, <3>4
    <2> QED BY ZenonT(60), <1>1, <2>1 DEF Cells, Share, work, remainder
  <1> QED BY <1>6, <1>8, <1>9, <1>10 DEF Good

LEMMA PostKeepsGood == ASSUME Good, NEW p \in procs, Post(p) PROVE Good'
  <1>0. proc_cnt \in Processors /\ proc_cnt' = proc_cnt /\ Slots' = Slots
    BY DEF Good, Shapes, Post, call, Slots
  <1> USE <1>0, SlotFacts DEF GoesTo, call
  <1>1. /\ pc[p] = "post" /\ p \in Ids /\ p \in Kids
        /\ pc' = [pc EXCEPT ![p] = "exited"]
        /\ semaphore' \in {semaphore, semaphore + 1}
        /\ UNCHANGED <<count, procs, parent, i, forked, buffer, failed>>
    BY CallerAndKids DEF Post
  <1>2. Kids' = Kids /\ \A r \in Kids : r \in Ids /\ r # Main
    BY <1>1, CallerAndKids DEF Kids
  <1>3. pc'[p] = "exited" /\ \A r \in Ids : r # p => pc'[r] = pc[r]
    BY <1>1 DEF Good, Shapes
  <1>4. pc'[Main] = pc[Main]
    BY <1>1, <1>2, <1>3
  <1>5. Sent' = Sent \cup {p} /\ p \notin Sent /\ Done' = Done
    BY <1>1, <1>2, <1>3 DEF Sent, Done
  <1>6. Shapes'
    BY <1>1, SMTT(30) DEF Good, Shapes
  <1>7. Tried' = Tried /\ Waited' = Waited
    BY <1>1, <1>4 DEF Tried, Waited
  <1>8. Family'
    <2>1. \A r \in Kids : pc'[r] \in {"store", "test", "work", "post", "exited", "reaped"}
      BY <1>2, <1>3 DEF Good, Family
    <2> QED BY <1>1, <1>2, <1>4, <1>7, <2>1 DEF Good, Family
  <1>9. Tokens'
    <2>1. Cardinality(Sent \cup {p}) = Cardinality(Sent) + 1
      BY <1>5, CallerAndKids, FS_AddElement
    <2>2. Cardinality(Sent') = Cardinality(Sent) + 1
      BY <1>5, <2>1
    <2>3. Waited \in Int /\ semaphore \in Int /\ Cardinality(Sent) \in Int
      BY CallerAndKids DEF Waited, Good, Shapes
    <2>4. Apart => semaphore \in Nat /\ semaphore + Waited <= Cardinality(Sent)
      BY DEF Good, Tokens
    <2>5. Apart => semaphore' \in Nat /\ semaphore' + Waited <= Cardinality(Sent')
      BY <1>1, <2>2, <2>3, <2>4
    <2> QED BY <1>1, <1>7, <2>5, ApartStays DEF Tokens
  <1>10. Cells'
    BY <1>1, <1>5 DEF Good, Cells, Share, work, remainder
  <1> QED BY <1>6, <1>8, <1>9, <1>10 DEF Good

LEMMA WaitKeepsGood == ASSUME Good, NEW p \in procs, Wait(p) PROVE Good'
  <1>0. proc_cnt \in Processors /\ proc_cnt' = proc_cnt /\ Slots' = Slots
    BY DEF Good, Shapes, Wait, call, Slots
  <1> USE <1>0, SlotFacts DEF GoesTo, call
  <1> DEFINE last == i[Main] = proc_cnt - 1
  <1>1. p = Main /\ pc[Main] = "wait" /\ i[Main] \in Slots /\ semaphore # 0
    BY CallerAndKids DEF Wait, Good, Shapes
  <1>2. /\ pc' = [pc EXCEPT ![Main] = IF last THEN "reap" ELSE "wait"]
        /\ i' = [i EXCEPT ![Main] = IF last THEN 0 ELSE i[Main] + 1]
        /\ semaphore' = semaphore - 1
        /\ UNCHANGED <<count, procs, parent, forked, buffer, failed>>
    BY <1>1 DEF Wait, Good, Shapes
  <1>3. /\ pc'[Main] = IF last THEN "reap" ELSE "wait"
        /\ i'[Main] = IF last THEN 0 ELSE i[Main] + 1
        /\ \A r \in Kids : pc'[r] = pc[r] /\ i'[r] = i[r]
    BY <1>2, CallerAndKids DEF Good, Shapes, Kids
  <1>4. Kids' = Kids /\ Sent' = Sent /\ Cells'
    BY <1>2, <1>3, KidsKept
  <1>5. Shapes'
    <2>1. (IF last THEN 0 ELSE i[Main] + 1) \in Slots
      BY <1>1
    <2>2. semaphore' \in Int
      BY <1>1, <1>2 DEF Good, Shapes
    <2>3. i' \in [Ids -> Slots]
      BY <1>2, <2>1 DEF Good, Shapes
    <2> QED BY <1>2, <2>2, <2>3 DEF Good, Shapes
  <1>6. Tried' = Tried /\ Waited' = Waited + 1 /\ Waited \in Int
    BY <1>1, <1>3 DEF Tried, Waited
  <1>7. Family'
    BY <1>1, <1>2, <1>3, <1>4, <1>6 DEF Good, Family
  <1>8. Tokens'
    <2>1. semaphore \in Int /\ Cardinality(Sent) \in Int
      BY CallerAndKids DEF Good, Shapes
    <2>2. semaphore' + Waited' = semaphore + Waited
      BY <1>2, <1>6, <2>1
    <2>3. semaphore \in Nat => semaphore' \in Nat
      BY <1>1, <1>2
    <2> QED BY <1>2, <1>4, <2>2, <2>3, ApartStays DEF Good, Tokens
  <1> QED BY <1>4, <1>5, <1>7, <1>8 DEF Good

LEMMA ReapKeepsGood == ASSUME Good, NEW p \in procs, Reap(p) PROVE Good'
  <1>0. proc_cnt \in Processors /\ proc_cnt' = proc_cnt /\ Slots' = Slots
    BY DEF Good, Shapes, Reap, call, Slots
  <1> USE <1>0, SlotFacts DEF GoesTo, call
  <1> DEFINE last == i[Main] = proc_cnt - 1
             then == IF last THEN "returned" ELSE "reap"
  <1>1. p = Main /\ pc[Main] = "reap" /\ i[Main] \in Slots
    BY CallerAndKids DEF Reap, Good, Shapes
  <1>2. /\ i' = [i EXCEPT ![Main] = IF last THEN 0 ELSE i[Main] + 1]
        /\ UNCHANGED <<count, procs, parent, forked, buffer, semaphore, failed>>
        /\ \/ \E q \in Kids :
                pc[q] = "exited" /\ pc' = [pc EXCEPT ![Main] = then, ![q] = "reaped"]
           \/ pc' = [pc EXCEPT ![Main] = then]
    <2>1. \A pid : \A q \in Meant(Main, pid) : q \in Kids
      BY DEF Meant, Kids, Good, Family, Main, Nobody
    <2> QED BY <1>1, <2>1 DEF Reap, Good, Shapes
  <1>3. Kids' = Kids /\ \A r \in Kids : r \in Ids /\ r # Main
    BY <1>2, CallerAndKids DEF Kids
  <1>4. /\ pc' \in [Ids -> {"none", "map", "killed", "fork", "store", "test", "work", "post",
                            "wait", "reap", "returned", "exited", "reaped"}]
        /\ pc'[Main] = then
        /\ \A r \in Kids : pc'[r] = pc[r] \/ (pc[r] = "exited" /\ pc'[r] = "reaped")
    <2>1. CASE pc' = [pc EXCEPT ![Main] = then]
      BY <2>1, <1>3 DEF Good, Shapes
    <2>2. CASE \E q \in Kids :
                 pc[q] = "exited" /\ pc' = [pc EXCEPT ![Main] = then, ![q] = "reaped"]
      <3>1. PICK q \in Kids :
              pc[q] = "exited" /\ pc' = [pc EXCEPT ![Main] = then, ![q] = "reaped"]
        BY <2>2
      <3>2. q \in Ids /\ q # Main
        BY <1>3
      <3> QED BY <3>1, <3>2, <1>3 DEF Good, Shapes
    <2> QED BY <1>2, <2>1, <2>2
  <1>5. Sent' = Sent /\ Done' = Done
    BY <1>3, <1>4 DEF Sent, Done
  <1>6. i'[Main] = (IF last THEN 0 ELSE i[Main] + 1) /\ \A r \in Kids : i'[r] = i[r]
    BY <1>2, <1>3 DEF Good, Shapes
  <1>7. Cells'
    <2>1. \A r \in Done : i'[r] = i[r]
      BY <1>6 DEF Done
    <2> QED BY <1>2, <1>5, <2>1 DEF Good, Cells, Share, work, remainder
  <1>8. Shapes'
    <2>1. (IF last THEN 0 ELSE i[Main] + 1) \in Slots
      BY <1>1
    <2>2. i' \in [Ids -> Slots]
      BY <1>2, <2>1 DEF Good, Shapes
    <2> QED BY <1>2, <1>4, <2>2 DEF Good, Shapes
  <1>9. Tried' = Tried /\ Waited' = Waited
    BY <1>1, <1>4 DEF Tried, Waited
  <1>10. Family'
    <2>1. \A r \in Kids : pc'[r] \in {"store", "test", "work", "post", "exited", "reaped"}
      BY <1>4 DEF Good, Family
    <2>2. pc'[Main] \in {"reap", "returned"}
      BY <1>4
    <2> QED BY <1>1, <1>2, <1>3, <1>6, <1>9, <2>1, <2>2 DEF Good, Family
  <1>11. Tokens'
    BY <1>2, <1>5, <1>9, ApartStays DEF Good, Tokens
  <1> QED BY <1>7, <1>8, <1>10, <1>11 DEF Good

-----------------------------------------------------------------------------
LEMMA StutterKeepsGood == Good /\ UNCHANGED vars => Good'
  <1> SUFFICES ASSUME Good, UNCHANGED vars PROVE Good'
    OBVIOUS
  <1>1. /\ UNCHANGED <<call, count, procs, parent, pc, i, forked, buffer, semaphore, failed>>
        /\ proc_cnt' = proc_cnt /\ Slots' = Slots
    BY DEF vars, machine, call, Slots
  <1>2. Kids' = Kids /\ Sent' = Sent /\ Cells'
    BY <1>1, KidsKept
  <1>3. Tried' = Tried /\ Waited' = Waited
    BY <1>1 DEF Tried, Waited
  <1>4. Shapes'
    BY <1>1 DEF Good, Shapes
  <1>5. Family'
    BY <1>1, <1>2, <1>3 DEF Good, Family
  <1>6. Tokens'
    BY <1>1, <1>2, <1>3, ApartStays DEF Good, Tokens
  <1> QED BY <1>2, <1>4, <1>5, <1>6 DEF Good

LEMMA MapInvInit == Init => MapInv
  <1>1. Init => build \in Builds /\ ~misled
    BY Zenon DEF Init
  <1> QED BY <1>1, GoodInit, BuildsAssumption DEF MapInv

LEMMA MapInvInductive == MapInv /\ [Next]_vars => MapInv'
  <1> SUFFICES ASSUME MapInv, [Next]_vars PROVE MapInv'
    OBVIOUS
  <1> USE DEF Next, Map, Process, Fork, ForkFails, Store, Work, Post, Wait, Reap, vars,
              machine, call
  <1>1. (misled => misled') /\ build' = build
    <2>1. (misled' = misled /\ build' = build) \/ (\E p \in procs : Test(p))
      OBVIOUS
    <2>2. \A p \in procs : Test(p) => (misled => misled') /\ build' = build
      BY DEF Test
    <2> QED BY <2>1, <2>2
  <1>2. ~misled' => Good'
    <2> SUFFICES ASSUME ~misled' PROVE Good'
      OBVIOUS
    <2>1. Good
      BY <1>1 DEF MapInv
    <2>2. CASE Map
      BY <2>1, <2>2, MapKeepsGood
    <2>3. CASE \E p \in procs : Process(p)
      <3>1. PICK p \in procs : Process(p)
        BY <2>3
      <3> QED BY <2>1, <3>1, ForkKeepsGood, ForkFailsKeepsGood, StoreKeepsGood, TestKeepsGood,
                 WorkKeepsGood, PostKeepsGood, WaitKeepsGood, ReapKeepsGood DEF Process
    <2>4. CASE UNCHANGED vars
      BY <2>1, <2>4, StutterKeepsGood
    <2> QED BY <2>2, <2>3, <2>4 DEF Next
  <1>3. misled' => build' = "reloads"
    <2>1. CASE misled
      BY <1>1, <2>1 DEF MapInv
    <2>2. CASE ~misled /\ misled'
      <3>1. \E p \in procs : Test(p)
        BY <2>2
      <3>2. build # "keeps"
        BY <2>2, <3>1 DEF Test
      <3>3. build \in {"keeps", "reloads"}
        BY DEF MapInv
      <3> QED BY <1>1, <3>2, <3>3
    <2> QED BY <2>1, <2>2
  <1> QED BY <1>1, <1>2, <1>3 DEF MapInv

\* When the caller has returned without having been misled, it has taken one post
\* from each of proc_cnt children, and these have computed everything.
LEMMA MapInvSuffices == MapInv => MapIsComplete
  <1> SUFFICES ASSUME MapInv, pc[Main] = "returned", ~misled, Apart
      PROVE /\ \A k \in DOMAIN buffer : buffer[k] = 1
            /\ \A p \in Children : pc[p] \in {"exited", "reaped"}
    BY DEF MapInv, MapIsComplete
  <1>0. proc_cnt \in Processors
    BY DEF MapInv, Good, Shapes
  <1> USE <1>0, SlotFacts DEF call
  <1>1. Good
    BY DEF MapInv
  <1>2. PICK m \in 1 .. MaxProcs :
          procs = 1 .. m /\ (failed => m <= Tried) /\ (~failed => m = Tried + 1)
    BY <1>1 DEF Good, Family
  <1>3. Tried = proc_cnt /\ Waited = proc_cnt
    BY DEF Tried, Waited
  <1>4. Kids = 2 .. m
    BY <1>2 DEF Kids, Main
  <1>5. IsFiniteSet(Kids) /\ Cardinality(Kids) = m - 1
    <2>1. m \in Int /\ 2 \in Int /\ m >= 1
      OBVIOUS
    <2>2. /\ IsFiniteSet(2 .. m)
          /\ Cardinality(2 .. m) = IF 2 > m THEN 0 ELSE m - 2 + 1
      BY <2>1, FS_Interval
    <2> QED BY <1>4, <2>1, <2>2
  <1>6. Sent \subseteq Kids /\ Cardinality(Sent) \in Nat /\ proc_cnt <= Cardinality(Sent)
    <2>1. semaphore \in Nat /\ semaphore + proc_cnt <= Cardinality(Sent)
      BY <1>1, <1>3 DEF Good, Tokens
    <2>2. Sent \subseteq Kids /\ Cardinality(Sent) \in Nat
      BY <1>1, CallerAndKids DEF Sent
    <2> QED BY <2>1, <2>2
  <1>7. Cardinality(Sent) <= m - 1 /\ (Cardinality(Sent) = m - 1 => Sent = Kids)
    BY <1>5, <1>6, FS_Subset
  <1>8. m = proc_cnt + 1 /\ ~failed /\ Sent = Kids
    BY <1>2, <1>3, <1>6, <1>7
  <1>9. \A p \in Children : pc[p] \in {"exited", "reaped"}
    <2>1. Children \subseteq Kids
      BY <1>1 DEF Children, Kids, Good, Family, Main, Nobody
    <2> QED BY <1>8, <2>1 DEF Sent
  <1>10. ASSUME NEW k \in DOMAIN buffer PROVE buffer[k] = 1
    <2>1. count \in Nat /\ k \in 0 .. count - 1
      BY <1>1 DEF Good, Shapes
    <2>2. PICK s \in Slots : k \in Share(count, s)
      BY <2>1, EveryCellHasAShare
    <2>3. s + 2 \in Kids
      BY <1>4, <1>8
    <2>4. i[s + 2] = s
      BY <1>1, <1>8, <2>3 DEF Good, Family
    <2>5. s + 2 \in Done
      BY <1>8, <2>3 DEF Sent, Done
    <2>6. \E p \in Done : k \in Share(count, i[p])
      BY <2>2, <2>4, <2>5
    <2> QED BY <1>1, <2>1, <2>6 DEF Good, Cells
  <1> QED BY <1>9, <1>10

\* For every number of processors and every length: unless a process took itself for
\* another, or the pids reach into the semaphore (more than 14 processors for every
\* cell and one more), the whole array has been computed, once, when pmap_process
\* returns, and a build that keeps the result of fork is never misled
\* (inf20-1.c:36-66).
THEOREM MapReturnsTheWholeArray == Spec => []MapIsComplete
  <1>1. MapInv => MapIsComplete
    BY MapInvSuffices
  <1> QED BY <1>1, MapInvInit, MapInvInductive, PTL DEF Spec

-----------------------------------------------------------------------------
(***************************************************************************)
(* The types, which hold of misled processes too.                          *)
(***************************************************************************)
MapTypes ==
  /\ TypeOK
  /\ pc \in [Ids -> {"none", "map", "killed", "fork", "store", "test", "work", "post",
                     "wait", "reap", "returned", "exited", "reaped"}]
  /\ \E m \in 1 .. MaxProcs : procs = 1 .. m

LEMMA MapTypesBegin == Init => MapTypes
  <1> SUFFICES ASSUME Init PROVE MapTypes
    OBVIOUS
  <1>1. proc_cnt \in Processors
    BY DEF Init
  <1> USE <1>1, SlotFacts DEF Init
  <1>2. /\ proc_cnt \in Processors /\ count \in Counts /\ build \in Builds
        /\ procs \subseteq Ids /\ semaphore \in Int
    OBVIOUS
  <1>3. private \in BOOLEAN /\ misled \in BOOLEAN /\ failed \in BOOLEAN
    BY Zenon
  <1>4. /\ parent \in [Ids -> Ids \cup {Nobody}] /\ i \in [Ids -> Slots]
        /\ forked \in [Ids -> Ids \cup {0, -1}] /\ pids \in [Slots -> Ids \cup {0, -1}]
    OBVIOUS
  <1>5. TypeOK
    BY <1>2, <1>3, <1>4 DEF TypeOK
  <1>6. procs = 1 .. 1 /\ 1 \in 1 .. MaxProcs
    BY DEF Main
  <1> QED BY <1>5, <1>6 DEF MapTypes

LEMMA MapTypesStay == ASSUME MapTypes, Next \/ UNCHANGED vars PROVE MapTypes'
  <1>1. proc_cnt \in Processors
    BY DEF MapTypes, TypeOK
  <1> USE <1>1, SlotFacts
  <1>2. /\ proc_cnt \in Processors /\ count \in Counts /\ build \in Builds
        /\ parent \in [Ids -> Ids \cup {Nobody}] /\ i \in [Ids -> Slots]
        /\ forked \in [Ids -> Ids \cup {0, -1}] /\ pids \in [Slots -> Ids \cup {0, -1}]
        /\ semaphore \in Int
        /\ pc \in [Ids -> {"none", "map", "killed", "fork", "store", "test", "work", "post",
                           "wait", "reap", "returned", "exited", "reaped"}]
    BY DEF MapTypes, TypeOK
  <1>3. private \in BOOLEAN /\ misled \in BOOLEAN /\ failed \in BOOLEAN
    BY Zenon DEF MapTypes, TypeOK
  <1>4. PICK m \in 1 .. MaxProcs : procs = 1 .. m
    BY DEF MapTypes
  <1>5. m \in Nat /\ procs \subseteq Ids /\ Cardinality(procs) = m
    <2>1. Cardinality(1 .. m) = m
      BY FS_Interval
    <2> QED BY <1>4, <2>1
  <1>6. CASE Map \/ UNCHANGED vars
    <2>1. UNCHANGED <<proc_cnt, count, build, procs, parent, i, forked, pids, semaphore, misled,
                      failed>>
      BY <1>6 DEF Map, vars, call, machine
    <2>2. private' = private \/ private' = TRUE
      BY <1>6 DEF Map, vars, machine
    <2>3. private' \in BOOLEAN /\ misled' \in BOOLEAN /\ failed' \in BOOLEAN
      BY <1>3, <2>1, <2>2, Zenon
    <2>4. pc' \in [Ids -> {"none", "map", "killed", "fork", "store", "test", "work", "post",
                           "wait", "reap", "returned", "exited", "reaped"}]
      BY <1>2, <1>6 DEF Map, GoesTo, vars, machine
    <2>5. Slots' = Slots
      BY <2>1 DEF Slots
    <2>6. TypeOK'
      BY <1>2, <1>5, <2>1, <2>3, <2>5 DEF TypeOK
    <2> QED BY <1>4, <2>1, <2>4, <2>6 DEF MapTypes
  <1>7. CASE \E p \in procs : Process(p)
    <2>1. PICK p \in procs : Process(p)
      BY <1>7
    <2>2. p \in Ids /\ proc_cnt' = proc_cnt /\ count' = count /\ build' = build /\ Slots' = Slots
          /\ (private' = private) /\ i[p] \in Slots
      BY <1>2, <1>5, <2>1
         DEF Process, Fork, ForkFails, Store, Test, Work, Post, Wait, Reap, call, Slots
    <2>3. misled' \in BOOLEAN /\ failed' \in BOOLEAN
      <3>1. (failed' = failed \/ failed' = TRUE)
            /\ (misled' = misled \/ \E b \in BOOLEAN : misled' = (misled \/ b))
        <4>1. \A x, y : ((x = 0) # (y = 0)) \in BOOLEAN
          BY Zenon
        <4> QED BY <2>1, <4>1, Zenon
                DEF Process, Fork, ForkFails, Store, Test, Work, Post, Wait, Reap
      <3> QED BY <1>3, <3>1, Zenon
    <2>4. semaphore' \in Int
      <3>1. forked[p] \in Int
        BY <1>2, <2>2
      <3> QED BY <1>2, <2>1, <3>1
              DEF Process, Fork, ForkFails, Store, Test, Work, Post, Wait, Reap
    <2>5. /\ procs' \subseteq Ids /\ \E n \in 1 .. MaxProcs : procs' = 1 .. n
          /\ parent' \in [Ids -> Ids \cup {Nobody}] /\ forked' \in [Ids -> Ids \cup {0, -1}]
      <3>1. CASE Fork(p)
        <4>1. m + 1 \in Ids /\ procs' = procs \cup {m + 1}
              /\ parent' = [parent EXCEPT ![m + 1] = p]
              /\ forked' = [forked EXCEPT ![p] = m + 1, ![m + 1] = 0]
          BY <1>4, <1>5, <3>1 DEF Fork
        <4>2. procs' = 1 .. m + 1 /\ m + 1 \in 1 .. MaxProcs
          BY <1>4, <1>5, <4>1
        <4> QED BY <1>2, <1>5, <2>2, <4>1, <4>2
      <3>2. CASE ForkFails(p)
        BY <1>2, <1>4, <1>5, <3>2 DEF ForkFails
      <3>3. CASE ~Fork(p) /\ ~ForkFails(p)
        BY <1>2, <1>4, <1>5, <2>1, <3>3 DEF Process, Store, Test, Work, Post, Wait, Reap
      <3> QED BY <3>1, <3>2, <3>3
    <2>6. i' \in [Ids -> Slots]
      <3>1. i[p] # proc_cnt - 1 => i[p] + 1 \in Slots
        BY <2>2
      <3>2. CASE Fork(p)
        BY <1>2, <1>5, <2>2, <3>2 DEF Fork
      <3>3. CASE ~Fork(p)
        BY <1>2, <2>1, <2>2, <3>1, <3>3
           DEF Process, ForkFails, Store, Test, Work, Post, Wait, Reap
      <3> QED BY <3>2, <3>3
    <2>7. pids' \in [Slots -> Ids \cup {0, -1}]
      BY <1>2, <2>1, <2>2 DEF Process, Fork, ForkFails, Store, Test, Work, Post, Wait, Reap
    <2>8. pc' \in [Ids -> {"none", "map", "killed", "fork", "store", "test", "work", "post",
                           "wait", "reap", "returned", "exited", "reaped"}]
      <3>1. CASE Fork(p) \/ ForkFails(p) \/ Store(p) \/ Test(p) \/ Work(p) \/ Post(p)
        BY <1>2, <3>1 DEF Fork, ForkFails, Store, Test, Work, Post, GoesTo
      <3>2. CASE Wait(p) \/ Reap(p)
        BY <1>2, <3>2 DEF Wait, Reap, GoesTo
      <3> QED BY <2>1, <3>1, <3>2 DEF Process
    <2>9. TypeOK'
      BY <1>2, <2>2, <2>3, <2>4, <2>5, <2>6, <2>7, <1>3 DEF TypeOK
    <2> QED BY <2>5, <2>8, <2>9 DEF MapTypes
  <1> QED BY <1>6, <1>7 DEF Next

LEMMA MapIsRight == MapTypes /\ MapInv => Inv
  <1> SUFFICES ASSUME MapTypes, MapInv PROVE Inv
    OBVIOUS
  <1>1. TypeOK /\ MapIsComplete
    BY MapInvSuffices DEF MapTypes
  <1>2. ASSUME ~misled, NEW k \in DOMAIN buffer PROVE buffer[k] <= 1
    <2>1. buffer \in [0 .. count - 1 -> Nat] /\ Cells
      BY <1>2 DEF MapInv, Good, Shapes
    <2>2. buffer[k] \in {0, 1}
      BY <2>1 DEF Cells
    <2> QED BY <2>2
  <1> QED BY <1>1, <1>2 DEF Inv

-----------------------------------------------------------------------------
(***************************************************************************)
(* inf18-2.c: once the first thread has begun, one number is on its way.   *)
(***************************************************************************)
GameTypes ==
  /\ start_num \in Int /\ started \in 0 .. 2 /\ stopped \in 0 .. started
  /\ player \in [1 .. 2 -> {"first", "read", "done"}] /\ player[2] # "first"
  /\ sent \in [1 .. 2 -> Seq(Int)] /\ printed \in Seq(Int)

\* m is what thread t will read next.
OnItsWay(t, m) ==
  /\ sent[t] = <<m>> /\ sent[3 - t] = <<>>
  /\ \/ m = printed[Len(printed)]
     \/ m = 101 /\ G!Over(printed[Len(printed)])
  /\ ~G!Over(m) => t = 2 - ((Len(printed) + 1) % 2)

OneNumber ==
  IF player[1] = "first"
  THEN printed = <<>> /\ \A t \in 1 .. 2 : sent[t] = <<>>
  ELSE printed # <<>> /\ \E t \in 1 .. 2 : \E m \in Int : OnItsWay(t, m)

Alternates ==
  \A k \in DOMAIN printed :
    /\ printed[k] = (IF k = 1 THEN start_num ELSE printed[k - 1]) + G!mode[2 - (k % 2)]
    /\ k < Len(printed) => ~G!Over(printed[k])

GameInv == GameTypes /\ OneNumber /\ Alternates

LEMMA Modes ==
  /\ G!mode[1] = -3 /\ G!mode[2] = 5 /\ G!mode[1] \in Int /\ G!mode[2] \in Int
  /\ G!Positions = 1 .. 2 /\ G!Stop = 101
  /\ \A t \in 1 .. 2 : G!Other(t) = 3 - t /\ 3 - t \in 1 .. 2 /\ 3 - t # t
  BY DEF G!mode, G!DECREASE, G!INCREASE, G!Positions, G!Stop, G!Other

LEMMA TwoSides ==
  ASSUME NEW X, NEW f \in [1 .. 2 -> X], NEW t \in 1 .. 2, NEW a \in X, NEW b \in X
  PROVE  LET g == [f EXCEPT ![t] = a, ![3 - t] = b] IN
           g \in [1 .. 2 -> X] /\ g[t] = a /\ g[3 - t] = b
  <1>1. CASE t = 1
    BY <1>1
  <1>2. CASE t = 2
    BY <1>2
  <1> QED BY <1>1, <1>2

LEMMA PairType ==
  ASSUME NEW X, NEW a \in X, NEW b \in X
  PROVE  <<a, b>> \in [1 .. 2 -> X]
  OBVIOUS

LEMMA GameBegins == GameOver \/ G!Init => GameInv
  <1> SUFFICES ASSUME GameOver \/ G!Init PROVE GameInv
    OBVIOUS
  <1> USE Modes
  <1>1. CASE G!Init
    <2>3. <<"first", "read">> \in [1 .. 2 -> {"first", "read", "done"}]
      OBVIOUS
    <2>4. <<<<>>, <<>>>> \in [1 .. 2 -> Seq(Int)] /\ <<>> \in Seq(Int)
      <3>1. <<>> \in Seq(Int)
        OBVIOUS
      <3> QED BY <3>1, PairType
    <2>5. player[2] # "first"
      BY <1>1 DEF G!Init
    <2>1. GameTypes
      BY <1>1, <2>3, <2>4, <2>5, ProgramsAssumption DEF G!Init, GameTypes
    <2>2. OneNumber /\ Alternates
      BY <1>1 DEF G!Init, OneNumber, Alternates
    <2> QED BY <2>1, <2>2 DEF GameInv
  <1>2. CASE GameOver
    <2> USE <1>2 DEF GameOver
    <2>6. <<"done", "done">> \in [1 .. 2 -> {"first", "read", "done"}]
      OBVIOUS
    <2>7. <<<<>>, <<101>>>> \in [1 .. 2 -> Seq(Int)] /\ <<0>> \in Seq(Int)
      <3>1. <<>> \in Seq(Int) /\ <<101>> \in Seq(Int) /\ <<0>> \in Seq(Int)
        OBVIOUS
      <3> QED BY <3>1, PairType
    <2>8. player[2] # "first"
      OBVIOUS
    <2>1. GameTypes
      BY <2>6, <2>7, <2>8 DEF GameTypes
    <2>2. Len(printed) = 1 /\ printed[1] = 0 /\ DOMAIN printed = {1} /\ 1 % 2 = 1 /\ 2 % 2 = 0
      OBVIOUS
    <2>3. OnItsWay(2, 101) /\ 2 \in 1 .. 2
      BY <2>2 DEF OnItsWay, G!Over
    <2>4. OneNumber
      BY <2>3 DEF OneNumber
    <2>5. Alternates
      BY <2>2 DEF Alternates
    <2> QED BY <2>1, <2>4, <2>5 DEF GameInv
  <1> QED BY <1>1, <1>2

LEMMA FirstKeepsGame == ASSUME GameInv, G!First PROVE GameInv'
  <1> USE Modes DEF GameInv
  <1>0. PICK n \in Int : n = start_num + G!mode[1]
    BY DEF GameTypes
  <1>1. /\ printed' = <<n>> /\ sent' = [sent EXCEPT ![2] = <<n>>] /\ n \in Int
        /\ player' = [player EXCEPT ![1] = "read"] /\ player[1] = "first"
        /\ UNCHANGED <<start_num, started, stopped>>
        /\ sent[1] = <<>> /\ sent[2] = <<>>
    BY <1>0 DEF G!First, G!Runs, GameTypes, OneNumber
  <1>2. GameTypes'
    BY <1>1 DEF GameTypes
  <1>3. sent'[2] = <<n>> /\ sent'[1] = <<>> /\ player'[1] = "read"
    BY <1>1 DEF GameTypes
  <1>4. Len(printed') = 1 /\ printed'[1] = n /\ DOMAIN printed' = {1}
    BY <1>1
  <1>5. OnItsWay(2, n)'
    <2>1. 3 - 2 = 1 /\ 2 - ((1 + 1) % 2) = 2
      OBVIOUS
    <2> QED BY <1>3, <1>4, <2>1 DEF OnItsWay
  <1>6. OneNumber'
    <2>1. \E t \in 1 .. 2 : \E m \in Int : OnItsWay(t, m)'
      BY <1>5
    <2> QED BY <1>1, <1>3, <2>1 DEF OneNumber
  <1>7. Alternates'
    <2>1. 2 - (1 % 2) = 1
      OBVIOUS
    <2> QED BY <1>0, <1>1, <1>4, <2>1 DEF Alternates
  <1> QED BY <1>2, <1>6, <1>7

LEMMA ReadKeepsGame == ASSUME GameInv, NEW t \in 1 .. 2, G!Read(t) PROVE GameInv'
  <1> USE Modes DEF GameInv
  <1>1. /\ player[t] = "read" /\ sent[t] # <<>>
        /\ UNCHANGED <<start_num, started, stopped>>
    BY DEF G!Read, G!Runs
  <1>2. player[1] # "first" /\ printed # <<>>
    BY <1>1 DEF OneNumber, GameTypes
  <1>3. PICK m \in Int : OnItsWay(t, m)
    BY <1>1, <1>2 DEF OneNumber, OnItsWay
  <1> DEFINE L == Len(printed) n == m + G!mode[t]
  <1>4. L \in Nat \ {0} /\ printed[L] \in Int /\ DOMAIN printed = 1 .. L /\ n \in Int
    BY <1>2 DEF GameTypes
  <1>5. Head(sent[t]) = m /\ Tail(sent[t]) = <<>> /\ sent[3 - t] = <<>> /\ 3 - (3 - t) = t
    BY <1>3 DEF OnItsWay
  <1>7. CASE G!Over(m)
    <2>1. /\ sent' = [sent EXCEPT ![t] = Tail(sent[t]), ![3 - t] = Append(sent[3 - t], 101)]
          /\ player' = [player EXCEPT ![t] = "done"] /\ printed' = printed
      BY <1>5, <1>7 DEF G!Read, GameTypes
    <2>2. sent'[3 - t] = <<101>> /\ sent'[t] = <<>> /\ sent' \in [1 .. 2 -> Seq(Int)]
      <3>1. <<>> \in Seq(Int) /\ <<101>> \in Seq(Int) /\ Append(<<>>, 101) = <<101>>
        OBVIOUS
      <3>2. sent' = [sent EXCEPT ![t] = <<>>, ![3 - t] = <<101>>]
        BY <1>5, <2>1, <3>1
      <3> QED BY <3>1, <3>2, TwoSides DEF GameTypes
    <2>3. G!Over(printed[L])
      BY <1>3, <1>7 DEF OnItsWay
    <2>4. G!Over(101)
      BY DEF G!Over
    <2>5. OnItsWay(3 - t, 101)'
      BY <1>5, <2>1, <2>2, <2>3, <2>4 DEF OnItsWay
    <2>6. player'[1] # "first" /\ player'[2] # "first"
      BY <1>2, <2>1 DEF GameTypes
    <2>7. GameTypes'
      BY <1>1, <2>1, <2>2, <2>6 DEF GameTypes
    <2>8. OneNumber'
      BY <1>2, <2>1, <2>5, <2>6 DEF OneNumber
    <2>9. Alternates'
      BY <1>1, <2>1 DEF Alternates
    <2> QED BY <2>7, <2>8, <2>9
  <1>8. CASE ~G!Over(m)
    <2>1. /\ sent' = [sent EXCEPT ![t] = Tail(sent[t]), ![3 - t] = Append(sent[3 - t], n)]
          /\ player' = [player EXCEPT ![t] = IF G!Over(n) THEN "done" ELSE "read"]
          /\ printed' = Append(printed, n)
      BY <1>5, <1>8 DEF G!Read, GameTypes
    <2>2. sent'[3 - t] = <<n>> /\ sent'[t] = <<>> /\ sent' \in [1 .. 2 -> Seq(Int)]
      <3>1. <<>> \in Seq(Int) /\ <<n>> \in Seq(Int) /\ Append(<<>>, n) = <<n>>
        BY <1>4
      <3>2. sent' = [sent EXCEPT ![t] = <<>>, ![3 - t] = <<n>>]
        BY <1>5, <2>1, <3>1
      <3> QED BY <3>1, <3>2, TwoSides DEF GameTypes
    <2>3. m = printed[L] /\ t = 2 - ((L + 1) % 2)
      BY <1>3, <1>8 DEF OnItsWay, G!Over
    <2>4. /\ Len(printed') = L + 1 /\ printed'[L + 1] = n /\ DOMAIN printed' = 1 .. L + 1
          /\ \A k \in 1 .. L : printed'[k] = printed[k]
          /\ printed' \in Seq(Int) /\ printed' # <<>>
      <3>1. printed \in Seq(Int)
        BY DEF GameTypes
      <3> QED BY <1>4, <2>1, <3>1, AppendProperties
    <2>5. 3 - t = 2 - (((L + 1) + 1) % 2)
      BY <1>4, <2>3
    <2>6. OnItsWay(3 - t, n)'
      BY <1>5, <2>2, <2>4, <2>5 DEF OnItsWay
    <2>7. player'[1] # "first" /\ player'[2] # "first" /\ player' \in [1 .. 2 -> {"first", "read", "done"}]
      BY <1>2, <2>1 DEF GameTypes
    <2>8. GameTypes'
      BY <1>1, <2>2, <2>4, <2>7 DEF GameTypes
    <2>9. OneNumber'
      BY <1>4, <2>4, <2>6, <2>7 DEF OneNumber
    <2>10. Alternates'
      <3> SUFFICES ASSUME NEW k \in 1 .. L + 1
          PROVE /\ printed'[k] = (IF k = 1 THEN start_num ELSE printed'[k - 1])
                                   + G!mode[2 - (k % 2)]
                /\ k < L + 1 => ~G!Over(printed'[k])
        BY <1>1, <2>4 DEF Alternates
      <3>1. CASE k = L + 1
        <4>1. k # 1 /\ k - 1 = L /\ L \in 1 .. L
          BY <1>4, <3>1
        <4>2. printed'[k] = n /\ printed'[k - 1] = m
          BY <2>3, <2>4, <3>1, <4>1
        <4>3. G!mode[t] = G!mode[2 - (k % 2)]
          BY <2>3, <3>1
        <4> QED BY <1>4, <3>1, <4>1, <4>2, <4>3
      <3>2. CASE k \in 1 .. L
        <4>1. printed'[k] = printed[k] /\ (k # 1 => printed'[k - 1] = printed[k - 1])
          <5>1. k # 1 => k - 1 \in 1 .. L
            BY <1>4, <3>2
          <5> QED BY <2>4, <3>2, <5>1
        <4>2. printed[k] = (IF k = 1 THEN start_num ELSE printed[k - 1]) + G!mode[2 - (k % 2)]
          BY <1>4, <3>2 DEF Alternates
        <4>3. ~G!Over(printed[k])
          BY <1>4, <1>8, <2>3, <3>2 DEF Alternates
        <4> QED BY <4>1, <4>2, <4>3
      <3> QED BY <1>4, <3>1, <3>2
    <2> QED BY <2>8, <2>9, <2>10
  <1> QED BY <1>7, <1>8

LEMMA GameGoesOn == GameInv /\ (G!Next \/ UNCHANGED gameVars) => GameInv'
  <1> SUFFICES ASSUME GameInv, G!Next \/ UNCHANGED gameVars PROVE GameInv'
    OBVIOUS
  <1>1. CASE G!First
    BY <1>1, FirstKeepsGame
  <1>2. CASE \E t \in G!Positions : G!Read(t)
    BY <1>2, Modes, ReadKeepsGame
  <1>3. CASE G!Create \/ G!Join \/ UNCHANGED gameVars
    <2>1. UNCHANGED <<start_num, player, sent, printed>>
      BY <1>3 DEF G!Create, G!Join, gameVars
    <2>2. started' \in 0 .. 2 /\ stopped' \in 0 .. started'
      BY <1>3 DEF G!Create, G!Join, gameVars, GameInv, GameTypes
    <2>3. GameTypes'
      BY <2>1, <2>2 DEF GameInv, GameTypes
    <2>4. OneNumber' /\ Alternates'
      BY <2>1 DEF GameInv, OneNumber, Alternates, OnItsWay
    <2> QED BY <2>3, <2>4 DEF GameInv
  <1> QED BY <1>1, <1>2, <1>3 DEF G!Next

LEMMA GameIsRight == GameInv => G!Inv
  <1> SUFFICES ASSUME GameInv PROVE G!Inv
    OBVIOUS
  <1>1. player \in Seq({"first", "read", "done"})
    <2>1. player \in [1 .. 2 -> {"first", "read", "done"}] /\ 2 \in Nat
      BY DEF GameInv, GameTypes
    <2> QED BY <2>1, SeqDef
  <1>2. G!TypeOK
    BY <1>1 DEF GameInv, GameTypes, G!TypeOK
  <1> QED BY <1>2 DEF GameInv, Alternates, G!Inv

-----------------------------------------------------------------------------
(***************************************************************************)
(* inf18-1.c and inf18-0.c: what the threads owe to the sum, and the       *)
(* numbers of the chain of threads.                                        *)
(***************************************************************************)
Total(s) == FoldSeq(+, 0, s)

InputTypes ==
  /\ program \in {"inf18_0", "inf18_1"}
  /\ given \in Seq(Int) /\ Len(given) < Most /\ input \in Seq(Int)
  /\ created \in 0 .. Most /\ joined \in 0 .. T!Threads
  /\ current \in [T!Ids -> Int] /\ sum \in [T!Ids -> Int]
  /\ state \in [T!Ids -> {"add", "scan", "wait", "ended", "endless"}]
  /\ full_sum \in Int /\ output \in Seq(Int)

\* What a thread still has to give: its sum, until main has joined it, and the
\* number it has read and not added yet.
Due == [t \in T!Ids |->
          (IF t > joined THEN sum[t] ELSE 0) + (IF state[t] = "add" THEN current[t] ELSE 0)]

Adding ==
  /\ created <= threads_count /\ (joined > 0 => created = threads_count)
  /\ \A t \in T!Ids : /\ state[t] # "wait"
                      /\ t > created => state[t] = "add" /\ sum[t] = 0 /\ current[t] = 0
                      /\ state[t] = "ended" => input = <<>>
                      /\ t <= joined => state[t] = "ended"
  /\ output = IF joined < threads_count THEN <<>> ELSE <<full_sum>>

NothingIsLost ==
  full_sum + SumFunctionOnSet(Due, T!Ids) + Total(input) = Total(given)

\* Of inf18-0.c: every number read has its thread; the threads that have ended,
\* from the last one back, have printed theirs.
Counted == Len(input) <= Len(given) /\ created = Len(given) - Len(input) + 1

Left == \A k \in 1 .. Len(input) : input[k] = given[created - 1 + k]

Taken == \A k \in 1 .. created - 1 : current[k] = given[k]

States ==
  /\ \A k \in 1 .. created - 1 : state[k] \in {"wait", "ended"}
  /\ state[created] \in {"scan", "ended", "endless"}
  /\ \A t \in T!Ids : t > created => state[t] = "scan"
  /\ state[created] = "ended" => input = <<>>
  /\ joined = 1 => state[1] = "ended"

EndedHavePrinted ==
  /\ Len(output) <= created - 1
  /\ Len(output) > 0 => state[created] = "ended"
  /\ \A k \in 1 .. created - 1 : state[k] = "ended" <=> k >= created - Len(output)

Backwards == \A k \in 1 .. Len(output) : output[k] = given[created - k]

Chaining == Counted /\ Left /\ Taken /\ States /\ EndedHavePrinted /\ Backwards

InputInv ==
  /\ InputTypes
  /\ program = "inf18_1" => Adding /\ NothingIsLost
  /\ program = "inf18_0" => Chaining

LEMMA InputNames ==
  /\ T!Ids = 1 .. Most /\ IsFiniteSet(T!Ids) /\ T!Word = -1
  /\ Most \in Nat /\ Most > 0 /\ threads_count \in Nat
  /\ threads_count > 0 /\ threads_count <= Most
  /\ \A s \in Inputs : s \in Seq(Int) /\ Len(s) < Most
  <1>1. Most \in Nat \ {0} /\ threads_count \in 1 .. Most
        /\ \A s \in Inputs : s \in Seq(Int) /\ Len(s) < Most
    BY ProgramsAssumption
  <1>2. IsFiniteSet(1 .. Most)
    BY <1>1, FS_Interval
  <1> QED BY <1>1, <1>2 DEF T!Ids, T!Word

LEMMA DueType == ASSUME InputTypes PROVE Due \in [T!Ids -> Int]
  <1>1. Most \in Nat /\ T!Ids = 1 .. Most /\ joined \in Int
    BY InputNames DEF InputTypes, T!Threads
  <1> QED BY <1>1 DEF InputTypes, Due

\* The sum of an empty input, and of an input one number shorter.
LEMMA SumOfInput ==
  ASSUME NEW s \in Seq(Int)
  PROVE  /\ Total(s) \in Int
         /\ s = <<>> => Total(s) = 0
         /\ s # <<>> => Total(s) = Head(s) + Total(Tail(s))
  <1>1. DOMAIN s = 1 .. Len(s) /\ Len(s) \in Nat /\ \A k \in DOMAIN s : s[k] \in Int
    BY LenProperties, ElementOfSeq
  <1>2. IsFiniteSet(DOMAIN s)
    BY <1>1, FS_Interval
  <1>3. Total(s) = SumFunctionOnSet(s, DOMAIN s)
    BY SumOfSequence DEF Total
  <1>4. SumFunctionOnSet(s, DOMAIN s) \in Int
    BY <1>1, <1>2, SumType
  <1>5. s = <<>> => SumFunctionOnSet(s, DOMAIN s) = 0
    <2>1. SUFFICES ASSUME s = <<>> PROVE SumFunctionOnSet(s, DOMAIN s) = 0
      OBVIOUS
    <2>2. DOMAIN s = {}
      BY <1>1, <2>1
    <2> QED BY <2>2, SumOfNothing
  <1>6. s # <<>> => Total(s) = Head(s) + Total(Tail(s))
    BY SumHeadTail DEF Total
  <1> QED BY <1>3, <1>4, <1>5, <1>6

LEMMA SameTotal ==
  ASSUME NEW f \in Int, NEW g \in Int, NEW a \in Int, NEW b \in Int, NEW k \in Int, NEW l \in Int,
         NEW D \in Int, NEW E, NEW K \in Int,
         E = D - a + b, f + D + k = K, g + b + l = f + a + k
  PROVE  g + E + l = K
  OBVIOUS

LEMMA NothingIsLostIf ==
  ASSUME InputInv, program = "inf18_1", InputTypes', given' = given, NEW y \in T!Ids,
         \A t \in T!Ids \ {y} : Due'[t] = Due[t],
         full_sum' + Due'[y] + Total(input') = full_sum + Due[y] + Total(input)
  PROVE  NothingIsLost'
  <1>1. Due \in [T!Ids -> Int] /\ full_sum \in Int /\ input \in Seq(Int) /\ given \in Seq(Int)
    BY DueType DEF InputInv, InputTypes
  <1>2. Due' \in [T!Ids -> Int]
    <2>1. T!Threads' \in Int
      BY InputNames DEF T!Threads
    <2>2. Most \in Nat /\ T!Ids = 1 .. Most /\ joined' \in 0 .. T!Threads'
      BY InputNames DEF InputTypes
    <2>3. joined' \in Int /\ sum' \in [T!Ids -> Int] /\ current' \in [T!Ids -> Int]
      BY <2>1, <2>2 DEF InputTypes
    <2> QED BY <2>2, <2>3 DEF Due
  <1>3. full_sum' \in Int /\ input' \in Seq(Int)
    BY DEF InputTypes
  <1>4. /\ Total(input) \in Int /\ Total(given) \in Int
        /\ Total(input') \in Int
    BY <1>1, <1>3, SumOfInput
  <1>5. PICK d, e : d = Due /\ e = Due'
    OBVIOUS
  <1>6. IsFiniteSet(T!Ids) /\ d \in [T!Ids -> Int] /\ e \in [T!Ids -> Int]
        /\ \A t \in T!Ids \ {y} : e[t] = d[t]
    BY <1>1, <1>2, <1>5, InputNames
  <1>7. SumFunctionOnSet(e, T!Ids) = SumFunctionOnSet(d, T!Ids) - d[y] + e[y]
    <2>1. IsFiniteSet(T!Ids) /\ (\A t \in T!Ids : d[t] \in Int) /\ y \in T!Ids /\ e[y] \in Int
          /\ \A t \in T!Ids \ {y} : e[t] = d[t]
      BY <1>6
    <2> QED BY ONLY <2>1, SumOfChanged
  <1>8. SumFunctionOnSet(d, T!Ids) \in Int
    BY <1>6, SumType
  <1>9. full_sum + SumFunctionOnSet(d, T!Ids) + Total(input) = Total(given)
    BY <1>5 DEF InputInv, NothingIsLost
  <1>10. full_sum' + SumFunctionOnSet(e, T!Ids) + Total(input') = Total(given)
    <2> DEFINE D == SumFunctionOnSet(d, T!Ids) E == SumFunctionOnSet(e, T!Ids)
               I == Total(input) J == Total(input') K == Total(given)
    <2>1. /\ E = D - d[y] + e[y] /\ D \in Int /\ I \in Int /\ J \in Int /\ K \in Int
          /\ full_sum + D + I = K /\ full_sum' + e[y] + J = full_sum + d[y] + I
          /\ d[y] \in Int /\ e[y] \in Int /\ full_sum \in Int /\ full_sum' \in Int
      BY <1>1, <1>3, <1>4, <1>5, <1>6, <1>7, <1>8, <1>9
    <2> HIDE DEF D, E, I, J, K
    <2>2. full_sum' + E + J = K
      BY ONLY <2>1, SameTotal
    <2> QED BY <2>2 DEF D, E, I, J, K
  <1>11. (T!Ids)' = T!Ids
    BY DEF T!Ids
  <1>12. full_sum' + SumFunctionOnSet(Due', (T!Ids)') + Total(input') = Total(given')
    BY <1>5, <1>10, <1>11
  <1> QED BY <1>12 DEF NothingIsLost

LEMMA InputBegins == InputOver \/ T!Init => InputInv
  <1> SUFFICES ASSUME InputOver \/ T!Init PROVE InputInv
    OBVIOUS
  <1> USE InputNames
  <1>1. CASE InputOver
    <2>1. InputTypes
      BY <1>1 DEF InputOver, InputTypes, T!Threads
    <2>2. Chaining
      BY <1>1 DEF InputOver, Chaining, Counted, Left, Taken, States, EndedHavePrinted, Backwards
    <2>3. program = "inf18_0"
      BY <1>1 DEF InputOver
    <2> QED BY <2>1, <2>2, <2>3 DEF InputInv
  <1>2. CASE T!Init
    <2>1. InputTypes
      BY <1>2 DEF T!Init, InputTypes, T!Threads
    <2>2. program = "inf18_0" => Chaining
      BY <1>2, <2>1 DEF T!Init, InputTypes, Chaining, Counted, Left, Taken, States,
                        EndedHavePrinted, Backwards
    <2>3. ASSUME program = "inf18_1" PROVE Adding /\ NothingIsLost
      <3>1. Adding
        BY <1>2, <2>3 DEF T!Init, Adding
      <3>2. \A t \in T!Ids : Due[t] = 0
        BY <1>2 DEF T!Init, Due
      <3>3. SumFunctionOnSet(Due, T!Ids) = 0
        BY <3>2, SumOfZeros
      <3>4. full_sum = 0 /\ input = given /\ Total(given) \in Int
        BY <1>2, <2>1, SumOfInput DEF T!Init, InputTypes
      <3>5. \A x \in Int : 0 + 0 + x = x
        OBVIOUS
      <3>6. 0 + 0 + Total(given) = Total(given)
        BY <3>4, <3>5, Zenon
      <3> QED BY <3>1, <3>3, <3>4, <3>6, Zenon DEF NothingIsLost
    <2> QED BY <2>1, <2>2, <2>3 DEF InputInv
  <1> QED BY <1>1, <1>2

-----------------------------------------------------------------------------
\* The steps keep the types.
LEMMA InputTypesStay == ASSUME InputInv, T!Next PROVE InputTypes'
  <1> USE InputNames DEF InputInv
  <1>0. /\ program \in {"inf18_0", "inf18_1"} /\ joined \in 0 .. T!Threads /\ T!Threads \in 1 .. Most
        /\ given \in Seq(Int) /\ Len(given) < Most /\ Len(given) \in Nat
        /\ input \in Seq(Int) /\ created \in 0 .. Most
        /\ current \in [T!Ids -> Int] /\ sum \in [T!Ids -> Int]
        /\ state \in [T!Ids -> {"add", "scan", "wait", "ended", "endless"}]
        /\ full_sum \in Int /\ output \in Seq(Int)
    BY DEF InputTypes, T!Threads
  <1>1. CASE T!Create
    BY <1>0, <1>1 DEF T!Create, InputTypes, T!Threads
  <1>2. CASE T!Join
    <2>1. joined + 1 \in T!Ids /\ joined + 1 \in 0 .. T!Threads /\ sum[joined + 1] \in Int
      BY <1>0, <1>2 DEF T!Join
    <2>2. full_sum' \in Int /\ output' \in Seq(Int)
      BY <1>0, <1>2, <2>1 DEF T!Join
    <2>3. UNCHANGED <<program, given, input, created, current, sum, state>> /\ joined' = joined + 1
      BY <1>2 DEF T!Join
    <2> QED BY <1>0, <2>1, <2>2, <2>3 DEF InputTypes, T!Threads
  <1>3. ASSUME NEW t \in T!Ids, T!Add(t) PROVE InputTypes'
    <2>1. sum' \in [T!Ids -> Int]
      BY <1>0, <1>3 DEF T!Add
    <2> QED BY <1>0, <1>3, <2>1 DEF T!Add, T!Becomes, InputTypes, T!Threads
  <1>4. ASSUME NEW t \in T!Ids, T!PrintCurrent(t) PROVE InputTypes'
    BY <1>0, <1>4 DEF T!PrintCurrent, T!Becomes, InputTypes, T!Threads
  <1>5. ASSUME NEW t \in T!Ids, T!Scan(t) PROVE InputTypes'
    <2>1. UNCHANGED <<program, given, joined, sum, full_sum, output>>
      BY <1>5 DEF T!Scan
    <2>2. input' \in Seq(Int) /\ current' \in [T!Ids -> Int]
          /\ state' \in [T!Ids -> {"add", "scan", "wait", "ended", "endless"}]
      <3>1. input # <<>> => Head(input) \in Int /\ Tail(input) \in Seq(Int)
        BY <1>0, HeadTailProperties
      <3> QED BY <1>0, <1>5, <3>1 DEF T!Scan, T!Becomes
    <2>3. created' \in 0 .. Most
      <3>1. CASE created' = created
        BY <1>0, <3>1
      <3>2. CASE created' # created
        <4>1. program = "inf18_0" /\ input # <<>> /\ created' = created + 1
          BY <1>5, <3>2 DEF T!Scan
        <4>2. Len(input) > 0 /\ Len(input) \in Nat
          BY <1>0, <4>1, EmptySeq, LenProperties
        <4>3. created = Len(given) - Len(input) + 1
          BY <4>1 DEF Chaining, Counted
        <4> QED BY <1>0, <4>1, <4>2, <4>3
      <3> QED BY <3>1, <3>2
    <2> QED BY <1>0, <2>1, <2>2, <2>3 DEF InputTypes, T!Threads
  <1> QED BY <1>1, <1>2, <1>3, <1>4, <1>5 DEF T!Next
\* inf18-1.c, step by step.
LEMMA AddingStays ==
  ASSUME InputInv, program = "inf18_1", T!Next, InputTypes'
  PROVE  Adding' /\ NothingIsLost'
  <1> USE InputNames
  <1>0. /\ Adding /\ T!Threads = threads_count /\ given' = given /\ program' = program
        /\ joined \in 0 .. threads_count /\ created \in 0 .. Most
        /\ current \in [T!Ids -> Int] /\ sum \in [T!Ids -> Int]
        /\ state \in [T!Ids -> {"add", "scan", "wait", "ended", "endless"}]
        /\ input \in Seq(Int) /\ full_sum \in Int
    BY DEF InputInv, InputTypes, T!Threads, T!Next, T!Create, T!Join, T!Add, T!Scan, T!PrintCurrent
  <1>1. CASE T!Create
    <2>1. /\ created' = created + 1 /\ created < threads_count /\ joined = 0
          /\ UNCHANGED <<program, given, input, joined, current, sum, state, full_sum, output>>
      BY <1>0, <1>1 DEF T!Create, Adding
    <2>2. Adding'
      BY <1>0, <2>1 DEF Adding
    <2>3. Due' = Due /\ full_sum' = full_sum /\ input' = input /\ 1 \in T!Ids
      BY <2>1 DEF Due, T!Ids
    <2>4. full_sum' + Due'[1] + Total(input') = full_sum + Due[1] + Total(input)
      BY <2>3
    <2> QED BY <1>0, <2>2, <2>3, <2>4, NothingIsLostIf
  <1>2. CASE T!Join
    <2> DEFINE t == joined + 1
    <2>1. /\ created = threads_count /\ joined < threads_count /\ state[t] = "ended"
          /\ joined' = t /\ full_sum' = full_sum + sum[t]
          /\ output' = IF t = threads_count THEN <<full_sum'>> ELSE output
          /\ UNCHANGED <<program, given, input, created, current, sum, state>>
      BY <1>0, <1>2 DEF T!Join
    <2>2. t \in T!Ids /\ t \in 1 .. threads_count /\ sum[t] \in Int
      BY <1>0, <2>1
    <2>3. Adding'
      <3>1. output' = IF joined' < threads_count THEN <<>> ELSE <<full_sum'>>
        <4>1. output = <<>>
          BY <1>0, <2>1 DEF Adding
        <4>2. joined' < threads_count <=> t # threads_count
          BY <1>0, <2>1, <2>2
        <4> QED BY <2>1, <4>1, <4>2
      <3>2. \A x \in T!Ids : x <= joined' => state[x] = "ended"
        <4>1. \A x \in T!Ids : x <= joined' => x <= joined \/ x = t
          BY <1>0, <2>1
        <4> QED BY <1>0, <2>1, <4>1 DEF Adding
      <3> QED BY <1>0, <2>1, <2>2, <3>1, <3>2 DEF Adding
    <2>4. /\ Due[t] = sum[t] + 0 /\ Due'[t] = 0 + 0
          /\ \A x \in T!Ids \ {t} : Due'[x] = Due[x]
      BY <1>0, <2>1, <2>2 DEF Due, T!Ids
    <2>5. Total(input) \in Int /\ input' = input
      BY <1>0, <2>1, SumOfInput
    <2>6. full_sum' + Due'[t] + Total(input') = full_sum + Due[t] + Total(input)
      BY <1>0, <2>1, <2>2, <2>4, <2>5
    <2> QED BY <1>0, <2>2, <2>3, <2>4, <2>6, NothingIsLostIf
  <1>3. ASSUME NEW t \in T!Ids, T!Add(t) PROVE Adding' /\ NothingIsLost'
    <2>1. /\ t <= created /\ state[t] = "add" /\ sum' = [sum EXCEPT ![t] = sum[t] + current[t]]
          /\ state' = [state EXCEPT ![t] = "scan"]
          /\ UNCHANGED <<program, given, input, created, joined, current, full_sum, output>>
      BY <1>0, <1>3 DEF T!Add, T!Becomes
    <2>2. t > joined /\ sum[t] \in Int /\ current[t] \in Int
      BY <1>0, <2>1 DEF Adding
    <2>3. /\ state'[t] = "scan" /\ sum'[t] = sum[t] + current[t]
          /\ \A x \in T!Ids : x # t => state'[x] = state[x] /\ sum'[x] = sum[x]
      BY <1>0, <2>1
    <2>4. Adding'
      BY <1>0, <2>1, <2>2, <2>3 DEF Adding
    <2>5. Due[t] = sum[t] + current[t] /\ Due'[t] = (sum[t] + current[t]) + 0
          /\ \A x \in T!Ids \ {t} : Due'[x] = Due[x]
      BY <1>0, <2>1, <2>2, <2>3 DEF Due, T!Ids
    <2>6. full_sum' + Due'[t] + Total(input') = full_sum + Due[t] + Total(input)
      BY <2>1, <2>2, <2>5
    <2> QED BY <1>0, <2>4, <2>5, <2>6, NothingIsLostIf
  <1>4. ASSUME NEW t \in T!Ids, T!Scan(t) PROVE Adding' /\ NothingIsLost'
    <2>1. /\ t <= created /\ state[t] = "scan" /\ created' = created
          /\ UNCHANGED <<program, given, joined, sum, full_sum, output>>
      BY <1>0, <1>4 DEF T!Scan
    <2>2. t > joined /\ t \in 1 .. Most
      BY <1>0, <2>1 DEF Adding
    <2>3. \A x \in T!Ids \ {t} : state'[x] = state[x] /\ current'[x] = current[x]
      BY <1>0, <1>4 DEF T!Scan, T!Becomes
    <2>4. \A x \in T!Ids \ {t} : Due'[x] = Due[x]
      BY <2>1, <2>3 DEF Due, T!Ids
    <2>5. CASE input = <<>> \/ Head(input) = T!Word
      <3>1. /\ state'[t] \in {"ended", "endless"} /\ (state'[t] = "ended" => input = <<>>)
            /\ input' = input /\ current' = current
        BY <1>0, <1>4, <2>5 DEF T!Scan, T!Becomes
      <3>2. Adding'
        BY <1>0, <2>1, <2>2, <2>3, <3>1 DEF Adding
      <3>3. Due'[t] = Due[t]
        BY <2>1, <2>2, <3>1 DEF Due, T!Ids
      <3>4. full_sum' + Due'[t] + Total(input') = full_sum + Due[t] + Total(input)
        BY <2>1, <3>1, <3>3
      <3> QED BY <1>0, <2>4, <3>2, <3>4, NothingIsLostIf
    <2>6. CASE input # <<>> /\ Head(input) # T!Word
      <3>1. state'[t] = "add" /\ current'[t] = Head(input) /\ input' = Tail(input)
        BY <1>0, <1>4, <2>6 DEF T!Scan, T!Becomes
      <3>2. Adding'
        BY <1>0, <2>1, <2>2, <2>3, <2>6, <3>1 DEF Adding
      <3>3. /\ Due[t] = sum[t] + 0 /\ Due'[t] = sum[t] + Head(input)
            /\ sum[t] \in Int /\ Head(input) \in Int
        BY <1>0, <2>1, <2>2, <2>6, <3>1, HeadTailProperties DEF Due, T!Ids
      <3>4. Total(input) = Head(input) + Total(input') /\ Total(input') \in Int
        BY <1>0, <2>6, <3>1, SumOfInput, HeadTailProperties
      <3>5. full_sum' + Due'[t] + Total(input') = full_sum + Due[t] + Total(input)
        BY <1>0, <2>1, <3>3, <3>4
      <3> QED BY <1>0, <2>4, <3>2, <3>5, NothingIsLostIf
    <2> QED BY <2>5, <2>6
  <1> QED BY <1>1, <1>2, <1>3, <1>4 DEF T!Next, T!PrintCurrent

\* inf18-0.c, step by step.
LEMMA ChainingStays ==
  ASSUME InputInv, program = "inf18_0", T!Next
  PROVE  Chaining'
  <1> USE InputNames
  <1>0. /\ T!Threads = 1 /\ given' = given
        /\ joined \in 0 .. 1 /\ created \in 0 .. Most
        /\ current \in [T!Ids -> Int] /\ given \in Seq(Int) /\ Len(given) \in Nat
        /\ state \in [T!Ids -> {"add", "scan", "wait", "ended", "endless"}]
        /\ input \in Seq(Int) /\ Len(input) \in Nat /\ Len(given) < Most
        /\ output \in Seq(Int) /\ Len(output) \in Nat
    BY LenProperties
       DEF InputInv, InputTypes, T!Threads, T!Next, T!Create, T!Join, T!Add, T!Scan, T!PrintCurrent
  <1>A. Counted /\ Left /\ Taken /\ States /\ EndedHavePrinted /\ Backwards
    BY DEF InputInv, Chaining
  <1>1. created \in T!Ids /\ created \in Nat \ {0} /\ \A k \in 1 .. created - 1 : k \in T!Ids
    BY <1>0, <1>A DEF Counted
  <1>2. CASE T!Join
    <2>1. /\ UNCHANGED <<given, input, created, current, state, output>> /\ state[1] = "ended"
      BY <1>0, <1>2 DEF T!Join
    <2>2. Counted' /\ Left' /\ Taken' /\ EndedHavePrinted' /\ Backwards'
      BY <1>A, <2>1 DEF Counted, Left, Taken, EndedHavePrinted, Backwards
    <2>3. States'
      BY <1>A, <2>1 DEF States
    <2> QED BY <2>2, <2>3 DEF Chaining
  <1>3. ASSUME NEW t \in T!Ids, T!Scan(t) PROVE Chaining'
    <2>1. t <= created /\ state[t] = "scan" /\ UNCHANGED <<given, joined, output>>
      BY <1>3 DEF T!Scan
    <2>2. t = created
      <3>1. t \in 1 .. created - 1 \/ t = created
        BY <1>1, <2>1
      <3> QED BY <1>A, <2>1, <3>1 DEF States
    <2>3. Len(output) = 0
      BY <1>0, <1>A, <2>1, <2>2 DEF EndedHavePrinted
    <2>4. Backwards'
      BY <2>1, <2>3 DEF Backwards
    <2>5. \A k \in 1 .. created - 1 : state[k] # "ended"
      BY <1>0, <1>1, <1>A, <2>3 DEF EndedHavePrinted
    <2>6. CASE input = <<>> \/ Head(input) = T!Word
      <3>1. /\ state'[t] \in {"ended", "endless"} /\ (state'[t] = "ended" => input = <<>>)
            /\ input' = input /\ current' = current /\ created' = created
            /\ \A x \in T!Ids \ {t} : state'[x] = state[x]
        BY <1>0, <1>3, <2>6 DEF T!Scan, T!Becomes
      <3>2. \A k \in 1 .. created - 1 : state'[k] = state[k]
        BY <1>1, <2>2, <3>1
      <3>3. Counted' /\ Left' /\ Taken'
        BY <1>A, <2>1, <3>1 DEF Counted, Left, Taken
      <3>4. joined' = 1 => state'[1] = "ended"
        BY <1>A, <1>1, <2>1, <2>2, <3>1 DEF States
      <3>5. States'
        BY <1>A, <2>1, <2>2, <3>1, <3>2, <3>4 DEF States
      <3>6. EndedHavePrinted'
        BY <1>1, <2>1, <2>3, <2>5, <3>1, <3>2 DEF EndedHavePrinted
      <3> QED BY <2>4, <3>3, <3>5, <3>6 DEF Chaining
    <2>7. CASE input # <<>> /\ Head(input) # T!Word
      <3>1. /\ state'[t] = "wait" /\ current'[t] = Head(input) /\ input' = Tail(input)
            /\ created' = created + 1
            /\ \A x \in T!Ids \ {t} : state'[x] = state[x] /\ current'[x] = current[x]
        BY <1>0, <1>3, <2>7 DEF T!Scan, T!Becomes
      <3>2. /\ Len(input) > 0 /\ Head(input) = input[1] /\ Len(input') = Len(input) - 1
            /\ \A k \in 1 .. Len(input) - 1 : input'[k] = input[k + 1]
        BY <1>0, <2>7, <3>1, EmptySeq, HeadTailProperties
      <3>3. created + 1 \in T!Ids /\ Counted'
        <4>1. Len(input) <= Len(given) /\ created = Len(given) - Len(input) + 1
          BY <1>A DEF Counted
        <4>2. created + 1 \in 1 .. Most
          BY SMTT(40), <1>0, <3>2, <4>1
        <4>3. /\ Len(input) - 1 <= Len(given)
              /\ created + 1 = Len(given) - (Len(input) - 1) + 1
          BY <1>0, <3>2, <4>1
        <4> QED BY <1>0, <3>1, <3>2, <4>2, <4>3 DEF Counted
      <3>4. Left'
        <4> SUFFICES ASSUME NEW k \in 1 .. Len(input') PROVE input'[k] = given'[created' - 1 + k]
          BY DEF Left
        <4>1. k \in 1 .. Len(input) - 1 /\ k + 1 \in 1 .. Len(input)
          BY <1>0, <3>2
        <4>2. input[k + 1] = given[created - 1 + (k + 1)]
          BY <1>A, <4>1 DEF Left
        <4>3. created - 1 + (k + 1) = created' - 1 + k
          BY <1>1, <3>1
        <4> QED BY <1>0, <3>2, <4>1, <4>2, <4>3
      <3>5. Taken'
        <4> SUFFICES ASSUME NEW k \in 1 .. created' - 1 PROVE current'[k] = given'[k]
          BY DEF Taken
        <4>1. k \in 1 .. created - 1 \/ k = created
          BY <1>1, <3>1
        <4>2. CASE k = created
          <5>1. 1 \in 1 .. Len(input) /\ created - 1 + 1 = created
            BY <1>0, <1>1, <3>2
          <5>2. input[1] = given[created]
            BY <1>A, <5>1 DEF Left
          <5> QED BY <1>0, <2>2, <3>1, <3>2, <4>2, <5>2
        <4>3. CASE k \in 1 .. created - 1
          <5>1. k \in T!Ids \ {t}
            BY <1>1, <2>2, <4>3
          <5> QED BY <1>0, <1>A, <3>1, <4>3, <5>1 DEF Taken
        <4> QED BY <4>1, <4>2, <4>3
      <3>6. \A k \in 1 .. created - 1 : k \in T!Ids \ {t} /\ state'[k] = state[k]
        BY <1>1, <2>2, <3>1
      <3>7. \A k \in 1 .. created' - 1 : state'[k] = "wait"
        <4> SUFFICES ASSUME NEW k \in 1 .. created' - 1 PROVE state'[k] = "wait"
          OBVIOUS
        <4>1. k \in 1 .. created - 1 \/ k = created
          BY <1>1, <3>1
        <4>2. k \in 1 .. created - 1 => state[k] \in {"wait", "ended"}
          BY <1>A DEF States
        <4> QED BY <2>2, <2>5, <3>1, <3>6, <4>1, <4>2
      <3>8. States'
        <4>1. created' \in T!Ids \ {t} /\ created' > created
          BY <1>1, <2>2, <3>1, <3>3
        <4>2. \A x \in T!Ids : x >= created' => state'[x] = "scan"
          <5> SUFFICES ASSUME NEW x \in T!Ids, x >= created' PROVE state'[x] = "scan"
            OBVIOUS
          <5>1. x > created /\ x # t
            BY <1>1, <2>2, <3>1
          <5>2. state[x] = "scan"
            BY <1>A, <5>1 DEF States
          <5> QED BY <3>1, <5>1, <5>2
        <4>3. state'[created'] = "scan"
          BY <4>1, <4>2
        <4>4. joined = 1 => state[1] = "ended"
          BY <1>A DEF States
        <4>5. joined' # 1
          <5>1. 1 \in 1 .. created - 1 \/ created = 1
            BY <1>1
          <5>2. state[1] # "ended"
            BY <2>1, <2>2, <2>5, <5>1
          <5> QED BY <2>1, <4>4, <5>2
        <4>6. \A x \in T!Ids : x > created' => state'[x] = "scan"
          BY <4>1, <4>2
        <4> QED BY <3>7, <4>3, <4>5, <4>6 DEF States
      <3>9. EndedHavePrinted'
        <4>1. Len(output') = 0 /\ created' \in Nat /\ created' > 0
          BY <1>1, <2>1, <2>3, <3>1
        <4>2. ASSUME NEW c \in Nat, c > 0
              PROVE  0 <= c - 1 /\ ~ (0 > 0) /\ \A k \in 1 .. c - 1 : ~ (k >= c - 0)
          BY <4>2
        <4>3. /\ Len(output') <= created' - 1 /\ ~ (Len(output') > 0)
              /\ \A k \in 1 .. created' - 1 : ~ (k >= created' - Len(output'))
          BY <4>1, <4>2, Zenon
        <4> QED BY <3>7, <4>3 DEF EndedHavePrinted
      <3> QED BY <2>4, <3>3, <3>4, <3>5, <3>8, <3>9 DEF Chaining
    <2> QED BY <2>6, <2>7
  <1>4. ASSUME NEW t \in T!Ids, T!PrintCurrent(t) PROVE Chaining'
    <2>1. /\ state[t] = "wait" /\ state[t + 1] = "ended" /\ output' = Append(output, current[t])
          /\ state' = [state EXCEPT ![t] = "ended"]
          /\ UNCHANGED <<given, input, created, joined, current>>
      BY <1>4 DEF T!PrintCurrent, T!Becomes
    <2>2. t \in 1 .. created - 1
      BY <1>1, <1>A, <2>1 DEF States
    <2> DEFINE n == Len(output)
    <2>3. n \in Nat
      BY <1>0
    <2>4. t < created - n
      BY <1>A, <1>1, <2>1, <2>2, <2>3 DEF EndedHavePrinted
    <2>5. t + 1 = created \/ (t + 1 \in 1 .. created - 1 /\ t + 1 >= created - n)
      BY <1>A, <1>1, <2>1, <2>2, <2>3 DEF EndedHavePrinted
    <2>6. t = created - n - 1
      BY <1>1, <2>2, <2>3, <2>4, <2>5
    <2>7. state[created] = "ended"
      <3>1. t + 1 = created \/ n > 0
        BY <1>1, <2>2, <2>3, <2>6
      <3> QED BY <1>A, <2>1, <3>1 DEF EndedHavePrinted
    <2>8. current[t] = given[t] /\ current[t] \in Int
      BY <1>0, <1>A, <2>2 DEF Taken
    <2>9. /\ Len(output') = n + 1 /\ output'[n + 1] = given[t]
          /\ \A k \in 1 .. n : output'[k] = output[k]
      BY <1>0, <2>1, <2>8, AppendProperties
    <2>10. Backwards'
      <3> SUFFICES ASSUME NEW k \in 1 .. Len(output') PROVE output'[k] = given'[created' - k]
        BY DEF Backwards
      <3>1. k \in 1 .. n \/ k = n + 1
        BY <2>3, <2>9
      <3>2. CASE k \in 1 .. n
        BY <1>0, <1>A, <2>1, <2>9, <3>2 DEF Backwards
      <3>3. CASE k = n + 1
        <4>1. created - k = t
          BY <1>1, <2>3, <2>6, <3>3
        <4> QED BY <2>1, <2>9, <3>3, <4>1
      <3> QED BY <3>1, <3>2, <3>3
    <2>11. state'[t] = "ended" /\ \A x \in T!Ids \ {t} : state'[x] = state[x]
      BY <1>0, <2>1
    <2>12. EndedHavePrinted'
      <3>1. state'[created'] = "ended"
        BY <1>1, <2>1, <2>2, <2>7, <2>11
      <3>2. Len(output') <= created' - 1
        BY <1>1, <2>1, <2>2, <2>3, <2>6, <2>9
      <3>3. ASSUME NEW k \in 1 .. created - 1
            PROVE state'[k] = "ended" <=> k >= created - (n + 1)
        <4>1. CASE k = t
          BY <1>1, <2>3, <2>6, <2>11, <4>1
        <4>2. CASE k # t
          <5>1. state'[k] = state[k]
            BY <1>1, <2>11, <4>2
          <5>2. state[k] = "ended" <=> k >= created - n
            BY <1>A DEF EndedHavePrinted
          <5>3. k >= created - n <=> k >= created - (n + 1)
            BY <1>1, <2>3, <2>6, <4>2
          <5> QED BY <5>1, <5>2, <5>3
        <4> QED BY <4>1, <4>2
      <3> QED BY <2>1, <2>9, <3>1, <3>2, <3>3 DEF EndedHavePrinted
    <2>13. States'
      <3>1. \A k \in 1 .. created - 1 : state'[k] \in {"wait", "ended"}
        BY <1>1, <1>A, <2>11 DEF States
      <3>2. created # t /\ \A x \in T!Ids : x > created => x # t
        BY <1>1, <2>2
      <3>3. joined' = 1 => state'[1] = "ended"
        BY <1>A, <1>1, <2>1, <2>11 DEF States
      <3> QED BY <1>1, <1>A, <2>1, <2>11, <3>1, <3>2, <3>3 DEF States
    <2>14. Counted' /\ Left' /\ Taken'
      BY <1>A, <2>1 DEF Counted, Left, Taken
    <2> QED BY <2>10, <2>12, <2>13, <2>14 DEF Chaining
  <1> QED BY <1>2, <1>3, <1>4 DEF T!Next, T!Create, T!Add

LEMMA InputGoesOn == InputInv /\ (T!Next \/ UNCHANGED inputVars) => InputInv'
  <1> SUFFICES ASSUME InputInv, T!Next \/ UNCHANGED inputVars PROVE InputInv'
    OBVIOUS
  <1>1. CASE UNCHANGED inputVars
    <2>1. UNCHANGED <<program, given, input, created, joined, current, sum, state, full_sum, output>>
      BY <1>1 DEF inputVars
    <2>2. (T!Ids)' = T!Ids /\ Due' = Due
      BY <2>1 DEF T!Ids, Due
    <2>3. InputTypes' <=> InputTypes
      BY <2>1 DEF InputTypes, T!Ids, T!Threads
    <2>4. (Adding' <=> Adding) /\ (Chaining' <=> Chaining)
      BY <2>1 DEF Adding, T!Ids, Chaining, Counted, Left, Taken, States, EndedHavePrinted,
                  Backwards
    <2>5. NothingIsLost' <=> NothingIsLost
      BY <2>1, <2>2 DEF NothingIsLost
    <2> QED BY <2>1, <2>3, <2>4, <2>5 DEF InputInv
  <1>2. CASE T!Next
    <2>1. InputTypes' /\ program' = program
      BY <1>2, InputTypesStay DEF T!Next, T!Create, T!Join, T!Add, T!Scan, T!PrintCurrent
    <2> QED BY <1>2, <2>1, AddingStays, ChainingStays DEF InputInv
  <1> QED BY <1>1, <1>2

LEMMA InputIsRight == InputInv => T!Inv
  <1> SUFFICES ASSUME InputInv PROVE T!Inv
    OBVIOUS
  <1> USE InputNames
  <1>1. T!TypeOK
    BY DEF T!Ids, InputInv, InputTypes, T!TypeOK
  <1>2. ASSUME program = "inf18_1", output # <<>> PROVE output = <<FoldSeq(+, 0, given)>>
    <2>0. /\ Adding /\ joined \in 0 .. threads_count /\ input \in Seq(Int) /\ given \in Seq(Int)
          /\ full_sum \in Int
      BY <1>2 DEF InputInv, InputTypes, T!Threads
    <2>1. joined = threads_count /\ created = threads_count /\ output = <<full_sum>>
      BY <1>2, <2>0 DEF Adding
    <2>2. input = <<>>
      <3>1. 1 \in T!Ids /\ 1 <= joined
        BY <2>1
      <3> QED BY <2>0, <3>1 DEF Adding
    <2>3. \A t \in T!Ids : Due[t] = 0
      BY <2>0, <2>1 DEF Adding, Due
    <2>4. SumFunctionOnSet(Due, T!Ids) = 0 /\ Total(input) = 0
      BY <2>0, <2>2, <2>3, SumOfZeros, SumOfInput
    <2>5. full_sum + 0 + 0 = Total(given)
      BY <1>2, <2>4, Zenon DEF NothingIsLost, InputInv
    <2>6. full_sum = Total(given)
      BY <2>0, <2>5
    <2> QED BY <2>1, <2>6, Zenon DEF Total
  <1>3. ASSUME program = "inf18_0"
        PROVE IsPrefix(output, Reverse(given)) /\ (joined = 1 => output = Reverse(given))
    <2>0. /\ Chaining /\ given \in Seq(Int) /\ Len(given) \in Nat /\ output \in Seq(Int)
          /\ Len(output) \in Nat /\ input \in Seq(Int) /\ Len(input) \in Nat
      BY <1>3, LenProperties DEF InputInv, InputTypes
    <2>A. Counted /\ States /\ EndedHavePrinted /\ Backwards
      BY <2>0 DEF Chaining
    <2> DEFINE n == Len(given) m == Len(output)
    <2>1. m > 0 => created = n + 1
      <3>1. m > 0 => input = <<>>
        BY <2>A DEF States, EndedHavePrinted
      <3>2. input = <<>> => Len(input) = 0
        OBVIOUS
      <3> QED BY <2>0, <2>A, <3>1, <3>2 DEF Counted
    <2>2. m <= n /\ \A k \in 1 .. m : output[k] = given[n - k + 1]
      <3>1. m <= n
        BY <2>0, <2>A DEF Counted, EndedHavePrinted
      <3>2. ASSUME NEW k \in 1 .. m PROVE output[k] = given[n - k + 1]
        <4>1. output[k] = given[created - k]
          BY <2>A DEF Backwards
        <4>2. created - k = n - k + 1
          BY <2>0, <2>1
        <4> QED BY <4>1, <4>2
      <3> QED BY <3>1, <3>2
    <2>3. /\ Reverse(given) \in Seq(Int) /\ Len(Reverse(given)) = n
          /\ \A k \in 1 .. n : Reverse(given)[k] = given[n - k + 1]
      BY <2>0 DEF Reverse
    <2>4. /\ SubSeq(Reverse(given), 1, m) \in Seq(Int) /\ Len(SubSeq(Reverse(given), 1, m)) = m
          /\ \A k \in 1 .. m : SubSeq(Reverse(given), 1, m)[k] = Reverse(given)[k]
      BY <2>0, <2>2, <2>3, SubSeqProperties
    <2>5. SubSeq(output, 1, m) = output
      BY <2>0, SubSeqFull
    <2>6. output = SubSeq(Reverse(given), 1, m)
      <3>1. \A k \in 1 .. m : k \in 1 .. n
        BY <2>0, <2>2
      <3>2. \A k \in 1 .. m : output[k] = SubSeq(Reverse(given), 1, m)[k]
        BY <2>2, <2>3, <2>4, <3>1
      <3> QED BY <2>0, <2>4, <3>2, SeqEqual
    <2>7. IsPrefix(output, Reverse(given))
      BY <2>2, <2>3, <2>5, <2>6 DEF IsPrefix
    <2>8. joined = 1 => m = n
      <3> SUFFICES ASSUME joined = 1 PROVE m = n
        OBVIOUS
      <3>1. state[1] = "ended" /\ created >= 1 /\ created \in Nat
        BY <2>0, <2>A DEF Counted, States
      <3>2. CASE created = 1
        BY <2>0, <2>A, <2>2, <3>1, <3>2 DEF Counted, States
      <3>3. CASE created > 1
        <4>1. m >= created - 1
          BY <2>0, <2>A, <3>1, <3>3 DEF EndedHavePrinted
        <4> QED BY <2>0, <2>1, <2>2, <3>1, <3>3, <4>1, SMTT(30)
      <3> QED BY <3>1, <3>2, <3>3
    <2>9. joined = 1 => output = Reverse(given)
      BY <2>0, <2>2, <2>3, <2>8, SeqEqual
    <2> QED BY <2>7, <2>9
  <1>4. T!FoldSeq(+, 0, given) = FoldSeq(+, 0, given)
    BY DEF T!FoldSeq, T!FoldFunction, T!FoldFunctionOnSet, T!MapThenFoldSet,
           FoldSeq, FoldFunction, FoldFunctionOnSet, MapThenFoldSet
  <1>5. /\ T!Reverse(given) = Reverse(given)
        /\ T!IsPrefix(output, Reverse(given)) <=> IsPrefix(output, Reverse(given))
    BY DEF T!Reverse, Reverse, T!IsPrefix, IsPrefix
  <1> QED BY <1>1, <1>2, <1>3, <1>4, <1>5, Zenon DEF T!Inv

-----------------------------------------------------------------------------
(***************************************************************************)
(* inf11-1.c and inf11-0.c: as long as the chain grows, only the first     *)
(* process has anything in its buffer, and only before it has forked.      *)
(***************************************************************************)
UpTo(n) == [k \in 1 .. n |-> k]

ChainTypes ==
  /\ N \in Nat /\ refused \in BOOLEAN /\ chainer \in {"inf11_0", "inf11_1"}
  /\ chain \in Seq(Seq(Nat)) /\ chain # <<>> /\ out \in Seq(Nat)
  /\ ended \in 0 .. Len(chain)

Flushed ==
  chainer = "inf11_0" \/ ended > 0 \/ Len(chain) > 1 =>
    \A k \in 1 .. Len(chain) : chain[k] = <<>>

Numbers ==
  /\ chainer = "inf11_1" /\ ended = 0 =>
       IF Len(chain) = 1 THEN chain[1] = <<1>> /\ out = <<>>
                         ELSE Len(chain) <= N /\ out = UpTo(Len(chain))
  /\ chainer = "inf11_1" /\ ended > 0 =>
       IF refused THEN Len(chain) < N /\ out = UpTo(Len(chain) + 1) ELSE out = F!Line
  /\ chainer = "inf11_1" /\ ended = 0 => ~refused
  /\ chainer = "inf11_0" => out = IF ended = 0 THEN <<>> ELSE <<Len(chain)>>

ChainInv == ChainTypes /\ Flushed /\ Numbers

LEMMA UpToNext ==
  ASSUME NEW n \in Nat
  PROVE  /\ UpTo(n) \in Seq(Nat) /\ Len(UpTo(n)) = n
         /\ Append(UpTo(n), n + 1) = UpTo(n + 1)
         /\ UpTo(1) = <<1>>
  <1>1. ASSUME NEW m \in Nat
        PROVE UpTo(m) \in Seq(Nat) /\ Len(UpTo(m)) = m /\ \A k \in 1 .. m : UpTo(m)[k] = k
    <2>1. \A k \in 1 .. m : k \in Nat
      OBVIOUS
    <2> QED BY <2>1 DEF UpTo
  <1>2. /\ Append(UpTo(n), n + 1) \in Seq(Nat) /\ Len(Append(UpTo(n), n + 1)) = n + 1
        /\ \A k \in 1 .. n + 1 : Append(UpTo(n), n + 1)[k] = k
    BY <1>1, AppendProperties
  <1>3. Append(UpTo(n), n + 1) = UpTo(n + 1)
    BY <1>1, <1>2, SeqEqual
  <1>4. UpTo(1) = <<1>>
    <2>1. <<1>> \in Seq(Nat) /\ Len(<<1>>) = 1 /\ \A k \in 1 .. 1 : <<1>>[k] = k
      OBVIOUS
    <2>2. UpTo(1) \in Seq(Nat) /\ Len(UpTo(1)) = 1 /\ \A k \in 1 .. 1 : UpTo(1)[k] = k
      BY <1>1
    <2> QED BY <2>1, <2>2, SeqEqual
  <1> QED BY <1>1, <1>3, <1>4

LEMMA ShortLine == Append(<<1>>, 0) = <<1, 0>> /\ <<1, 0>> \in Seq(Nat)
  <1>1. <<1>> \in Seq(Nat) /\ 0 \in Nat /\ Len(<<1>>) = 1 /\ <<1>>[1] = 1
    OBVIOUS
  <1>2. /\ Append(<<1>>, 0) \in Seq(Nat) /\ Len(Append(<<1>>, 0)) = 2
        /\ Append(<<1>>, 0)[1] = 1 /\ Append(<<1>>, 0)[2] = 0
    BY <1>1, AppendProperties
  <1>3. <<1, 0>> \in Seq(Nat) /\ Len(<<1, 0>>) = 2 /\ <<1, 0>>[1] = 1 /\ <<1, 0>>[2] = 0
    OBVIOUS
  <1>4. \A k \in 1 .. 2 : k = 1 \/ k = 2
    OBVIOUS
  <1> QED BY <1>2, <1>3, <1>4, SeqEqual

LEMMA LineFacts ==
  ASSUME NEW n \in Nat, N = n
  PROVE  /\ F!Line = IF N < 1 THEN <<1, 0>> ELSE Append(UpTo(N), 0)
         /\ F!Line \in Seq(Nat) /\ Len(F!Line) = IF N < 1 THEN 2 ELSE N + 1
         /\ \A k \in 1 .. N : F!Line[k] = k
  <1>1. F!Line = IF N < 1 THEN <<1, 0>> ELSE Append(UpTo(N), 0)
    BY DEF F!Line, F!Newline, UpTo
  <1>2. UpTo(N) \in Seq(Nat) /\ Len(UpTo(N)) = N /\ \A k \in 1 .. N : UpTo(N)[k] = k
    BY UpToNext DEF UpTo
  <1>3. CASE N < 1
    BY <1>1, <1>3
  <1>4. CASE N >= 1
    <2>1. F!Line = Append(UpTo(N), 0) /\ 0 \in Nat
      BY <1>1, <1>4
    <2>2. /\ F!Line \in Seq(Nat) /\ Len(F!Line) = N + 1
          /\ \A k \in 1 .. N : F!Line[k] = UpTo(N)[k]
      BY <1>2, <2>1, AppendProperties
    <2> QED BY <1>1, <1>2, <1>4, <2>2
  <1> QED BY <1>3, <1>4

\* What F's definitions say in these names.
LEMMA ChainNames ==
  /\ F!Deepest = Len(chain) /\ F!Forking = (ended = 0) /\ F!Newline = 0
  BY DEF F!Deepest, F!Forking, F!Newline

LEMMA ChainBegins == ChainOver \/ F!Init => ChainInv
  <1> SUFFICES ASSUME ChainOver \/ F!Init PROVE ChainInv
    OBVIOUS
  <1>1. CASE F!Init
    <2> DEFINE b == IF chainer = "inf11_1" THEN <<1>> ELSE <<>>
    <2>1. /\ chainer \in {"inf11_0", "inf11_1"} /\ N \in Nat /\ ended = 0 /\ out = <<>>
          /\ chain = <<b>> /\ refused = FALSE /\ b \in Seq(Nat)
      BY <1>1, ProgramsAssumption DEF F!Init
    <2> HIDE DEF b
    <2>2. chain \in Seq(Seq(Nat)) /\ chain # <<>> /\ Len(chain) = 1 /\ chain[1] = b
      BY <2>1
    <2>7. refused \in BOOLEAN
      BY <2>1, Zenon
    <2>6. out \in Seq(Nat) /\ refused \in BOOLEAN /\ ended \in 0 .. 1
      BY <2>1, <2>7
    <2>3. ChainTypes
      BY <2>1, <2>2, <2>6 DEF ChainTypes
    <2>4. Flushed
      BY <2>1, <2>2 DEF Flushed, b
    <2>5. Numbers
      BY <2>1, <2>2 DEF Numbers, b
    <2> QED BY <2>3, <2>4, <2>5 DEF ChainInv
  <1>2. CASE ChainOver
    <2>1. /\ chainer = "inf11_1" /\ N = 1 /\ ended = 1 /\ out = <<1, 0>> /\ chain = <<<<>>>>
          /\ refused = FALSE
      BY <1>2 DEF ChainOver
    <2>2. /\ chain \in Seq(Seq(Nat)) /\ chain # <<>> /\ Len(chain) = 1 /\ chain[1] = <<>>
          /\ out \in Seq(Nat)
      BY <2>1, ShortLine
    <2>3. F!Line = Append(UpTo(1), 0)
      BY <2>1, LineFacts
    <2>4. F!Line = out
      BY <2>1, <2>3, UpToNext, ShortLine
    <2>9. refused \in BOOLEAN
      BY <2>1, Zenon
    <2>8. refused \in BOOLEAN /\ ended \in 0 .. 1
      BY <2>1, <2>9
    <2>5. ChainTypes
      BY <2>1, <2>2, <2>8 DEF ChainTypes
    <2>6. Flushed
      BY <2>2 DEF Flushed
    <2>7. Numbers
      BY <2>1, <2>4 DEF Numbers
    <2> QED BY <2>5, <2>6, <2>7 DEF ChainInv
  <1> QED BY <1>1, <1>2

\* A process ends with an empty buffer, or its buffer is flushed.
LEMMA EmptiedBuffer ==
  ASSUME ChainTypes, Flushed, NEW d \in Nat, d = Len(chain)
  PROVE  LET q == [chain EXCEPT ![d] = <<>>] IN
           /\ q \in Seq(Seq(Nat)) /\ Len(q) = d /\ q # <<>>
           /\ \A k \in 1 .. d : q[k] = <<>>
           /\ Append(q, <<>>) \in Seq(Seq(Nat)) /\ Len(Append(q, <<>>)) = d + 1
           /\ Append(q, <<>>) # <<>>
           /\ \A k \in 1 .. d + 1 : Append(q, <<>>)[k] = <<>>
  <1> DEFINE q == [chain EXCEPT ![d] = <<>>]
  <1>1. d \in 1 .. Len(chain) /\ <<>> \in Seq(Nat) /\ chain \in Seq(Seq(Nat))
    BY DEF ChainTypes
  <1>2. /\ q \in Seq(Seq(Nat)) /\ Len(q) = d
        /\ \A k \in 1 .. d : q[k] = IF k = d THEN <<>> ELSE chain[k]
    BY <1>1, ExceptSeq
  <1>3. \A k \in 1 .. d : q[k] = <<>>
    <2>1. CASE d = 1
      BY <1>2, <2>1
    <2>2. CASE d > 1
      BY <1>2, <2>2 DEF Flushed
    <2> QED BY <1>1, <2>1, <2>2
  <1>4. q # <<>>
    BY <1>1, <1>2
  <1> HIDE DEF q
  <1>5. /\ Append(q, <<>>) \in Seq(Seq(Nat)) /\ Append(q, <<>>) # <<>>
        /\ Len(Append(q, <<>>)) = Len(q) + 1
        /\ \A k \in 1 .. Len(q) : Append(q, <<>>)[k] = q[k]
        /\ Append(q, <<>>)[Len(q) + 1] = <<>>
    <2>1. q \in Seq(Seq(Nat)) /\ <<>> \in Seq(Nat)
      BY <1>1, <1>2
    <2>2. /\ Append(q, <<>>) \in Seq(Seq(Nat)) /\ Append(q, <<>>) # <<>>
          /\ Len(Append(q, <<>>)) = Len(q) + 1
      BY ONLY <2>1, AppendProperties, Zenon
    <2>3. \A k \in 1 .. Len(q) : Append(q, <<>>)[k] = q[k]
      BY ONLY <2>1, AppendProperties
    <2>4. Append(q, <<>>)[Len(q) + 1] = <<>>
      BY ONLY <2>1, AppendProperties, Zenon
    <2> QED BY <2>2, <2>3, <2>4
  <1>7. Len(q) = d
    BY <1>2
  <1>8. Len(Append(q, <<>>)) = d + 1
    BY <1>5, <1>7
  <1>6. \A k \in 1 .. d + 1 : Append(q, <<>>)[k] = <<>>
    <2> SUFFICES ASSUME NEW k \in 1 .. d + 1 PROVE Append(q, <<>>)[k] = <<>>
      OBVIOUS
    <2>1. k \in 1 .. d \/ k = d + 1
      OBVIOUS
    <2> QED BY <1>3, <1>5, <1>7, <2>1
  <1> QED BY <1>2, <1>3, <1>4, <1>5, <1>6, <1>8 DEF q

\* The text of a process, with what it had not written out yet.
LEMMA Written ==
  ASSUME ChainInv, chainer = "inf11_1", ended = 0, NEW d \in Nat, d = Len(chain), NEW x \in Nat
  PROVE  out \o Append(chain[d], x) = Append(UpTo(d), x)
  <1>1. CASE d = 1
    <2>1. out = <<>> /\ chain[d] = <<1>> /\ UpTo(d) = <<1>>
      BY <1>1, UpToNext DEF ChainInv, Numbers
    <2>2. Append(<<1>>, x) \in Seq(Nat)
      OBVIOUS
    <2> QED BY <2>1, <2>2, ConcatEmptySeq
  <1>2. CASE d > 1
    <2>5. Len(chain) # 1
      BY <1>2
    <2>3. out = UpTo(d) /\ UpTo(d) \in Seq(Nat)
      BY <2>5, UpToNext, Zenon DEF ChainInv, Numbers
    <2>4. chain[d] = <<>> /\ d \in 1 .. d
      BY <1>2 DEF ChainInv, Flushed
    <2>1. out = UpTo(d) /\ chain[d] = <<>> /\ UpTo(d) \in Seq(Nat)
      BY <2>3, <2>4
    <2>2. Append(<<>>, x) = <<x>>
      OBVIOUS
    <2> QED BY <2>1, <2>2, AppendIsConcat
  <1>3. d # 0
    BY DEF ChainInv, ChainTypes
  <1> QED BY <1>1, <1>2, <1>3

LEMMA StepKeepsChain == ASSUME ChainInv, F!Step PROVE ChainInv'
  <1> USE ChainNames DEF ChainInv
  <1>1. PICK d \in Nat : d = Len(chain)
    BY DEF ChainTypes
  <1>2. /\ chainer = "inf11_1" /\ ended = 0 /\ d < N /\ N \in Nat /\ d > 0
        /\ UNCHANGED <<chainer, N>>
    BY <1>1 DEF F!Step, ChainTypes
  <1>3. out' = UpTo(d + 1) /\ out' \in Seq(Nat)
    <2>1. out' = out \o Append(chain[d], d + 1)
      BY <1>1 DEF F!Step
    <2>2. d + 1 \in Nat
      OBVIOUS
    <2>3. out \o Append(chain[d], d + 1) = Append(UpTo(d), d + 1)
      BY <1>1, <1>2, <2>2, Written
    <2>4. Append(UpTo(d), d + 1) = UpTo(d + 1)
      BY UpToNext
    <2>5. UpTo(d + 1) \in Seq(Nat)
      BY <2>2, UpToNext
    <2> QED BY <2>1, <2>3, <2>4, <2>5
  <1> DEFINE q == [chain EXCEPT ![d] = <<>>]
  <1>4. /\ q \in Seq(Seq(Nat)) /\ Len(q) = d /\ q # <<>>
        /\ \A k \in 1 .. d : q[k] = <<>>
        /\ Append(q, <<>>) \in Seq(Seq(Nat)) /\ Len(Append(q, <<>>)) = d + 1
        /\ Append(q, <<>>) # <<>>
        /\ \A k \in 1 .. d + 1 : Append(q, <<>>)[k] = <<>>
    BY <1>1, EmptiedBuffer
  <1>5. \/ chain' = Append(q, <<>>) /\ ended' = ended /\ refused' = refused
        \/ chain' = q /\ refused' = TRUE /\ ended' = 1
    BY <1>1 DEF F!Step
  <1> HIDE DEF q
  <1>6. CASE chain' = Append(q, <<>>) /\ ended' = ended /\ refused' = refused
    <2>1. ChainTypes'
      BY <1>2, <1>3, <1>4, <1>6 DEF ChainTypes
    <2>2. Flushed'
      BY <1>4, <1>6 DEF Flushed
    <2>3. Numbers'
      BY <1>2, <1>3, <1>4, <1>6 DEF Numbers
    <2> QED BY <2>1, <2>2, <2>3
  <1>7. CASE chain' = q /\ refused' = TRUE /\ ended' = 1
    <2>1. ChainTypes'
      BY <1>2, <1>3, <1>4, <1>7 DEF ChainTypes
    <2>2. Flushed'
      BY <1>4, <1>7 DEF Flushed
    <2>3. Numbers'
      BY <1>2, <1>3, <1>4, <1>7 DEF Numbers
    <2> QED BY <2>1, <2>2, <2>3
  <1> QED BY <1>5, <1>6, <1>7

LEMMA FinishKeepsChain == ASSUME ChainInv, F!Finish PROVE ChainInv'
  <1> USE ChainNames DEF ChainInv
  <1>1. PICK d \in Nat : d = Len(chain)
    BY DEF ChainTypes
  <1>2. /\ chainer = "inf11_1" /\ ended = 0 /\ d >= N /\ N \in Nat /\ d > 0 /\ ~refused
        /\ UNCHANGED <<chainer, N, refused>> /\ ended' = 1
    BY <1>1 DEF F!Finish, ChainTypes, Numbers
  <1> DEFINE q == [chain EXCEPT ![d] = <<>>]
  <1>3. /\ q \in Seq(Seq(Nat)) /\ Len(q) = d /\ q # <<>> /\ \A k \in 1 .. d : q[k] = <<>>
    BY <1>1, EmptiedBuffer
  <1>4. chain' = q /\ out' = Append(UpTo(d), 0)
    <2>1. chain' = q /\ out' = out \o Append(chain[d], 0)
      BY <1>1 DEF F!Finish
    <2> QED BY <1>1, <1>2, <2>1, Written
  <1> HIDE DEF q
  <1>5. out' = F!Line /\ out' \in Seq(Nat)
    <2>1. d = 1 \/ d = N
      BY <1>1, <1>2 DEF Numbers
    <2>2. CASE d = 1 /\ N < 1
      <3>1. F!Line = <<1, 0>>
        BY <1>2, <2>2, LineFacts
      <3>2. out' = <<1, 0>>
        BY <1>4, <2>2, ShortLine, UpToNext
      <3> QED BY <3>1, <3>2, ShortLine
    <2>3. CASE d = N
      <3>1. ~(N < 1) /\ F!Line \in Seq(Nat)
        BY <1>2, <2>3, LineFacts
      <3>2. F!Line = Append(UpTo(N), 0)
        BY <1>2, <3>1, LineFacts
      <3> QED BY <1>4, <2>3, <3>1, <3>2
    <2>4. (d = 1 /\ N < 1) \/ d = N
      BY <1>2, <2>1
    <2> QED BY <2>2, <2>3, <2>4, Zenon
  <1>6. (F!Line)' = F!Line
    BY <1>2 DEF F!Line
  <1>7. ChainTypes'
    BY <1>2, <1>3, <1>4, <1>5 DEF ChainTypes
  <1>8. Flushed'
    BY <1>3, <1>4 DEF Flushed
  <1>9. Numbers'
    BY <1>2, <1>5, <1>6 DEF Numbers
  <1> QED BY <1>7, <1>8, <1>9

LEMMA OthersKeepChain ==
  ASSUME ChainInv, F!Fork \/ F!ForkFails \/ F!WaitAndReturn
  PROVE  ChainInv'
  <1> USE ChainNames DEF ChainInv
  <1>1. CASE F!Fork
    <2>1. /\ chainer = "inf11_0" /\ ended = 0 /\ chain' = Append(chain, <<>>)
          /\ UNCHANGED <<chainer, N, ended, out, refused>>
      BY <1>1 DEF F!Fork
    <2>7. <<>> \in Seq(Nat)
      OBVIOUS
    <2>2. chain \in Seq(Seq(Nat))
      BY DEF ChainTypes
    <2>3. /\ chain' \in Seq(Seq(Nat)) /\ chain' # <<>> /\ Len(chain') = Len(chain) + 1
          /\ \A k \in 1 .. Len(chain) : chain'[k] = chain[k]
          /\ chain'[Len(chain) + 1] = <<>>
      BY <2>1, <2>2, <2>7, AppendProperties
    <2>4. ChainTypes'
      BY <2>1, <2>3 DEF ChainTypes
    <2>5. Flushed'
      BY <2>1, <2>2, <2>3 DEF Flushed
    <2>6. Numbers'
      BY <2>1 DEF Numbers
    <2> QED BY <2>4, <2>5, <2>6
  <1>2. CASE F!ForkFails
    <2>1. /\ chainer = "inf11_0" /\ ended = 0 /\ refused' = TRUE /\ ended' = 1
          /\ out' = Append(out, Len(chain)) /\ UNCHANGED <<chainer, N, chain>>
      BY <1>2 DEF F!ForkFails
    <2>2. out = <<>> /\ Len(chain) \in Nat /\ Len(chain) > 0
      BY <2>1 DEF ChainTypes, Numbers
    <2>3. out' = <<Len(chain)>> /\ out' \in Seq(Nat)
      BY <2>1, <2>2
    <2>4. ChainTypes'
      BY <2>1, <2>2, <2>3 DEF ChainTypes
    <2>5. Flushed'
      BY <2>1 DEF Flushed
    <2>6. Numbers'
      BY <2>1, <2>3 DEF Numbers
    <2> QED BY <2>4, <2>5, <2>6
  <1>3. CASE F!WaitAndReturn
    <2>1. /\ ended > 0 /\ ended < Len(chain) /\ ended' = ended + 1
          /\ out' = out \o chain[Len(chain) - ended]
          /\ UNCHANGED <<chainer, N, chain, refused>>
      BY <1>3 DEF F!WaitAndReturn
    <2>2. Len(chain) - ended \in 1 .. Len(chain) /\ out \in Seq(Nat)
      BY <2>1 DEF ChainTypes
    <2>3. chain[Len(chain) - ended] = <<>>
      BY <2>1, <2>2 DEF Flushed
    <2>4. out' = out
      BY <2>1, <2>2, <2>3, ConcatEmptySeq
    <2>5. ChainTypes'
      BY <2>1, <2>4 DEF ChainTypes
    <2>6. Flushed'
      BY <2>1 DEF Flushed
    <2>7. (F!Line)' = F!Line
      BY <2>1 DEF F!Line
    <2>8. Numbers'
      BY <2>1, <2>4, <2>5, <2>7 DEF Numbers, ChainTypes
    <2> QED BY <2>5, <2>6, <2>8
  <1> QED BY <1>1, <1>2, <1>3

LEMMA ChainGoesOn == ChainInv /\ (F!Next \/ UNCHANGED chainVars) => ChainInv'
  <1> SUFFICES ASSUME ChainInv, F!Next \/ UNCHANGED chainVars PROVE ChainInv'
    OBVIOUS
  <1>1. CASE UNCHANGED chainVars
    <2>1. UNCHANGED <<chainer, N, chain, ended, out, refused>>
      BY <1>1 DEF chainVars
    <2>2. (F!Line)' = F!Line
      BY <2>1 DEF F!Line
    <2>3. ChainTypes'
      BY <2>1 DEF ChainInv, ChainTypes
    <2>4. Flushed'
      BY <2>1 DEF ChainInv, Flushed
    <2>5. Numbers'
      BY <2>1, <2>2 DEF ChainInv, Numbers
    <2> QED BY <2>3, <2>4, <2>5 DEF ChainInv
  <1> QED BY <1>1, StepKeepsChain, FinishKeepsChain, OthersKeepChain DEF F!Next

LEMMA ChainIsRight == ChainInv => F!Inv
  <1> SUFFICES ASSUME ChainInv PROVE F!Inv
    OBVIOUS
  <1> USE ChainNames DEF ChainInv
  <1>1. F!TypeOK
    BY DEF ChainTypes, F!TypeOK
  <1>2. PICK d \in Nat : d = Len(chain) /\ d > 0
    BY DEF ChainTypes
  <1>3. N \in Nat /\ ended \in Nat
    BY DEF ChainTypes
  <1>4. /\ F!Line \in Seq(Nat) /\ Len(F!Line) = IF N < 1 THEN 2 ELSE N + 1
        /\ \A k \in 1 .. N : F!Line[k] = k
    BY <1>3, LineFacts
  <1>5. ASSUME NEW n \in Nat, n <= N
        PROVE Len(UpTo(n)) <= Len(F!Line) /\ UpTo(n) = SubSeq(F!Line, 1, n)
    <2>1. /\ UpTo(n) \in Seq(Nat) /\ Len(UpTo(n)) = n /\ \A k \in 1 .. n : UpTo(n)[k] = k
      BY UpToNext DEF UpTo
    <2>2. \A k \in 1 .. n : F!Line[k] = k /\ k \in Nat
      BY <1>3, <1>4, <1>5
    <2>3. /\ SubSeq(F!Line, 1, n) \in Seq(Nat) /\ Len(SubSeq(F!Line, 1, n)) = n
          /\ \A k \in 1 .. n : SubSeq(F!Line, 1, n)[k] = k
      BY <2>2, SubSeqProperties
    <2>4. UpTo(n) = SubSeq(F!Line, 1, n)
      BY <2>1, <2>3, SeqEqual
    <2> QED BY <1>3, <1>4, <1>5, <2>1, <2>4
  <1>6. ASSUME chainer = "inf11_1"
        PROVE /\ Len(out) <= Len(F!Line) /\ out = SubSeq(F!Line, 1, Len(out))
              /\ ended = d /\ ~refused => out = F!Line
    <2>1. CASE out = F!Line
      <3>1. Len(F!Line) \in Nat /\ Len(out) = Len(F!Line)
        BY <1>4, <2>1
      <3>2. F!Line = SubSeq(F!Line, 1, Len(F!Line))
        BY <1>4, SubSeqFull
      <3>3. Len(out) <= Len(F!Line)
        BY <3>1
      <3> QED BY <2>1, <3>2, <3>3, Zenon
    <2>2. ASSUME NEW n \in Nat, n <= N, out = UpTo(n)
          PROVE Len(out) <= Len(F!Line) /\ out = SubSeq(F!Line, 1, Len(out))
      BY <1>5, <2>2, UpToNext
    <2>3. CASE ended = 0 /\ d = 1
      <3>1. out = <<>> /\ Len(out) = 0 /\ SubSeq(F!Line, 1, 0) = <<>>
        BY <1>2, <1>6, <2>3, SubSeqEmpty DEF Numbers
      <3> QED BY <1>3, <1>4, <2>3, <3>1
    <2>4. CASE ended = 0 /\ d # 1
      BY <1>2, <1>6, <2>2, <2>4 DEF Numbers
    <2>5. CASE ended > 0 /\ refused
      <3>1. out = UpTo(d + 1) /\ d + 1 <= N /\ d + 1 \in Nat
        BY <1>2, <1>3, <1>6, <2>5 DEF Numbers
      <3> QED BY <2>2, <2>5, <3>1
    <2>6. CASE ended > 0 /\ ~refused
      BY <1>6, <2>1, <2>6 DEF Numbers
    <2>7. ended = 0 \/ ended > 0
      BY <1>3
    <2> QED BY <2>3, <2>4, <2>5, <2>6, <2>7, Zenon
  <1>7. chainer = "inf11_0" /\ ended = d => out = <<d>>
    BY <1>2 DEF Numbers
  <1> QED BY <1>1, <1>2, <1>6, <1>7 DEF F!Inv

-----------------------------------------------------------------------------
(***************************************************************************)
(* inf20-0.c: what a writer has written stays there, or a run that asks    *)
(* for less has cut it off.                                                *)
(***************************************************************************)
Wrote(w, x) ==
  \/ at[w] = "write" /\ x < j[w]
  \/ at[w] \in {"show", "post", "ended"} /\ x < asked[w]
CutOff(x) == \E q \in S!Runs : asked[q] <= x

ShareTypes ==
  /\ posts \in Nat \cup {-1} /\ size \in 0 .. MaxNumbers \cup {-1}
  /\ cells \in [S!Page -> 0 .. MaxNumbers] /\ asked \in [S!Runs -> 1 .. MaxNumbers]
  /\ j \in [S!Runs -> Nat] /\ shown \in [S!Runs -> Seq(Int)]
  /\ at \in [S!Runs -> {"semaphore", "memory", "resize", "write", "show", "post", "ended",
                        "wait", "unopened", "unmapped", "cut", "doomed", "killed"}]
  /\ \A r \in S!Runs :
       /\ j[r] < asked[r]
       /\ at[r] = "show" => Len(shown[r]) = j[r]
       /\ at[r] \notin {"show", "write"} => j[r] = 0
       /\ at[r] \notin {"show", "post", "ended"} => shown[r] = <<>>

WhatIsThere ==
  /\ \A k \in S!Page : cells[k] \in {0, k + 1}
  /\ \A w \in Writers : \A x \in S!Page : Wrote(w, x) => cells[x] = x + 1 \/ CutOff(x)

\* A reader gets past its wait when a writer has ended.
PostsComeLast ==
  /\ \A w \in Writers : at[w] # "semaphore" => posts # -1
  /\ posts > 0 \/ (\E r \in Readers : at[r] \in {"show", "ended"}) =>
       \E w \in Writers : at[w] = "ended"

ShareInv == ShareTypes /\ WhatIsThere /\ PostsComeLast /\ S!NumbersAreRight

LEMMA ShareNames ==
  /\ S!Runs = Writers \cup Readers /\ S!Page = 0 .. MaxNumbers - 1 /\ S!Absent = -1
  /\ MaxNumbers \in Nat \ {0} /\ Writers \cap Readers = {}
  /\ -1 \in Int /\ -1 # 0 /\ -1 < 0
  BY ProgramsAssumption DEF S!Runs, S!Page, S!Absent

LEMMA Turns ==
  ASSUME NEW n \in Nat \ {0}, NEW a \in 0 .. n - 1
  PROVE  (a + 1) % n = IF a + 1 = n THEN 0 ELSE a + 1
  <1>1. CASE a + 1 = n
    BY <1>1
  <1>2. CASE a + 1 < n
    BY <1>2
  <1> QED BY <1>1, <1>2

LEMMA ShareBegins == ShareOver \/ S!Init => ShareInv
  <1> SUFFICES ASSUME ShareOver \/ S!Init PROVE ShareInv
    OBVIOUS
  <1> USE ShareNames
  <1>1. CASE S!Init
    <2>1. ShareTypes
      BY <1>1 DEF S!Init, ShareTypes
    <2>2. WhatIsThere
      BY <1>1 DEF S!Init, WhatIsThere, Wrote
    <2>3. PostsComeLast
      BY <1>1 DEF S!Init, PostsComeLast
    <2>4. S!NumbersAreRight
      BY <1>1 DEF S!Init, S!NumbersAreRight
    <2> QED BY <2>1, <2>2, <2>3, <2>4 DEF ShareInv
  <1>2. CASE ShareOver
    <2>1. ShareTypes
      BY <1>2 DEF ShareOver, ShareTypes
    <2>2. WhatIsThere
      BY <1>2 DEF ShareOver, WhatIsThere, Wrote
    <2>3. PostsComeLast
      BY <1>2 DEF ShareOver, PostsComeLast
    <2>4. S!NumbersAreRight
      <3>1. \A r \in S!Runs : shown[r] = IF r \in Writers THEN <<1>> ELSE <<>>
        BY <1>2 DEF ShareOver
      <3>2. \A k \in DOMAIN <<1>> : k = 1
        OBVIOUS
      <3> QED BY <3>1, <3>2 DEF S!NumbersAreRight
    <2> QED BY <2>1, <2>2, <2>3, <2>4 DEF ShareInv
  <1> QED BY <1>1, <1>2

\* Steps in which no run that has written, waited or printed takes part.
LEMMA BeforeWriting ==
  ASSUME ShareInv, NEW r \in S!Runs, NEW here, NEW there, NEW C,
         S!From(r, here, there), UNCHANGED <<asked, j, shown>>,
         here \in {"semaphore", "memory", "resize", "wait", "unopened", "unmapped", "cut", "doomed"},
         there \in {"memory", "resize", "write", "wait", "unopened", "unmapped", "cut", "doomed", "killed"},
         posts' \in Nat \cup {-1}, posts' > 0 => posts > 0,
         \A w \in Writers : at'[w] # "semaphore" => posts' # -1,
         size' \in 0 .. MaxNumbers \cup {-1},
         cells' \in [S!Page -> 0 .. MaxNumbers],
         \A x \in S!Page : cells'[x] = cells[x] \/ (cells'[x] = 0 /\ CutOff(x))
  PROVE  ShareInv'
  <1> USE ShareNames DEF ShareInv
  <1>1. /\ at[r] = here /\ at' = [at EXCEPT ![r] = there] /\ asked' = asked /\ j' = j
        /\ shown' = shown
    BY DEF S!From
  <1>2. /\ at'[r] = there /\ \A q \in S!Runs : q # r => at'[q] = at[q]
        /\ at' \in [S!Runs -> {"semaphore", "memory", "resize", "write", "show", "post", "ended",
                               "wait", "unopened", "unmapped", "cut", "doomed", "killed"}]
    BY <1>1 DEF ShareTypes
  <1>3. j[r] = 0 /\ shown[r] = <<>>
    BY <1>1 DEF ShareTypes
  <1>4. ShareTypes'
    <2>1. asked' \in [S!Runs -> 1 .. MaxNumbers] /\ j' \in [S!Runs -> Nat]
          /\ shown' \in [S!Runs -> Seq(Int)]
      BY <1>1 DEF ShareTypes
    <2>2. ASSUME NEW q \in S!Runs
          PROVE /\ j'[q] < asked'[q]
                /\ at'[q] = "show" => Len(shown'[q]) = j'[q]
                /\ at'[q] \notin {"show", "write"} => j'[q] = 0
                /\ at'[q] \notin {"show", "post", "ended"} => shown'[q] = <<>>
      <3>1. CASE q = r
        BY <1>1, <1>2, <1>3, <3>1 DEF ShareTypes
      <3>2. CASE q # r
        BY <1>1, <1>2, <3>2 DEF ShareTypes
      <3> QED BY <3>1, <3>2
    <2> QED BY <1>2, <2>1, <2>2 DEF ShareTypes
  <1>5. WhatIsThere'
    <2>1. \A x \in S!Page : CutOff(x)' <=> CutOff(x)
      BY <1>1 DEF CutOff
    <2>2. \A k \in S!Page : cells'[k] \in {0, k + 1}
      BY DEF WhatIsThere
    <2>3. ASSUME NEW w \in Writers, NEW x \in S!Page, Wrote(w, x)' PROVE Wrote(w, x)
      <3>1. w # r
        BY <1>1, <1>2, <1>3, <2>3 DEF Wrote
      <3> QED BY <1>1, <1>2, <2>3, <3>1 DEF Wrote
    <2>4. \A w \in Writers : \A x \in S!Page : Wrote(w, x)' => cells'[x] = x + 1 \/ CutOff(x)'
      BY <2>1, <2>3 DEF WhatIsThere
    <2> QED BY <2>2, <2>4 DEF WhatIsThere
  <1>6. PostsComeLast'
    <2>1. ASSUME NEW q \in S!Runs, at'[q] \in {"show", "ended"} PROVE at[q] = at'[q]
      BY <1>2, <2>1
    <2>2. ASSUME NEW w \in Writers, at[w] = "ended" PROVE at'[w] = "ended"
      BY <1>1, <1>2, <2>2
    <2>3. posts' > 0 \/ (\E q \in Readers : at'[q] \in {"show", "ended"}) =>
            \E w \in Writers : at[w] = "ended"
      BY <2>1 DEF PostsComeLast
    <2> QED BY <2>2, <2>3 DEF PostsComeLast
  <1>7. (S!NumbersAreRight)'
    BY <1>1 DEF S!NumbersAreRight
  <1> QED BY <1>4, <1>5, <1>6, <1>7

LEMMA OpeningKeepsShare ==
  ASSUME ShareInv, NEW r \in S!Runs,
         \/ r \in Writers /\ (S!CreateSemaphore(r) \/ S!CreateMemory(r))
         \/ r \in Readers /\ (S!OpenSemaphore(r) \/ S!OpenMemory(r) \/ S!WaitForNothing(r))
  PROVE  ShareInv'
  <1> USE ShareNames DEF ShareInv
  <1>1. UNCHANGED <<asked, cells, j, shown>>
    BY DEF S!CreateSemaphore, S!CreateMemory, S!OpenSemaphore, S!OpenMemory, S!WaitForNothing
  <1>2. /\ cells' \in [S!Page -> 0 .. MaxNumbers]
        /\ \A x \in S!Page : cells'[x] = cells[x] \/ (cells'[x] = 0 /\ CutOff(x))
    BY <1>1 DEF ShareTypes
  <1>3. at \in [S!Runs -> {"semaphore", "memory", "resize", "write", "show", "post", "ended",
                           "wait", "unopened", "unmapped", "cut", "doomed", "killed"}]
    BY DEF ShareTypes
  <1>4. CASE r \in Writers /\ S!CreateSemaphore(r)
    <2>1. S!From(r, "semaphore", "memory") /\ size' = size /\ posts' = IF posts = -1 THEN 0 ELSE posts
      BY <1>4 DEF S!CreateSemaphore
    <2>2. posts' \in Nat /\ (posts' > 0 => posts > 0) /\ size' \in 0 .. MaxNumbers \cup {-1}
      BY <2>1 DEF ShareTypes
    <2>3. posts' # -1
      BY <2>2
    <2> QED BY <1>1, <1>2, <2>1, <2>2, <2>3, BeforeWriting
  <1>5. CASE r \in Writers /\ S!CreateMemory(r)
    <2>1. S!From(r, "memory", "resize") /\ size' = (IF size = -1 THEN 0 ELSE size) /\ posts' = posts
      BY <1>5 DEF S!CreateMemory
    <2>2. posts' \in Nat \cup {-1} /\ size' \in 0 .. MaxNumbers \cup {-1}
      BY <2>1 DEF ShareTypes
    <2>3. \A w \in Writers : at'[w] # "semaphore" => posts' # -1
      BY <1>3, <2>1 DEF PostsComeLast, S!From
    <2> QED BY <1>1, <1>2, <2>1, <2>2, <2>3, BeforeWriting
  <1>6. CASE r \in Readers /\ (S!OpenSemaphore(r) \/ S!OpenMemory(r) \/ S!WaitForNothing(r))
    <2>1. PICK here \in {"semaphore", "memory", "unopened", "unmapped", "doomed"},
               there \in {"memory", "unopened", "unmapped", "resize", "cut", "doomed", "killed"} :
            S!From(r, here, there)
      BY <1>6 DEF S!OpenSemaphore, S!OpenMemory, S!WaitForNothing
    <2>2. size' = size /\ (posts' = posts \/ (posts > 0 /\ posts' = posts - 1))
      BY <1>6 DEF S!OpenSemaphore, S!OpenMemory, S!WaitForNothing
    <2>3. posts' \in Nat \cup {-1} /\ (posts' > 0 => posts > 0) /\ (posts # -1 => posts' # -1)
          /\ size' \in 0 .. MaxNumbers \cup {-1}
      BY <2>2 DEF ShareTypes
    <2>4. \A w \in Writers : at'[w] = at[w]
      BY <1>3, <1>6, <2>1 DEF S!From
    <2>5. \A w \in Writers : at'[w] # "semaphore" => posts' # -1
      BY <2>3, <2>4 DEF PostsComeLast
    <2> QED BY <1>1, <1>2, <2>1, <2>3, <2>5, BeforeWriting
  <1> QED BY <1>4, <1>5, <1>6

LEMMA ResizeKeepsShare ==
  ASSUME ShareInv, NEW r \in S!Runs, NEW here \in {"resize", "cut"},
         NEW there \in {"write", "wait", "doomed"}, S!Resize(r, here, there)
  PROVE  ShareInv'
  <1> USE ShareNames DEF ShareInv
  <1>1. /\ S!From(r, here, there) /\ size' = asked[r] /\ posts' = posts
        /\ cells' = [k \in S!Page |-> IF k >= asked[r] /\ k < size THEN 0 ELSE cells[k]]
        /\ UNCHANGED <<asked, j, shown>>
    BY DEF S!Resize
  <1>2. posts' \in Nat \cup {-1} /\ size' \in 0 .. MaxNumbers \cup {-1}
        /\ cells' \in [S!Page -> 0 .. MaxNumbers]
    BY <1>1 DEF ShareTypes
  <1>3. \A x \in S!Page : cells'[x] = cells[x] \/ (cells'[x] = 0 /\ CutOff(x))
    <2>1. \A x \in S!Page : x >= asked[r] => CutOff(x)
      BY DEF CutOff, ShareTypes
    <2> QED BY <1>1, <2>1
  <1>4. \A w \in Writers : at'[w] # "semaphore" => posts' # -1
    BY <1>1 DEF ShareTypes, PostsComeLast, S!From
  <1> QED BY <1>1, <1>2, <1>3, <1>4, BeforeWriting

LEMMA WriteKeepsShare == ASSUME ShareInv, NEW w \in Writers, S!WriteCell(w) PROVE ShareInv'
  <1> USE ShareNames DEF ShareInv
  <1> DEFINE x == j[w] there == IF x + 1 = asked[w] THEN "show" ELSE "write"
             next == IF x + 1 = asked[w] THEN 0 ELSE x + 1
  <1>1. /\ w \in S!Runs /\ at[w] = "write" /\ x \in Nat /\ asked[w] \in 1 .. MaxNumbers
        /\ x < asked[w] /\ x \in S!Page /\ shown[w] = <<>>
    <2>1. w \in S!Runs /\ at[w] = "write"
      BY DEF S!WriteCell
    <2>2. x \in Nat /\ asked[w] \in 1 .. MaxNumbers /\ x < asked[w]
      BY <2>1 DEF ShareTypes
    <2>3. shown[w] = <<>>
      BY <2>1 DEF ShareTypes
    <2> QED BY <2>1, <2>2, <2>3
  <1>2. (x + 1) % asked[w] = next
    BY <1>1, Turns
  <1>3. /\ at' = [at EXCEPT ![w] = there] /\ j' = [j EXCEPT ![w] = next]
        /\ cells' = [cells EXCEPT ![x] = x + 1]
        /\ UNCHANGED <<asked, posts, size, shown>>
    BY <1>2 DEF S!WriteCell, ShareTypes
  <1>4. /\ at'[w] = there /\ j'[w] = next /\ cells'[x] = x + 1
        /\ \A q \in S!Runs : q # w => at'[q] = at[q] /\ j'[q] = j[q]
        /\ \A k \in S!Page : k # x => cells'[k] = cells[k]
    BY <1>1, <1>3 DEF ShareTypes
  <1>5. next \in Nat /\ next < asked[w] /\ (there = "show" => next = 0) /\ x + 1 \in 0 .. MaxNumbers
    BY <1>1
  <1>6. ShareTypes'
    <2>1. /\ at' \in [S!Runs -> {"semaphore", "memory", "resize", "write", "show", "post", "ended",
                                 "wait", "unopened", "unmapped", "cut", "doomed", "killed"}]
          /\ j' \in [S!Runs -> Nat] /\ cells' \in [S!Page -> 0 .. MaxNumbers]
      BY <1>3, <1>5 DEF ShareTypes
    <2>2. ASSUME NEW r \in S!Runs
          PROVE /\ j'[r] < asked'[r]
                /\ at'[r] = "show" => Len(shown'[r]) = j'[r]
                /\ at'[r] \notin {"show", "write"} => j'[r] = 0
                /\ at'[r] \notin {"show", "post", "ended"} => shown'[r] = <<>>
      <3>1. CASE r = w
        <4>1. Len(shown'[w]) = 0 /\ shown'[w] = <<>>
          BY <1>1, <1>3
        <4> QED BY <1>3, <1>4, <1>5, <3>1, <4>1
      <3>2. CASE r # w
        BY <1>3, <1>4, <3>2 DEF ShareTypes
      <3> QED BY <3>1, <3>2
    <2> QED BY <1>3, <2>1, <2>2 DEF ShareTypes
  <1> HIDE DEF next, there
  <1>7. WhatIsThere'
    <2>1. \A k \in S!Page : CutOff(k)' <=> CutOff(k)
      BY <1>3 DEF CutOff
    <2>2. \A k \in S!Page : cells'[k] \in {0, k + 1}
      BY <1>4 DEF WhatIsThere
    <2>3. ASSUME NEW v \in Writers, NEW k \in S!Page, Wrote(v, k)' PROVE Wrote(v, k) \/ k = x
      <3>1. CASE v = w
        BY <1>1, <1>3, <1>4, <2>3, <3>1 DEF Wrote, next, there
      <3>2. CASE v # w
        BY <1>3, <1>4, <2>3, <3>2 DEF Wrote
      <3> QED BY <3>1, <3>2
    <2>4. \A v \in Writers : \A k \in S!Page : Wrote(v, k)' => cells'[k] = k + 1 \/ CutOff(k)'
      BY <1>4, <2>1, <2>3 DEF WhatIsThere
    <2> QED BY <2>2, <2>4 DEF WhatIsThere
  <1>8. PostsComeLast'
    <2>1. \A r \in Readers : at'[r] = at[r]
      BY <1>4
    <2>2. \A v \in Writers : at[v] = "ended" => at'[v] = "ended"
      BY <1>1, <1>4
    <2>3. \A v \in Writers : at'[v] # "semaphore" => at[v] # "semaphore"
      BY <1>1, <1>4
    <2> QED BY <1>3, <2>1, <2>2, <2>3 DEF PostsComeLast
  <1>9. (S!NumbersAreRight)'
    BY <1>3 DEF S!NumbersAreRight
  <1> QED BY <1>6, <1>7, <1>8, <1>9

LEMMA ShowKeepsShare ==
  ASSUME ShareInv, NEW r \in S!Runs, NEW then, S!ShowCell(r, then),
         \/ r \in Writers /\ then = "post"
         \/ r \in Readers /\ then = "ended"
  PROVE  ShareInv'
  <1> USE ShareNames DEF ShareInv
  <1> DEFINE x == j[r] there == IF x + 1 = asked[r] THEN then ELSE "show"
             next == IF x + 1 = asked[r] THEN 0 ELSE x + 1
  <1>1. /\ at[r] = "show" /\ x \in Nat /\ asked[r] \in 1 .. MaxNumbers
        /\ x < asked[r] /\ x \in S!Page /\ Len(shown[r]) = x /\ shown[r] \in Seq(Int)
    BY DEF S!ShowCell, ShareTypes
  <1>2. (x + 1) % asked[r] = next
    BY SMTT(40), <1>1, Turns
  <1>3. /\ at' = [at EXCEPT ![r] = there] /\ j' = [j EXCEPT ![r] = next]
        /\ shown' = [shown EXCEPT ![r] = Append(shown[r], cells[x])]
        /\ UNCHANGED <<asked, posts, size, cells>>
    BY <1>2 DEF S!ShowCell, ShareTypes
  <1>4. cells[x] \in {0, x + 1} /\ cells[x] \in Int /\ (cells[x] = 0 => CutOff(x))
    <2>1. cells[x] \in {0, x + 1}
      BY <1>1 DEF WhatIsThere
    <2>2. CASE r \in Writers
      <3>1. Wrote(r, x)
        BY <1>1 DEF Wrote
      <3> QED BY <1>1, <2>1, <2>2, <3>1 DEF WhatIsThere
    <2>3. CASE r \in Readers
      <3>1. PICK w \in Writers : at[w] = "ended"
        BY <1>1, <2>3 DEF PostsComeLast
      <3>2. CASE x < asked[w]
        <4>1. Wrote(w, x)
          BY <3>1, <3>2 DEF Wrote
        <4> QED BY <1>1, <2>1, <4>1 DEF WhatIsThere
      <3>3. CASE asked[w] <= x
        BY <1>1, <2>1, <3>3 DEF CutOff
      <3> QED BY <1>1, <3>2, <3>3 DEF ShareTypes
    <2> QED BY <2>2, <2>3
  <1> DEFINE s == Append(shown[r], cells[x])
  <1>5. /\ s \in Seq(Int) /\ Len(s) = x + 1 /\ s[x + 1] = cells[x] /\ DOMAIN s = 1 .. x + 1
        /\ DOMAIN shown[r] = 1 .. x /\ \A k \in 1 .. x : s[k] = shown[r][k]
    BY <1>1, <1>4, AppendProperties
  <1> HIDE DEF s
  <1>6. /\ at'[r] = there /\ j'[r] = next /\ shown'[r] = s
        /\ \A q \in S!Runs : q # r => at'[q] = at[q] /\ j'[q] = j[q] /\ shown'[q] = shown[q]
    BY <1>1, <1>3 DEF ShareTypes, s
  <1>7. /\ next \in Nat /\ next < asked[r] /\ (there = "show" => next = x + 1)
        /\ (there # "show" => next = 0) /\ there \in {"show", then}
    BY <1>1
  <1> HIDE DEF next, there
  <1>8. ShareTypes'
    <2>1. /\ at' \in [S!Runs -> {"semaphore", "memory", "resize", "write", "show", "post", "ended",
                                 "wait", "unopened", "unmapped", "cut", "doomed", "killed"}]
          /\ j' \in [S!Runs -> Nat] /\ shown' \in [S!Runs -> Seq(Int)]
      BY <1>3, <1>5, <1>7 DEF ShareTypes, s
    <2>2. ASSUME NEW q \in S!Runs
          PROVE /\ j'[q] < asked'[q]
                /\ at'[q] = "show" => Len(shown'[q]) = j'[q]
                /\ at'[q] \notin {"show", "write"} => j'[q] = 0
                /\ at'[q] \notin {"show", "post", "ended"} => shown'[q] = <<>>
      <3>1. CASE q = r
        BY <1>3, <1>5, <1>6, <1>7, <3>1
      <3>2. CASE q # r
        BY <1>3, <1>6, <3>2 DEF ShareTypes
      <3> QED BY <3>1, <3>2
    <2> QED BY <1>3, <2>1, <2>2 DEF ShareTypes
  <1>9. WhatIsThere'
    <2>1. \A k \in S!Page : CutOff(k)' <=> CutOff(k)
      BY <1>3 DEF CutOff
    <2>2. ASSUME NEW v \in Writers, NEW k \in S!Page, Wrote(v, k)' PROVE Wrote(v, k)
      BY <1>1, <1>3, <1>6, <1>7, <2>2 DEF Wrote
    <2> QED BY <1>3, <2>1, <2>2 DEF WhatIsThere
  <1>10. PostsComeLast'
    <2>1. ASSUME NEW q \in Readers, at'[q] \in {"show", "ended"} PROVE at[q] \in {"show", "ended"}
      BY <1>1, <1>6, <2>1
    <2>2. \A v \in Writers : at[v] = "ended" => at'[v] = "ended"
      BY <1>1, <1>6
    <2>3. \A v \in Writers : at'[v] # "semaphore" => at[v] # "semaphore"
      BY <1>1, <1>6
    <2> QED BY <1>3, <2>1, <2>2, <2>3 DEF PostsComeLast
  <1>11. (S!NumbersAreRight)'
    <2> SUFFICES ASSUME NEW q \in S!Runs, NEW k \in DOMAIN shown'[q]
        PROVE \/ shown'[q][k] = k
              \/ shown'[q][k] = 0 /\ \E v \in S!Runs : asked[v] < k
      BY <1>3 DEF S!NumbersAreRight
    <2>1. CASE q # r \/ k # x + 1
      <3>1. CASE q # r
        BY <1>6, <3>1 DEF S!NumbersAreRight
      <3>2. CASE q = r
        <4>1. shown'[q] = s /\ k \in 1 .. x + 1 /\ k # x + 1
          BY <1>5, <1>6, <2>1, <3>2
        <4>2. k \in 1 .. x
          BY <1>1, <4>1
        <4>3. k \in DOMAIN shown[q] /\ shown'[q][k] = shown[q][k]
          BY <1>5, <3>2, <4>1, <4>2
        <4> QED BY <4>3 DEF S!NumbersAreRight
      <3> QED BY <3>1, <3>2
    <2>2. CASE q = r /\ k = x + 1
      <3>1. shown'[q][k] = cells[x]
        BY <1>5, <1>6, <2>2
      <3>2. CutOff(x) => \E v \in S!Runs : asked[v] < k
        BY <1>1, <2>2 DEF CutOff, ShareTypes
      <3> QED BY <1>4, <2>2, <3>1, <3>2
    <2> QED BY <2>1, <2>2
  <1> QED BY <1>8, <1>9, <1>10, <1>11

LEMMA SemaphoreKeepsShare ==
  ASSUME ShareInv, NEW r \in S!Runs,
         \/ r \in Writers /\ S!Post(r)
         \/ r \in Readers /\ S!Wait(r)
  PROVE  ShareInv'
  <1> USE ShareNames DEF ShareInv
  <1> DEFINE there == IF r \in Writers THEN "ended" ELSE "show"
  <1>1. /\ at' = [at EXCEPT ![r] = there] /\ UNCHANGED <<asked, size, cells, j, shown>>
        /\ at[r] = IF r \in Writers THEN "post" ELSE "wait"
        /\ posts' = IF r \in Writers THEN posts + 1 ELSE posts - 1
        /\ r \in Readers => posts > 0
    BY DEF S!Post, S!Wait, S!From
  <1>2. posts' \in Nat /\ posts' # -1 /\ posts \in Int
    <2>1. r \in Writers => posts # -1
      BY <1>1 DEF PostsComeLast
    <2>2. posts \in Nat \cup {-1}
      BY DEF ShareTypes
    <2> QED BY <1>1, <2>1, <2>2
  <1>3. at'[r] = there /\ \A q \in S!Runs : q # r => at'[q] = at[q]
    BY <1>1 DEF ShareTypes
  <1>4. ShareTypes'
    <2>1. at' \in [S!Runs -> {"semaphore", "memory", "resize", "write", "show", "post", "ended",
                              "wait", "unopened", "unmapped", "cut", "doomed", "killed"}]
      BY <1>1 DEF ShareTypes
    <2>2. j[r] = 0 /\ (r \in Readers => shown[r] = <<>> /\ Len(shown[r]) = 0)
      BY <1>1 DEF ShareTypes
    <2>3. ASSUME NEW q \in S!Runs
          PROVE /\ j'[q] < asked'[q]
                /\ at'[q] = "show" => Len(shown'[q]) = j'[q]
                /\ at'[q] \notin {"show", "write"} => j'[q] = 0
                /\ at'[q] \notin {"show", "post", "ended"} => shown'[q] = <<>>
      <3>1. CASE q = r
        BY <1>1, <1>3, <2>2, <3>1 DEF ShareTypes
      <3>2. CASE q # r
        BY <1>1, <1>3, <3>2 DEF ShareTypes
      <3> QED BY <3>1, <3>2
    <2> QED BY <1>1, <1>2, <2>1, <2>3 DEF ShareTypes
  <1>5. WhatIsThere'
    <2>1. \A k \in S!Page : CutOff(k)' <=> CutOff(k)
      BY <1>1 DEF CutOff
    <2>2. ASSUME NEW v \in Writers, NEW k \in S!Page, Wrote(v, k)' PROVE Wrote(v, k)
      BY <1>1, <1>3, <2>2 DEF Wrote
    <2> QED BY <1>1, <2>1, <2>2 DEF WhatIsThere
  <1>6. PostsComeLast'
    <2>1. \E w \in Writers : at'[w] = "ended"
      <3>1. CASE r \in Writers
        BY <1>3, <3>1
      <3>2. CASE r \in Readers
        <4>1. PICK w \in Writers : at[w] = "ended"
          BY <1>1, <3>2 DEF PostsComeLast
        <4>2. w # r /\ w \in S!Runs
          BY <3>2
        <4> QED BY <1>3, <4>1, <4>2
      <3> QED BY <3>1, <3>2
    <2> QED BY <1>2, <2>1 DEF PostsComeLast
  <1>7. (S!NumbersAreRight)'
    BY <1>1 DEF S!NumbersAreRight
  <1> QED BY <1>4, <1>5, <1>6, <1>7

LEMMA ShareGoesOn == ShareInv /\ (S!Next \/ UNCHANGED shareVars) => ShareInv'
  <1> SUFFICES ASSUME ShareInv, S!Next \/ UNCHANGED shareVars PROVE ShareInv'
    OBVIOUS
  <1>1. CASE UNCHANGED shareVars
    <2>1. UNCHANGED <<asked, posts, size, cells, at, j, shown>>
      BY <1>1 DEF shareVars
    <2>2. ShareTypes'
      BY <2>1 DEF ShareInv, ShareTypes
    <2>3. WhatIsThere'
      BY <2>1 DEF ShareInv, WhatIsThere, Wrote, CutOff
    <2>4. PostsComeLast' /\ (S!NumbersAreRight)'
      BY <2>1 DEF ShareInv, PostsComeLast, S!NumbersAreRight
    <2> QED BY <2>2, <2>3, <2>4 DEF ShareInv
  <1>2. CASE \E w \in Writers : S!Writer(w)
    <2>1. PICK w \in Writers : S!Writer(w)
      BY <1>2
    <2>2. w \in S!Runs
      BY ShareNames
    <2> QED BY <2>1, <2>2, OpeningKeepsShare, ResizeKeepsShare, WriteKeepsShare, ShowKeepsShare,
               SemaphoreKeepsShare DEF S!Writer
  <1>3. CASE \E r \in Readers : S!Reader(r)
    <2>1. PICK r \in Readers : S!Reader(r)
      BY <1>3
    <2>2. r \in S!Runs
      BY ShareNames
    <2> QED BY <2>1, <2>2, OpeningKeepsShare, ResizeKeepsShare, ShowKeepsShare,
               SemaphoreKeepsShare DEF S!Reader
  <1> QED BY <1>1, <1>2, <1>3 DEF S!Next

LEMMA ShareIsRight == ShareInv => S!Inv
  <1> SUFFICES ASSUME ShareInv PROVE S!Inv
    OBVIOUS
  <1>1. S!TypeOK
    <2>1. \A r \in S!Runs : j[r] \in S!Page
      BY ShareNames DEF ShareInv, ShareTypes
    <2> QED BY <2>1, ShareNames DEF ShareInv, ShareTypes, S!TypeOK
  <1> QED BY <1>1 DEF ShareInv, S!Inv

-----------------------------------------------------------------------------
(***************************************************************************)
(* The five programs together: while one of them runs, the variables of    *)
(* the others stand still.                                                 *)
(***************************************************************************)
AllInv ==
  /\ chosen = "map" => MapTypes /\ MapInv
  /\ GameInv /\ InputInv /\ ChainInv /\ ShareInv

LEMMA AllBegins == AllInit => AllInv
  BY MapTypesBegin, MapInvInit, GameBegins, InputBegins, ChainBegins, ShareBegins
     DEF AllInit, AllInv

LEMMA AllGoesOn == AllInv /\ [AllNext]_allVars => AllInv'
  <1> SUFFICES ASSUME AllInv, [AllNext]_allVars PROVE AllInv'
    OBVIOUS
  <1>1. /\ chosen' = chosen
        /\ (chosen = "map" /\ Next) \/ UNCHANGED vars
        /\ G!Next \/ UNCHANGED gameVars
        /\ T!Next \/ UNCHANGED inputVars
        /\ F!Next \/ UNCHANGED chainVars
        /\ S!Next \/ UNCHANGED shareVars
    BY DEF AllNext, allVars, ButMap
  <1>2. ASSUME chosen' = "map" PROVE (MapTypes /\ MapInv)'
    <2>1. MapTypes /\ MapInv
      BY <1>1, <1>2 DEF AllInv
    <2> QED BY <1>1, <2>1, MapTypesStay, MapInvInductive
  <1>3. GameInv' /\ InputInv'
    BY <1>1, GameGoesOn, InputGoesOn DEF AllInv
  <1>4. ChainInv' /\ ShareInv'
    BY <1>1, ChainGoesOn, ShareGoesOn DEF AllInv
  <1> QED BY <1>2, <1>3, <1>4 DEF AllInv

\* For every number of processors, every array and every build, every input and
\* number of threads, every length of the chain and limit of the processes, and any
\* number of writers and readers: no cell is computed twice, the two players count as
\* they should, the sum and the chain of threads lose and repeat nothing, the chain of
\* processes prints its numbers in their order, and a reader prints what has been
\* written or what a cut of the memory has left (inf20-1.c, inf18-2.c, inf18-1.c,
\* inf18-0.c, inf11-0.c, inf11-1.c, inf20-0.c).
THEOREM ProgramsPrintWhatTheyShould == AllSpec => []OutputIsRight
  <1>1. AllInv => OutputIsRight
    BY MapIsRight, GameIsRight, InputIsRight, ChainIsRight, ShareIsRight
       DEF AllInv, OutputIsRight
  <1> QED BY <1>1, AllBegins, AllGoesOn, PTL DEF AllSpec
=============================================================================
