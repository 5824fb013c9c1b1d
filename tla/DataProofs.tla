----------------------------- MODULE DataProofs -----------------------------
(***************************************************************************)
(* Facts about data that the other proofs rest on: extremes of finite sets *)
(* of integers, induction over the naturals, and what the operators on the *)
(* FIFO of a level return, whatever orders it holds.                       *)
(***************************************************************************)
EXTENDS PriceTime, SequenceTheorems, FiniteSetTheorems, TLAPS

-----------------------------------------------------------------------------
(* Extremes of finite sets of integers                                     *)

\* A finite non-empty set of integers has a greatest element.  The proof is by
\* induction over the finite set: a minimal subset without one does not exist.
LEMMA GreatestExists ==
  ASSUME NEW S \in SUBSET Int, IsFiniteSet(S), S # {}
  PROVE  \E m \in S : \A y \in S : m >= y
<1> DEFINE HasMax(A) == \E m \in A : \A y \in A : m >= y
           Bad == {A \in FiniteSubsetsOf(S) : A # {} /\ ~HasMax(A)}
<1>1. SUFFICES ASSUME Bad # {} PROVE FALSE
  <2>1. S \in FiniteSubsetsOf(S)
    BY DEF FiniteSubsetsOf
  <2> QED BY <2>1
<1>2. PICK A \in Bad : \A B \in Bad : <<B, A>> \notin StrictSubsetOrdering(S)
  <2>1. IsWellFoundedOn(StrictSubsetOrdering(S), FiniteSubsetsOf(S))
    BY FS_StrictSubsetOrderingWellFounded
  <2>2. Bad \subseteq FiniteSubsetsOf(S)
    OBVIOUS
  <2> HIDE DEF Bad
  <2> QED BY <2>1, <2>2, <1>1, WFMin
<1>3. PICK x \in A : TRUE
  OBVIOUS
<1> DEFINE B == A \ {x}
<1>4. /\ B \in FiniteSubsetsOf(S)
      /\ <<B, A>> \in StrictSubsetOrdering(S)
  <2>1. IsFiniteSet(A) /\ A \subseteq S
    BY DEF FiniteSubsetsOf
  <2>2. IsFiniteSet(B)
    BY <2>1, FS_RemoveElement
  <2> QED BY <2>1, <2>2, <1>3 DEF FiniteSubsetsOf, StrictSubsetOrdering
<1>5. B = {} \/ HasMax(B)
  BY <1>2, <1>4
<1>6. A \subseteq Int
  BY DEF FiniteSubsetsOf
<1>7. HasMax(A)
  <2>1. CASE B = {}
    BY <2>1, <1>3, <1>6
  <2>2. CASE HasMax(B)
    <3>1. PICK m \in B : \A y \in B : m >= y
      BY <2>2
    <3>2. CASE m >= x
      BY <3>1, <3>2, <1>3
    <3>3. CASE ~(m >= x)
      <4>1. \A y \in A : x >= y
        BY <3>1, <3>3, <1>3, <1>6
      <4> QED BY <4>1, <1>3
    <3> QED BY <3>2, <3>3
  <2> QED BY <2>1, <2>2, <1>5
<1> QED BY <1>2, <1>7

\* And a least one, by reflection.
LEMMA LeastExists ==
  ASSUME NEW S \in SUBSET Int, IsFiniteSet(S), S # {}
  PROVE  \E m \in S : \A y \in S : m <= y
<1> DEFINE T == {-x : x \in S}
<1>1. IsFiniteSet(T)
  <2> DEFINE f == [x \in S |-> -x]
  <2>1. f \in Surjection(S, T)
    BY DEF Surjection
  <2> QED BY <2>1, FS_Surjection
<1>2. T \subseteq Int /\ T # {}
  OBVIOUS
<1>3. PICK t \in T : \A y \in T : t >= y
  BY <1>1, <1>2, GreatestExists
<1>4. PICK m \in S : t = -m
  BY <1>3
<1>5. \A y \in S : m <= y
  <2> TAKE y \in S
  <2>1. -y \in T
    OBVIOUS
  <2>2. t >= -y
    BY <2>1, <1>3
  <2> QED BY <2>2, <1>4
<1> QED BY <1>5

LEMMA MaxIsGreatest ==
  ASSUME NEW S \in SUBSET Int, IsFiniteSet(S), S # {}
  PROVE  Max(S) \in S /\ \A y \in S : y <= Max(S)
<1>1. \E m \in S : \A y \in S : m >= y
  BY GreatestExists
<1>2. Max(S) \in S /\ \A y \in S : Max(S) >= y
  BY <1>1 DEF Max
<1> QED BY <1>2

LEMMA MinIsLeast ==
  ASSUME NEW S \in SUBSET Int, IsFiniteSet(S), S # {}
  PROVE  Min(S) \in S /\ \A y \in S : Min(S) <= y
<1>1. \E m \in S : \A y \in S : m =< y
  BY LeastExists
<1> QED BY <1>1 DEF Min

-----------------------------------------------------------------------------
(* Induction over the naturals, as a fact about sets: what is true of zero *)
(* and passes from each natural to the next holds of all of them.          *)

LEMMA LeastNatural ==
  ASSUME NEW S \in SUBSET Nat, S # {}
  PROVE  \E m \in S : \A y \in S : m <= y
<1>1. PICK n \in S : TRUE
  OBVIOUS
<1> DEFINE T == S \cap (0 .. n)
<1>2. IsFiniteSet(0 .. n)
  BY FS_Interval
<1>3. IsFiniteSet(T)
  BY <1>2, FS_Subset
<1>4. T \in SUBSET Int /\ T # {}
  BY <1>1
<1>5. PICK m \in T : \A y \in T : m <= y
  BY <1>3, <1>4, LeastExists
<1>6. \A y \in S : m <= y
  <2> TAKE y \in S
  <2>1. CASE y <= n
    BY <2>1, <1>5
  <2>2. CASE ~(y <= n)
    BY <2>2, <1>1, <1>5
  <2> QED BY <2>1, <2>2
<1> QED BY <1>5, <1>6

LEMMA NaturalsInducted ==
  ASSUME NEW S, 0 \in S, \A n \in Nat : n \in S => n + 1 \in S
  PROVE  Nat \subseteq S
<1> DEFINE Rest == Nat \ S
<1>1. SUFFICES ASSUME Rest # {} PROVE FALSE
  OBVIOUS
<1>2. PICK m \in Rest : \A y \in Rest : m <= y
  BY <1>1, LeastNatural
<1>3. m \in Nat /\ m # 0
  OBVIOUS
<1>4. m - 1 \in Nat /\ (m - 1) + 1 = m
  BY <1>3
<1>5. m - 1 \in S
  BY <1>2, <1>4
<1> QED BY <1>4, <1>5

-----------------------------------------------------------------------------
(* A function that is stepped from a start: there is one, on any number of *)
(* places, when no step leaves the set it starts in.                       *)

Iterates(g, start, step, n) ==
  g = [k \in 0 .. n |-> IF k = 0 THEN start ELSE step[g[k-1]]]

LEMMA IterationExists ==
  ASSUME NEW X, NEW start \in X, NEW step \in [X -> X], NEW n \in Nat
  PROVE  \E g \in [0 .. n -> X] : Iterates(g, start, step, n)
<1> DEFINE Steps(g, m) == \A k \in 0 .. m : g[k] = IF k = 0 THEN start ELSE step[g[k-1]]
           S == {m \in Nat : \E g \in [0 .. m -> X] : Steps(g, m)}
<1>1. 0 \in S
  <2> DEFINE g == [k \in 0 .. 0 |-> start]
  <2>1. g \in [0 .. 0 -> X] /\ Steps(g, 0)
    OBVIOUS
  <2> QED BY <2>1
<1>2. ASSUME NEW m \in Nat, m \in S PROVE m + 1 \in S
  <2>1. PICK g \in [0 .. m -> X] : Steps(g, m)
    BY <1>2
  <2> DEFINE h == [k \in 0 .. m + 1 |-> IF k = m + 1 THEN step[g[m]] ELSE g[k]]
  <2>2. g[m] \in X
    BY <2>1
  <2>3. h \in [0 .. m + 1 -> X]
    BY <2>1, <2>2
  <2>4. ASSUME NEW k \in 0 .. m + 1
        PROVE  h[k] = IF k = 0 THEN start ELSE step[h[k-1]]
    <3>1. CASE k = m + 1
      <4>1. k # 0 /\ k - 1 = m /\ m \in 0 .. m + 1 /\ m # m + 1
        BY <3>1
      <4>2. h[k] = step[g[m]] /\ h[m] = g[m]
        BY <3>1, <4>1
      <4> QED BY <4>1, <4>2
    <3>2. CASE k # m + 1
      <4>1. k \in 0 .. m
        BY <3>2
      <4>2. g[k] = IF k = 0 THEN start ELSE step[g[k-1]]
        BY <2>1, <4>1
      <4>3. h[k] = g[k]
        BY <4>1
      <4>4. k # 0 => h[k-1] = g[k-1]
        <5> SUFFICES ASSUME k # 0 PROVE h[k-1] = g[k-1]
          OBVIOUS
        <5>1. k - 1 \in 0 .. m + 1 /\ k - 1 # m + 1
          BY <4>1
        <5> QED BY <5>1
      <4> HIDE DEF h
      <4> QED BY <4>2, <4>3, <4>4
    <3> QED BY <3>1, <3>2
  <2> HIDE DEF h
  <2> QED BY <2>3, <2>4
<1>3. n \in S
  <2> HIDE DEF S
  <2>1. Nat \subseteq S
    BY <1>1, <1>2, NaturalsInducted
  <2> QED BY <2>1
<1>4. PICK g \in [0 .. n -> X] : Steps(g, n)
  BY <1>3
<1>5. g = [k \in 0 .. n |-> IF k = 0 THEN start ELSE step[g[k-1]]]
  BY <1>4
<1> QED BY <1>5 DEF Iterates

-----------------------------------------------------------------------------
(* Quantities of a FIFO.  The sum over its first places is defined by      *)
(* recursion; these are the equations of it, and the sum after each of the *)
(* changes an order book makes to a FIFO.                                  *)

SumUpTo(g, fifo, n) ==
  g = [k \in 0 .. n |-> IF k = 0 THEN 0 ELSE g[k-1] + fifo[k].qty]

Quantified(fifo, n) == \A i \in 1 .. n : fifo[i].qty \in Nat

LEMMA QtyOfFirstIsSum ==
  ASSUME NEW fifo, NEW n
  PROVE  QtyOfFirst(fifo, n) = (CHOOSE g : SumUpTo(g, fifo, n))[n]
BY DEF QtyOfFirst, SumUpTo

\* There is such a function, however long the FIFO.
LEMMA SumExists ==
  ASSUME NEW fifo, NEW n \in Nat, Quantified(fifo, n)
  PROVE  \E g \in [0 .. n -> Nat] : SumUpTo(g, fifo, n)
<1> DEFINE S == {m \in Nat : m <= n => \E g \in [0 .. m -> Nat] : SumUpTo(g, fifo, m)}
<1>1. 0 \in S
  <2> DEFINE g == [k \in 0 .. 0 |-> 0]
  <2>1. g \in [0 .. 0 -> Nat] /\ SumUpTo(g, fifo, 0)
    BY DEF SumUpTo
  <2> QED BY <2>1
<1>2. ASSUME NEW m \in Nat, m \in S PROVE m + 1 \in S
  <2>1. SUFFICES ASSUME m + 1 <= n
                 PROVE  \E g \in [0 .. m + 1 -> Nat] : SumUpTo(g, fifo, m + 1)
    OBVIOUS
  <2>2. PICK g \in [0 .. m -> Nat] : SumUpTo(g, fifo, m)
    BY <1>2, <2>1
  <2> DEFINE h == [k \in 0 .. m + 1 |-> IF k = m + 1 THEN g[m] + fifo[m + 1].qty ELSE g[k]]
  <2>3. fifo[m + 1].qty \in Nat
    BY <2>1 DEF Quantified
  <2>4. h \in [0 .. m + 1 -> Nat]
    BY <2>2, <2>3
  <2>5. ASSUME NEW k \in 0 .. m + 1
        PROVE  h[k] = IF k = 0 THEN 0 ELSE h[k-1] + fifo[k].qty
    <3>1. CASE k = m + 1
      BY <3>1
    <3>2. CASE k \in 0 .. m
      <4>1. g[k] = IF k = 0 THEN 0 ELSE g[k-1] + fifo[k].qty
        BY <2>2, <3>2 DEF SumUpTo
      <4> QED BY <3>2, <4>1
    <3> QED BY <3>1, <3>2
  <2>6. SumUpTo(h, fifo, m + 1)
    BY <2>5 DEF SumUpTo
  <2> QED BY <2>4, <2>6
<1> HIDE DEF S
<1>3. Nat \subseteq S
  BY <1>1, <1>2, NaturalsInducted
<1> QED BY <1>3 DEF S

\* And only one on the places both reach.
LEMMA SumUnique ==
  ASSUME NEW fifo, NEW n \in Nat, NEW m \in 0 .. n,
         NEW g, SumUpTo(g, fifo, n), NEW h, SumUpTo(h, fifo, m)
  PROVE  h[m] = g[m]
<1> DEFINE S == {k \in Nat : k <= m => h[k] = g[k]}
<1>1. 0 \in S
  BY DEF SumUpTo
<1>2. ASSUME NEW k \in Nat, k \in S PROVE k + 1 \in S
  <2>1. SUFFICES ASSUME k + 1 <= m PROVE h[k + 1] = g[k + 1]
    OBVIOUS
  <2>2. k + 1 \in 0 .. m /\ k + 1 \in 0 .. n /\ k + 1 # 0 /\ (k + 1) - 1 = k
    BY <2>1
  <2>3. h[k + 1] = h[(k + 1) - 1] + fifo[k + 1].qty
    BY <2>2 DEF SumUpTo
  <2>4. g[k + 1] = g[(k + 1) - 1] + fifo[k + 1].qty
    BY <2>2 DEF SumUpTo
  <2>5. h[k] = g[k]
    BY <1>2, <2>1
  <2> QED BY <2>2, <2>3, <2>4, <2>5
<1> HIDE DEF S
<1>3. Nat \subseteq S
  BY <1>1, <1>2, NaturalsInducted
<1> QED BY <1>3 DEF S

LEMMA SumOfNone == ASSUME NEW fifo PROVE QtyOfFirst(fifo, 0) = 0
<1>1. Quantified(fifo, 0)
  BY DEF Quantified
<1>2. PICK g \in [0 .. 0 -> Nat] : SumUpTo(g, fifo, 0)
  BY <1>1, SumExists
<1>3. SumUpTo(CHOOSE h : SumUpTo(h, fifo, 0), fifo, 0)
  BY <1>2
<1> QED BY <1>3, QtyOfFirstIsSum DEF SumUpTo

LEMMA SumIsNat ==
  ASSUME NEW fifo, NEW n \in Nat, Quantified(fifo, n)
  PROVE  QtyOfFirst(fifo, n) \in Nat
<1>1. PICK g \in [0 .. n -> Nat] : SumUpTo(g, fifo, n)
  BY SumExists
<1>2. SumUpTo(CHOOSE h : SumUpTo(h, fifo, n), fifo, n)
  BY <1>1
<1>3. (CHOOSE h : SumUpTo(h, fifo, n))[n] = g[n]
  BY <1>1, <1>2, SumUnique
<1> QED BY <1>1, <1>3, QtyOfFirstIsSum

LEMMA SumOfNext ==
  ASSUME NEW fifo, NEW n \in Nat, Quantified(fifo, n + 1)
  PROVE  QtyOfFirst(fifo, n + 1) = QtyOfFirst(fifo, n) + fifo[n + 1].qty
<1>1. Quantified(fifo, n)
  BY DEF Quantified
<1>2. PICK g \in [0 .. n + 1 -> Nat] : SumUpTo(g, fifo, n + 1)
  BY SumExists
<1>3. \E h : SumUpTo(h, fifo, n)
  BY <1>1, SumExists
<1>4. SumUpTo(CHOOSE h : SumUpTo(h, fifo, n), fifo, n)
  BY <1>3
<1>5. SumUpTo(CHOOSE h : SumUpTo(h, fifo, n + 1), fifo, n + 1)
  BY <1>2
<1>6. QtyOfFirst(fifo, n + 1) = g[n + 1]
  BY <1>2, <1>5, SumUnique, QtyOfFirstIsSum
<1>7. QtyOfFirst(fifo, n) = g[n]
  BY <1>2, <1>4, SumUnique, QtyOfFirstIsSum
<1>8. g[n + 1] = g[(n + 1) - 1] + fifo[n + 1].qty
  BY <1>2 DEF SumUpTo
<1> QED BY <1>6, <1>7, <1>8

\* The sum of two FIFOs of which each place holds the same, up to a shift.  Every
\* change of a FIFO leaves a part of it as it was and moves the rest by one.
LEMMA SumOfSame ==
  ASSUME NEW f, NEW h, NEW n \in Nat, Quantified(f, n),
         \A i \in 1 .. n : h[i].qty = f[i].qty
  PROVE  QtyOfFirst(h, n) = QtyOfFirst(f, n)
<1> DEFINE S == {k \in Nat : k <= n => QtyOfFirst(h, k) = QtyOfFirst(f, k)}
<1>1. 0 \in S
  BY SumOfNone
<1>2. ASSUME NEW k \in Nat, k \in S PROVE k + 1 \in S
  <2>1. SUFFICES ASSUME k + 1 <= n
                 PROVE  QtyOfFirst(h, k + 1) = QtyOfFirst(f, k + 1)
    OBVIOUS
  <2>2. Quantified(f, k + 1) /\ Quantified(h, k + 1)
    BY <2>1 DEF Quantified
  <2>3. /\ QtyOfFirst(f, k + 1) = QtyOfFirst(f, k) + f[k + 1].qty
        /\ QtyOfFirst(h, k + 1) = QtyOfFirst(h, k) + h[k + 1].qty
    BY <2>2, SumOfNext
  <2>4. h[k + 1].qty = f[k + 1].qty
    BY <2>1
  <2> QED BY <1>2, <2>1, <2>3, <2>4
<1> HIDE DEF S
<1>3. Nat \subseteq S
  BY <1>1, <1>2, NaturalsInducted
<1> QED BY <1>3 DEF S

LEMMA SumOfShifted ==
  ASSUME NEW f, NEW h, NEW from \in Nat, NEW to \in Nat, from <= to, Quantified(f, to + 1),
         Quantified(h, from),
         \A i \in from + 1 .. to : h[i].qty = f[i + 1].qty
  PROVE  QtyOfFirst(h, to) - QtyOfFirst(h, from) =
         QtyOfFirst(f, to + 1) - QtyOfFirst(f, from + 1)
<1> DEFINE S == {k \in Nat : from + k <= to =>
                   /\ Quantified(h, from + k)
                   /\ QtyOfFirst(h, from + k) - QtyOfFirst(h, from) =
                        QtyOfFirst(f, from + k + 1) - QtyOfFirst(f, from + 1)}
<1>0. QtyOfFirst(f, from + 1) \in Nat /\ QtyOfFirst(h, from) \in Nat
  <2>1. Quantified(f, from + 1)
    BY DEF Quantified
  <2> QED BY <2>1, SumIsNat
<1>1. 0 \in S
  BY <1>0
<1>2. ASSUME NEW k \in Nat, k \in S PROVE k + 1 \in S
  <2>1. SUFFICES ASSUME from + (k + 1) <= to
                 PROVE  /\ Quantified(h, from + (k + 1))
                        /\ QtyOfFirst(h, from + (k + 1)) - QtyOfFirst(h, from) =
                             QtyOfFirst(f, from + (k + 1) + 1) - QtyOfFirst(f, from + 1)
    OBVIOUS
  <2> DEFINE m == from + k
  <2>2. m \in Nat /\ from + (k + 1) = m + 1 /\ m + 1 \in from + 1 .. to
    BY <2>1
  <2>3. /\ Quantified(h, m)
        /\ QtyOfFirst(h, m) - QtyOfFirst(h, from) =
             QtyOfFirst(f, m + 1) - QtyOfFirst(f, from + 1)
    BY <1>2, <2>1
  <2>4. h[m + 1].qty = f[(m + 1) + 1].qty
    BY <2>2
  <2> HIDE DEF m
  <2>5. Quantified(f, (m + 1) + 1) /\ Quantified(f, m + 1)
    BY <2>2 DEF Quantified
  <2>6. h[m + 1].qty \in Nat
    BY <2>4, <2>5, <2>2 DEF Quantified
  <2>7. Quantified(h, m + 1)
    BY <2>2, <2>3, <2>6 DEF Quantified
  <2>8. QtyOfFirst(h, m + 1) = QtyOfFirst(h, m) + h[m + 1].qty
    BY <2>2, <2>7, SumOfNext
  <2>9. QtyOfFirst(f, (m + 1) + 1) = QtyOfFirst(f, m + 1) + f[(m + 1) + 1].qty
    BY <2>2, <2>5, SumOfNext
  <2>10. QtyOfFirst(h, m) \in Nat /\ QtyOfFirst(f, m + 1) \in Nat
    BY <2>2, <2>3, <2>5, SumIsNat
  <2> QED BY <1>0, <2>2, <2>3, <2>4, <2>6, <2>7, <2>8, <2>9, <2>10
<1> HIDE DEF S
<1>3. Nat \subseteq S
  BY <1>1, <1>2, NaturalsInducted
<1>4. to - from \in S /\ from + (to - from) = to
  BY <1>3
<1> QED BY <1>4 DEF S

\* A place in the middle changes the sums from there on by what it gained.
LEMMA SumOfOneChanged ==
  ASSUME NEW f, NEW h, NEW n \in Nat, NEW at \in 1 .. n,
         Quantified(f, n), Quantified(h, n),
         \A i \in 1 .. n : i # at => h[i].qty = f[i].qty
  PROVE  QtyOfFirst(h, n) = QtyOfFirst(f, n) - f[at].qty + h[at].qty
<1> DEFINE S == {k \in Nat : at + k <= n =>
                   QtyOfFirst(h, at + k) = QtyOfFirst(f, at + k) - f[at].qty + h[at].qty}
<1>0. f[at].qty \in Nat /\ h[at].qty \in Nat
  BY DEF Quantified
<1>1. 0 \in S
  <2>1. at - 1 \in Nat /\ (at - 1) + 1 = at
    OBVIOUS
  <2>2. Quantified(f, at) /\ Quantified(h, at) /\ Quantified(f, at - 1)
    BY DEF Quantified
  <2>3. QtyOfFirst(f, at) = QtyOfFirst(f, at - 1) + f[at].qty
    BY <2>1, <2>2, SumOfNext
  <2>4. QtyOfFirst(h, at) = QtyOfFirst(h, at - 1) + h[at].qty
    BY <2>1, <2>2, SumOfNext
  <2>5. QtyOfFirst(h, at - 1) = QtyOfFirst(f, at - 1)
    BY <2>1, <2>2, SumOfSame
  <2>6. QtyOfFirst(f, at - 1) \in Nat
    BY <2>1, <2>2, SumIsNat
  <2>7. at + 0 = at
    OBVIOUS
  <2> QED BY <1>0, <2>3, <2>4, <2>5, <2>6, <2>7
<1>2. ASSUME NEW k \in Nat, k \in S PROVE k + 1 \in S
  <2>1. SUFFICES ASSUME at + (k + 1) <= n
                 PROVE  QtyOfFirst(h, at + (k + 1)) =
                          QtyOfFirst(f, at + (k + 1)) - f[at].qty + h[at].qty
    OBVIOUS
  <2> DEFINE m == at + k
  <2>2. m \in Nat /\ at + (k + 1) = m + 1 /\ m + 1 \in 1 .. n /\ m + 1 # at
    BY <2>1
  <2>3. QtyOfFirst(h, m) = QtyOfFirst(f, m) - f[at].qty + h[at].qty
    BY <1>2, <2>1
  <2> HIDE DEF m
  <2>4. Quantified(f, m + 1) /\ Quantified(h, m + 1) /\ Quantified(f, m)
    BY <2>2 DEF Quantified
  <2>5. /\ QtyOfFirst(f, m + 1) = QtyOfFirst(f, m) + f[m + 1].qty
        /\ QtyOfFirst(h, m + 1) = QtyOfFirst(h, m) + h[m + 1].qty
    BY <2>2, <2>4, SumOfNext
  <2>6. h[m + 1].qty = f[m + 1].qty /\ f[m + 1].qty \in Nat
    BY <2>2 DEF Quantified
  <2>7. QtyOfFirst(f, m) \in Nat
    BY <2>2, <2>4, SumIsNat
  <2> QED BY <1>0, <2>2, <2>3, <2>5, <2>6, <2>7
<1> HIDE DEF S
<1>3. Nat \subseteq S
  BY <1>1, <1>2, NaturalsInducted
<1>4. n - at \in S /\ at + (n - at) = n
  BY <1>3
<1> QED BY <1>4 DEF S

\* A sum only grows from place to place, so each order is part of the level's.
LEMMA SumGrows ==
  ASSUME NEW f, NEW n \in Nat, NEW m \in 0 .. n, Quantified(f, n)
  PROVE  QtyOfFirst(f, m) <= QtyOfFirst(f, n)
<1> DEFINE S == {k \in Nat : m + k <= n => QtyOfFirst(f, m) <= QtyOfFirst(f, m + k)}
<1>0. QtyOfFirst(f, m) \in Nat
  BY SumIsNat DEF Quantified
<1>1. 0 \in S
  BY <1>0
<1>2. ASSUME NEW k \in Nat, k \in S PROVE k + 1 \in S
  <2>1. SUFFICES ASSUME m + (k + 1) <= n
                 PROVE  QtyOfFirst(f, m) <= QtyOfFirst(f, m + (k + 1))
    OBVIOUS
  <2>2. m + k \in Nat /\ m + (k + 1) = (m + k) + 1 /\ (m + k) + 1 \in 1 .. n
    BY <2>1
  <2>3. Quantified(f, (m + k) + 1) /\ Quantified(f, m + k)
    BY <2>2 DEF Quantified
  <2>4. QtyOfFirst(f, (m + k) + 1) = QtyOfFirst(f, m + k) + f[(m + k) + 1].qty
    BY <2>2, <2>3, SumOfNext
  <2>5. f[(m + k) + 1].qty \in Nat /\ QtyOfFirst(f, m + k) \in Nat
    BY <2>2, <2>3, SumIsNat DEF Quantified
  <2> QED BY <1>0, <1>2, <2>1, <2>2, <2>4, <2>5
<1> HIDE DEF S
<1>3. Nat \subseteq S
  BY <1>1, <1>2, NaturalsInducted
<1>4. n - m \in S /\ m + (n - m) = n
  BY <1>3
<1> QED BY <1>4 DEF S

-----------------------------------------------------------------------------
(* The changes of a FIFO                                                   *)

OrdersOf(S, Q) == [id : S, qty : Q]

LEMMA FifoQuantified ==
  ASSUME NEW S, NEW Q \in SUBSET Nat, NEW f \in Seq(OrdersOf(S, Q))
  PROVE  /\ Len(f) \in Nat
         /\ DOMAIN f = 1 .. Len(f)
         /\ \A i \in 1 .. Len(f) : f[i] \in OrdersOf(S, Q) /\ f[i].id \in S /\ f[i].qty \in Q
         /\ Quantified(f, Len(f))
<1>1. Len(f) \in Nat /\ DOMAIN f = 1 .. Len(f)
  BY LenProperties
<1>2. \A i \in 1 .. Len(f) : f[i] \in OrdersOf(S, Q)
  BY ElementOfSeq
<1>3. \A i \in 1 .. Len(f) : f[i].id \in S /\ f[i].qty \in Q
  BY <1>2 DEF OrdersOf
<1> QED BY <1>1, <1>2, <1>3 DEF Quantified

LEMMA LevelQtyIsNat ==
  ASSUME NEW S, NEW Q \in SUBSET Nat, NEW f \in Seq(OrdersOf(S, Q))
  PROVE  LevelQty(f) \in Nat /\ \A i \in 1 .. Len(f) : f[i].qty <= LevelQty(f)
<1>1. Len(f) \in Nat /\ Quantified(f, Len(f))
  BY FifoQuantified
<1>2. LevelQty(f) \in Nat
  BY <1>1, SumIsNat DEF LevelQty
<1>3. ASSUME NEW i \in 1 .. Len(f) PROVE f[i].qty <= LevelQty(f)
  <2>1. i \in 0 .. Len(f) /\ i - 1 \in Nat /\ (i - 1) + 1 = i
    OBVIOUS
  <2>2. Quantified(f, i) /\ Quantified(f, i - 1) /\ f[i].qty \in Nat
    BY <1>1 DEF Quantified
  <2>3. QtyOfFirst(f, i) = QtyOfFirst(f, i - 1) + f[i].qty
    BY <2>1, <2>2, SumOfNext
  <2>4. QtyOfFirst(f, i - 1) \in Nat
    BY <2>1, <2>2, SumIsNat
  <2>5. QtyOfFirst(f, i) <= QtyOfFirst(f, Len(f))
    BY <1>1, <2>1, SumGrows
  <2>6. QtyOfFirst(f, i) \in Nat /\ QtyOfFirst(f, Len(f)) \in Nat
    BY <1>1, <2>1, <2>2, SumIsNat
  <2> QED BY <2>2, <2>3, <2>4, <2>5, <2>6 DEF LevelQty
<1> QED BY <1>2, <1>3

LEMMA EmptyLevelQty == LevelQty(<<>>) = 0
BY SumOfNone, EmptySeq DEF LevelQty

\* A newcomer goes last.
LEMMA AppendedFifo ==
  ASSUME NEW S, NEW Q \in SUBSET Nat, NEW f \in Seq(OrdersOf(S, Q)), NEW o \in OrdersOf(S, Q)
  PROVE  /\ Append(f, o) \in Seq(OrdersOf(S, Q))
         /\ Len(Append(f, o)) = Len(f) + 1
         /\ \A i \in 1 .. Len(f) : Append(f, o)[i] = f[i]
         /\ Append(f, o)[Len(f) + 1] = o
         /\ LevelQty(Append(f, o)) = LevelQty(f) + o.qty
<1> DEFINE h == Append(f, o)
<1>1. /\ h \in Seq(OrdersOf(S, Q)) /\ Len(h) = Len(f) + 1
      /\ \A i \in 1 .. Len(f) : h[i] = f[i]
      /\ h[Len(f) + 1] = o
  BY AppendProperties
<1> HIDE DEF h
<1>2. Len(f) \in Nat /\ Quantified(f, Len(f)) /\ Quantified(h, Len(f) + 1)
  BY <1>1, FifoQuantified
<1>3. QtyOfFirst(h, Len(f) + 1) = QtyOfFirst(h, Len(f)) + h[Len(f) + 1].qty
  BY <1>2, SumOfNext
<1>4. QtyOfFirst(h, Len(f)) = QtyOfFirst(f, Len(f))
  BY <1>1, <1>2, SumOfSame
<1> QED BY <1>1, <1>3, <1>4 DEF LevelQty, h

\* An order that gives up a part of its quantity keeps its place.
Reduced(f, at, qty) == [f EXCEPT ![at].qty = qty]

LEMMA ReducedFifo ==
  ASSUME NEW S, NEW Q \in SUBSET Nat, NEW f \in Seq(OrdersOf(S, Q)),
         NEW at \in 1 .. Len(f), NEW q \in Q
  PROVE  LET h == Reduced(f, at, q)
         IN  /\ h \in Seq(OrdersOf(S, Q))
             /\ Len(h) = Len(f)
             /\ \A i \in 1 .. Len(f) : i # at => h[i] = f[i]
             /\ h[at] = Order(f[at].id, q)
             /\ LevelQty(h) = LevelQty(f) - f[at].qty + q
<1> DEFINE h == Reduced(f, at, q)
           e == [f[at] EXCEPT !.qty = q]
<1>1. f[at] \in OrdersOf(S, Q)
  BY ElementOfSeq
<1>2. e \in OrdersOf(S, Q) /\ e = Order(f[at].id, q)
  BY <1>1 DEF OrdersOf, Order
<1>3. h = [f EXCEPT ![at] = e]
  BY DEF Reduced
<1> HIDE DEF e
<1>4. /\ h \in Seq(OrdersOf(S, Q)) /\ Len(h) = Len(f)
      /\ \A j \in 1 .. Len(f) : h[j] = IF j = at THEN e ELSE f[j]
  <2> DEFINE g == [f EXCEPT ![at] = e]
  <2>1. /\ g \in Seq(OrdersOf(S, Q)) /\ Len(g) = Len(f)
        /\ \A j \in 1 .. Len(f) : g[j] = IF j = at THEN e ELSE f[j]
    BY <1>2, ExceptSeq
  <2>2. h = g
    BY <1>3
  <2> HIDE DEF g, h
  <2> QED BY <2>1, <2>2
<1> HIDE DEF h
<1>5. Len(f) \in Nat /\ Quantified(f, Len(f)) /\ Quantified(h, Len(f))
  BY <1>4, FifoQuantified
<1>6. h[at].qty = q
  BY <1>2, <1>4 DEF Order
<1>7. QtyOfFirst(h, Len(f)) = QtyOfFirst(f, Len(f)) - f[at].qty + h[at].qty
  <2>1. \A i \in 1 .. Len(f) : i # at => h[i].qty = f[i].qty
    BY <1>4
  <2> QED BY <1>5, <2>1, SumOfOneChanged
<1> QED BY <1>2, <1>4, <1>6, <1>7 DEF LevelQty, h

\* What leaves a sequence closes the gap it leaves.
LEMMA RemovedSeq ==
  ASSUME NEW S, NEW f \in Seq(S), NEW at \in 1 .. Len(f)
  PROVE  LET h == RemoveAt(f, at)
         IN  /\ h \in Seq(S)
             /\ Len(h) = Len(f) - 1
             /\ \A i \in 1 .. Len(f) - 1 : h[i] = IF i < at THEN f[i] ELSE f[i + 1]
<1> DEFINE n == Len(f)
           a == SubSeq(f, 1, at - 1)
           b == SubSeq(f, at + 1, n)
           h == RemoveAt(f, at)
<1>1. n \in Nat /\ at \in 1 .. n /\ \A i \in 1 .. n : f[i] \in S
  BY LenProperties, ElementOfSeq
<1> HIDE DEF n
<1>2. /\ a \in Seq(S) /\ Len(a) = at - 1
      /\ \A i \in 1 .. at - 1 : a[i] = f[i]
  <2>1. \A i \in 1 .. at - 1 : f[i] \in S
    BY <1>1
  <2>2. /\ a \in Seq(S)
        /\ Len(a) = IF 1 <= at - 1 THEN (at - 1) - 1 + 1 ELSE 0
        /\ \A i \in 1 .. (at - 1) - 1 + 1 : a[i] = f[1 + i - 1]
    <3>1. 1 \in Int /\ at - 1 \in Int
      BY <1>1
    <3> QED BY <2>1, <3>1, SubSeqProperties
  <2> HIDE DEF a
  <2> QED BY <1>1, <2>2
<1>3. /\ b \in Seq(S) /\ Len(b) = n - at
      /\ \A i \in 1 .. n - at : b[i] = f[at + i]
  <2>1. \A i \in at + 1 .. n : f[i] \in S
    BY <1>1
  <2>2. /\ b \in Seq(S)
        /\ Len(b) = IF at + 1 <= n THEN n - (at + 1) + 1 ELSE 0
        /\ \A i \in 1 .. n - (at + 1) + 1 : b[i] = f[(at + 1) + i - 1]
    <3>1. at + 1 \in Int /\ n \in Int
      BY <1>1
    <3> QED BY <2>1, <3>1, SubSeqProperties
  <2> HIDE DEF b
  <2> QED BY <1>1, <2>2
<1>4. h = a \o b
  BY DEF RemoveAt, n
<1> HIDE DEF a, b
<1>5. /\ h \in Seq(S) /\ Len(h) = Len(a) + Len(b)
      /\ \A i \in 1 .. Len(a) + Len(b) : h[i] = IF i <= Len(a) THEN a[i] ELSE b[i - Len(a)]
  <2>1. /\ a \o b \in Seq(S) /\ Len(a \o b) = Len(a) + Len(b)
        /\ \A i \in 1 .. Len(a) + Len(b) :
             (a \o b)[i] = IF i <= Len(a) THEN a[i] ELSE b[i - Len(a)]
    BY <1>2, <1>3, ConcatProperties
  <2> HIDE DEF h
  <2> QED BY <1>4, <2>1
<1> HIDE DEF h
<1>6. Len(h) = n - 1
  BY <1>1, <1>2, <1>3, <1>5
<1>7. \A i \in 1 .. n - 1 : h[i] = IF i < at THEN f[i] ELSE f[i + 1]
  <2> TAKE i \in 1 .. n - 1
  <2>1. h[i] = IF i <= at - 1 THEN a[i] ELSE b[i - (at - 1)]
    BY <1>1, <1>2, <1>3, <1>5
  <2>2. CASE i < at
    BY <1>1, <1>2, <2>1, <2>2
  <2>3. CASE ~(i < at)
    <3>1. i - (at - 1) \in 1 .. n - at /\ at + (i - (at - 1)) = i + 1
      BY <1>1, <2>3
    <3> QED BY <1>1, <1>3, <2>1, <2>3, <3>1
  <2> QED BY <2>2, <2>3
<1> QED BY <1>5, <1>6, <1>7 DEF n, h

\* An order that leaves takes its quantity along, and the others keep their order.
LEMMA RemovedFifo ==
  ASSUME NEW S, NEW Q \in SUBSET Nat, NEW f \in Seq(OrdersOf(S, Q)), NEW at \in 1 .. Len(f)
  PROVE  LET h == RemoveAt(f, at)
         IN  /\ h \in Seq(OrdersOf(S, Q))
             /\ Len(h) = Len(f) - 1
             /\ \A i \in 1 .. Len(f) - 1 : h[i] = IF i < at THEN f[i] ELSE f[i + 1]
             /\ LevelQty(h) = LevelQty(f) - f[at].qty
<1> DEFINE n == Len(f)
           h == RemoveAt(f, at)
<1>1. n \in Nat /\ at \in 1 .. n /\ \A i \in 1 .. n : f[i] \in OrdersOf(S, Q)
  BY FifoQuantified
<1>2. /\ h \in Seq(OrdersOf(S, Q)) /\ Len(h) = n - 1
      /\ \A i \in 1 .. n - 1 : h[i] = IF i < at THEN f[i] ELSE f[i + 1]
  BY RemovedSeq
<1> HIDE DEF n, h
<1>3. QtyOfFirst(h, n - 1) = QtyOfFirst(f, n) - f[at].qty
  <2>1. Quantified(f, n) /\ Quantified(h, n - 1)
    BY <1>2, FifoQuantified DEF n
  <2>2. at - 1 \in Nat /\ n - 1 \in Nat /\ at - 1 <= n - 1 /\ (n - 1) + 1 = n /\ (at - 1) + 1 = at
    BY <1>1
  <2>3. Quantified(h, at - 1) /\ Quantified(f, at - 1) /\ Quantified(f, at) /\ f[at].qty \in Nat
    BY <1>1, <2>1 DEF Quantified
  <2>4. \A i \in (at - 1) + 1 .. n - 1 : h[i].qty = f[i + 1].qty
    BY <1>1, <1>2
  <2>5. QtyOfFirst(h, n - 1) - QtyOfFirst(h, at - 1) =
          QtyOfFirst(f, (n - 1) + 1) - QtyOfFirst(f, (at - 1) + 1)
    BY <2>1, <2>2, <2>3, <2>4, SumOfShifted
  <2>6. \A i \in 1 .. at - 1 : h[i].qty = f[i].qty
    BY <1>1, <1>2
  <2>7. QtyOfFirst(h, at - 1) = QtyOfFirst(f, at - 1)
    BY <2>2, <2>3, <2>6, SumOfSame
  <2>8. QtyOfFirst(f, at) = QtyOfFirst(f, at - 1) + f[at].qty
    BY <2>2, <2>3, SumOfNext
  <2>9. /\ QtyOfFirst(f, at - 1) \in Nat /\ QtyOfFirst(h, n - 1) \in Nat
        /\ QtyOfFirst(f, n) \in Nat
    BY <1>1, <2>1, <2>2, <2>3, SumIsNat
  <2> QED BY <2>2, <2>3, <2>5, <2>7, <2>8, <2>9
<1> QED BY <1>2, <1>3 DEF LevelQty, n, h

-----------------------------------------------------------------------------
(* Looking an order up by its id                                           *)

LEMMA PosOfFirst ==
  ASSUME NEW S, NEW Q \in SUBSET Nat, NEW f \in Seq(OrdersOf(S, Q)), NEW id
  PROVE  /\ PosOf(f, id) # 0 <=> \E i \in 1 .. Len(f) : f[i].id = id
         /\ PosOf(f, id) # 0 =>
              /\ PosOf(f, id) \in 1 .. Len(f)
              /\ f[PosOf(f, id)].id = id
              /\ \A i \in 1 .. Len(f) : f[i].id = id => PosOf(f, id) <= i
         /\ PosOf(f, id) \in Nat
<1> DEFINE places == {i \in 1 .. Len(f) : f[i].id = id}
<1>1. PosOf(f, id) = IF places # {} THEN Min(places) ELSE 0
  BY DEF PosOf, SelectInSeq
<1>2. Len(f) \in Nat
  BY FifoQuantified
<1>3. CASE places = {}
  BY <1>1, <1>3
<1>4. CASE places # {}
  <2>1. IsFiniteSet(places)
    <3>1. IsFiniteSet(1 .. Len(f))
      BY <1>2, FS_Interval
    <3> QED BY <3>1, FS_Subset
  <2>2. places \in SUBSET Int
    BY <1>2
  <2>3. Min(places) \in places /\ \A y \in places : Min(places) <= y
    BY <1>4, <2>1, <2>2, MinIsLeast
  <2> QED BY <1>1, <1>2, <1>4, <2>3
<1> QED BY <1>3, <1>4

\* The place of an order whose id no other order before it has.
LEMMA PosOfOnly ==
  ASSUME NEW S, NEW Q \in SUBSET Nat, NEW f \in Seq(OrdersOf(S, Q)), NEW at \in 1 .. Len(f),
         \A i \in 1 .. Len(f) : f[i].id = f[at].id => i = at
  PROVE  PosOf(f, f[at].id) = at
<1>1. PosOf(f, f[at].id) # 0
  BY PosOfFirst
<1> QED BY <1>1, PosOfFirst

LEMMA IdsOfPlaces ==
  ASSUME NEW S, NEW Q \in SUBSET Nat, NEW f \in Seq(OrdersOf(S, Q)), NEW id
  PROVE  id \in IdsOf(f) <=> PosOf(f, id) # 0
<1>1. DOMAIN f = 1 .. Len(f)
  BY FifoQuantified
<1> QED BY <1>1, PosOfFirst DEF IdsOf

-----------------------------------------------------------------------------
(* Prices in priority                                                      *)

\* The number of prices of the set that come before p.
Ahead(pxs, side, p) == Cardinality({q \in pxs : Better(side, q, p)})

\* It is less than the size of the set for a price of the set, and it tells the
\* prices of the set apart: the better price has fewer ahead.
LEMMA AheadOrders ==
  ASSUME NEW pxs \in SUBSET Int, IsFiniteSet(pxs), NEW side,
         NEW p \in pxs, NEW r \in pxs
  PROVE  /\ Ahead(pxs, side, p) \in 0 .. Cardinality(pxs) - 1
         /\ Better(side, r, p) => Ahead(pxs, side, r) < Ahead(pxs, side, p)
<1> DEFINE A == {q \in pxs : Better(side, q, p)}
           R == {q \in pxs : Better(side, q, r)}
<1>1. A \in SUBSET pxs /\ R \in SUBSET pxs /\ p \notin A
  BY DEF Better
<1>2. IsFiniteSet(A) /\ IsFiniteSet(R)
  BY <1>1, FS_Subset
<1>3. /\ Cardinality(A) \in Nat /\ Cardinality(R) \in Nat
      /\ Cardinality(pxs) \in Nat
  BY <1>2, FS_CardinalityType
<1>4. Cardinality(A) < Cardinality(pxs)
  <2>1. Cardinality(A) <= Cardinality(pxs) /\ (Cardinality(pxs) = Cardinality(A) => pxs = A)
    BY <1>1, FS_Subset
  <2>2. pxs # A
    BY <1>1
  <2> QED BY <2>1, <2>2, <1>3
<1>5. ASSUME Better(side, r, p) PROVE Cardinality(R) < Cardinality(A)
  <2>1. R \in SUBSET A /\ r \in A /\ r \notin R
    <3>1. ASSUME NEW q \in pxs, Better(side, q, r) PROVE Better(side, q, p)
      <4>1. p \in Int /\ r \in Int /\ q \in Int
        OBVIOUS
      <4> QED BY <1>5, <3>1, <4>1 DEF Better
    <3>2. ~Better(side, r, r)
      <4>1. r \in Int
        OBVIOUS
      <4> QED BY <4>1 DEF Better
    <3> QED BY <1>5, <3>1, <3>2
  <2>2. Cardinality(R) <= Cardinality(A) /\ (Cardinality(A) = Cardinality(R) => A = R)
    BY <2>1, <1>2, FS_Subset
  <2>3. A # R
    BY <2>1
  <2> QED BY <2>2, <2>3, <1>3
<1>6. Ahead(pxs, side, p) = Cardinality(A) /\ Ahead(pxs, side, r) = Cardinality(R)
  BY DEF Ahead
<1> HIDE DEF A, R
<1> QED BY <1>3, <1>4, <1>5, <1>6

\* For each number of prices ahead there is one price: as many numbers as prices.
LEMMA EachPlaceTaken ==
  ASSUME NEW pxs \in SUBSET Int, IsFiniteSet(pxs), NEW side,
         NEW k \in 1 .. Cardinality(pxs)
  PROVE  \E p \in pxs : Ahead(pxs, side, p) = k - 1
<1> DEFINE n == Cardinality(pxs)
           T == 0 .. n - 1
           f == [p \in pxs |-> Ahead(pxs, side, p)]
<1>1. n \in Nat
  BY FS_CardinalityType
<1>2. \A p \in pxs : Ahead(pxs, side, p) \in T
  BY AheadOrders
<1>3. \A p \in pxs : \A r \in pxs :
        Ahead(pxs, side, p) = Ahead(pxs, side, r) => p = r
  <2> TAKE p \in pxs
  <2> TAKE r \in pxs
  <2>1. p = r \/ Better(side, r, p) \/ Better(side, p, r)
    BY DEF Better
  <2>2. Better(side, r, p) => Ahead(pxs, side, r) < Ahead(pxs, side, p)
    BY AheadOrders
  <2>3. Better(side, p, r) => Ahead(pxs, side, p) < Ahead(pxs, side, r)
    BY AheadOrders
  <2>4. Ahead(pxs, side, p) \in T /\ Ahead(pxs, side, r) \in T
    BY <1>2
  <2> QED BY <2>1, <2>2, <2>3, <2>4, <1>1
<1>4. f \in Injection(pxs, T)
  BY <1>2, <1>3 DEF Injection, IsInjective
<1>5. IsFiniteSet(T) /\ Cardinality(T) = n
  <2>1. 0 \in Int /\ n - 1 \in Int
    BY <1>1
  <2>2. IsFiniteSet(T) /\ Cardinality(T) = IF 0 > n - 1 THEN 0 ELSE (n - 1) - 0 + 1
    BY <2>1, FS_Interval
  <2> QED BY <2>2, <1>1
<1>6. f \in Surjection(pxs, T)
  <2> HIDE DEF f, T
  <2> QED BY <1>4, <1>5, FS_Injection
<1>7. k - 1 \in T
  BY <1>1
<1> QED BY <1>6, <1>7 DEF Surjection

\* The sequence lists prices of the set, as many as there are.
LEMMA InPriorityLists ==
  ASSUME NEW pxs \in SUBSET Int, IsFiniteSet(pxs), NEW side
  PROVE  /\ InPriority(pxs, side) \in Seq(pxs)
         /\ Len(InPriority(pxs, side)) = Cardinality(pxs)
         /\ \A k \in 1 .. Cardinality(pxs) : Ahead(pxs, side, InPriority(pxs, side)[k]) = k - 1
<1>1. Cardinality(pxs) \in Nat
  BY FS_CardinalityType
<1>2. ASSUME NEW k \in 1 .. Cardinality(pxs)
      PROVE  /\ InPriority(pxs, side)[k] \in pxs
             /\ Ahead(pxs, side, InPriority(pxs, side)[k]) = k - 1
  <2>1. \E p \in pxs : Ahead(pxs, side, p) = k - 1
    BY EachPlaceTaken
  <2>2. InPriority(pxs, side)[k] = CHOOSE p \in pxs : Ahead(pxs, side, p) = k - 1
    BY DEF InPriority, Ahead
  <2> QED BY <2>1, <2>2
<1>3. InPriority(pxs, side) \in [1 .. Cardinality(pxs) -> pxs]
  <2> DEFINE At(k) == CHOOSE p \in pxs : Ahead(pxs, side, p) = k - 1
             n == Cardinality(pxs)
  <2>1. InPriority(pxs, side) = [k \in 1 .. n |-> At(k)]
    BY DEF InPriority, Ahead
  <2>2. \A k \in 1 .. n : At(k) \in pxs
    BY EachPlaceTaken
  <2> HIDE DEF At, n
  <2>3. [k \in 1 .. n |-> At(k)] \in [1 .. n -> pxs]
    BY <2>2
  <2> QED BY <2>1, <2>3 DEF n
<1>4. InPriority(pxs, side) \in Seq(pxs)
  BY <1>1, <1>3, SeqDef
<1>5. Len(InPriority(pxs, side)) = Cardinality(pxs)
  BY <1>1, <1>3, <1>4, LenProperties
<1> QED BY <1>2, <1>4, <1>5

\* And the better of two prices comes first.
LEMMA InPrioritySorted ==
  ASSUME NEW pxs \in SUBSET Int, IsFiniteSet(pxs), NEW side,
         NEW i \in 1 .. Cardinality(pxs), NEW j \in 1 .. Cardinality(pxs), i < j
  PROVE  Better(side, InPriority(pxs, side)[i], InPriority(pxs, side)[j])
<1> DEFINE p == InPriority(pxs, side)[i]
           r == InPriority(pxs, side)[j]
<1>1. Cardinality(pxs) \in Nat
  BY FS_CardinalityType
<1>2. Ahead(pxs, side, p) = i - 1 /\ Ahead(pxs, side, r) = j - 1
  BY InPriorityLists
<1>3. p \in pxs /\ r \in pxs
  <2>1. /\ InPriority(pxs, side) \in Seq(pxs)
        /\ Len(InPriority(pxs, side)) = Cardinality(pxs)
    BY InPriorityLists
  <2> QED BY <2>1, ElementOfSeq
<1> HIDE DEF p, r
<1>4. p = r \/ Better(side, p, r) \/ Better(side, r, p)
  BY <1>3 DEF Better
<1>5. ~Better(side, r, p)
  <2>1. Better(side, r, p) => Ahead(pxs, side, r) < Ahead(pxs, side, p)
    BY <1>3, AheadOrders
  <2> QED BY <2>1, <1>1, <1>2
<1>6. p # r
  BY <1>1, <1>2
<1> QED BY <1>4, <1>5, <1>6 DEF p, r

\* With k prices before it, the next one is better than all that are left.
LEMMA NextInPriority ==
  ASSUME NEW pxs \in SUBSET Int, IsFiniteSet(pxs), NEW side,
         NEW k \in 0 .. Cardinality(pxs) - 1
  PROVE  LET r == InPriority(pxs, side)[k + 1]
         IN  /\ r \in pxs /\ Ahead(pxs, side, r) = k
             /\ \A p \in pxs :
                  /\ Ahead(pxs, side, p) \in Nat
                  /\ Ahead(pxs, side, p) >= k =>
                       p = r \/ (Better(side, r, p) /\ Ahead(pxs, side, p) >= k + 1)
                  /\ Better(side, p, r) => Ahead(pxs, side, p) < k
<1> DEFINE r == InPriority(pxs, side)[k + 1]
<1>1. Cardinality(pxs) \in Nat /\ k \in Nat /\ k + 1 \in 1 .. Cardinality(pxs) /\ (k + 1) - 1 = k
  BY FS_CardinalityType
<1>2. r \in pxs /\ Ahead(pxs, side, r) = k
  <2>1. /\ InPriority(pxs, side) \in Seq(pxs)
        /\ Len(InPriority(pxs, side)) = Cardinality(pxs)
        /\ Ahead(pxs, side, InPriority(pxs, side)[k + 1]) = (k + 1) - 1
    BY <1>1, InPriorityLists
  <2> QED BY <1>1, <2>1, ElementOfSeq
<1> HIDE DEF r
<1>3. ASSUME NEW p \in pxs
      PROVE  /\ Ahead(pxs, side, p) \in Nat
             /\ Ahead(pxs, side, p) >= k =>
                  p = r \/ (Better(side, r, p) /\ Ahead(pxs, side, p) >= k + 1)
             /\ Better(side, p, r) => Ahead(pxs, side, p) < k
  <2>1. Ahead(pxs, side, p) \in 0 .. Cardinality(pxs) - 1
    BY AheadOrders
  <2>2. Better(side, p, r) => Ahead(pxs, side, p) < k
    BY <1>2, AheadOrders
  <2>3. Better(side, r, p) => k < Ahead(pxs, side, p)
    BY <1>2, AheadOrders
  <2>4. p = r \/ Better(side, p, r) \/ Better(side, r, p)
    BY <1>2 DEF Better
  <2> QED BY <1>1, <2>1, <2>2, <2>3, <2>4
<1> QED BY <1>2, <1>3 DEF r

-----------------------------------------------------------------------------
(* Best first, read backwards, is best first of the other side.            *)

\* The prices before and after one are all the others.
LEMMA AheadTurned ==
  ASSUME NEW pxs \in SUBSET Int, IsFiniteSet(pxs), NEW p \in pxs
  PROVE  Ahead(pxs, "Ask", p) = Cardinality(pxs) - 1 - Ahead(pxs, "Bid", p)
<1> DEFINE A == {q \in pxs : q < p}
           B == {q \in pxs : q > p}
<1>1. Ahead(pxs, "Ask", p) = Cardinality(A) /\ Ahead(pxs, "Bid", p) = Cardinality(B)
  BY DEF Ahead, Better
<1>2. IsFiniteSet(A) /\ IsFiniteSet(B)
  BY FS_Subset
<1>3. pxs = (A \cup B) \cup {p} /\ p \notin A \cup B /\ A \cap B = {}
  <2>1. \A q \in pxs : q \in Int /\ (q < p \/ q = p \/ q > p)
    OBVIOUS
  <2>2. ~(p < p) /\ ~(p > p) /\ \A q \in pxs : ~(q < p /\ q > p)
    BY <2>1
  <2> QED BY <2>1, <2>2, Zenon
<1> HIDE DEF A, B
<1>4. Cardinality(A) \in Nat /\ Cardinality(B) \in Nat
  BY <1>2, FS_CardinalityType
<1>5. IsFiniteSet(A \cup B) /\ Cardinality(A \cup B) = Cardinality(A) + Cardinality(B) - Cardinality(A \cap B)
  BY <1>2, FS_Union
<1>6. Cardinality({}) = 0
  BY FS_EmptySet
<1>7. Cardinality(A \cup B) = Cardinality(A) + Cardinality(B)
  <2>1. Cardinality(A \cap B) = 0
    BY <1>3, <1>6
  <2> QED BY <1>4, <1>5, <2>1
<1>8. Cardinality(pxs) = Cardinality(A \cup B) + 1
  BY <1>3, <1>5, FS_AddElement
<1> QED BY <1>1, <1>4, <1>7, <1>8

LEMMA AheadApart ==
  ASSUME NEW pxs \in SUBSET Int, IsFiniteSet(pxs), NEW side, NEW p \in pxs, NEW r \in pxs,
         Ahead(pxs, side, p) = Ahead(pxs, side, r)
  PROVE  p = r
<1>1. p = r \/ Better(side, r, p) \/ Better(side, p, r)
  BY DEF Better
<1>2. Better(side, r, p) => Ahead(pxs, side, r) < Ahead(pxs, side, p)
  BY AheadOrders
<1>3. Better(side, p, r) => Ahead(pxs, side, p) < Ahead(pxs, side, r)
  BY AheadOrders
<1>4. Ahead(pxs, side, p) \in 0 .. Cardinality(pxs) - 1
  BY AheadOrders
<1>5. Cardinality(pxs) \in Nat
  BY FS_CardinalityType
<1> QED BY <1>1, <1>2, <1>3, <1>4, <1>5

LEMMA AscendingIsTurned ==
  ASSUME NEW pxs \in SUBSET Int, IsFiniteSet(pxs)
  PROVE  Reverse(InPriority(pxs, "Bid")) = Ascending(pxs)
<1> DEFINE n == Cardinality(pxs)
           bids == InPriority(pxs, "Bid")
           asks == InPriority(pxs, "Ask")
<1>1. n \in Nat
  BY FS_CardinalityType
<1>2. /\ bids \in Seq(pxs) /\ Len(bids) = n
      /\ \A k \in 1 .. n : Ahead(pxs, "Bid", bids[k]) = k - 1
  BY InPriorityLists
<1>3. /\ asks \in Seq(pxs) /\ Len(asks) = n
      /\ \A k \in 1 .. n : Ahead(pxs, "Ask", asks[k]) = k - 1
  BY InPriorityLists
<1>4. asks = [k \in 1 .. n |-> asks[k]]
  BY <1>3
<1>5. Reverse(bids) = [k \in 1 .. n |-> bids[(n - k) + 1]]
  BY <1>2 DEF Reverse
<1>8. Ascending(pxs) = asks
  BY DEF Ascending
<1> HIDE DEF n, bids, asks
<1>6. ASSUME NEW k \in 1 .. n PROVE bids[(n - k) + 1] = asks[k]
  <2>1. (n - k) + 1 \in 1 .. n /\ ((n - k) + 1) - 1 = n - k
    BY <1>1
  <2>2. bids[(n - k) + 1] \in pxs /\ asks[k] \in pxs
    BY <1>2, <1>3, <2>1
  <2>3. Ahead(pxs, "Bid", bids[(n - k) + 1]) = n - k
    BY <1>2, <2>1
  <2>4. Ahead(pxs, "Ask", bids[(n - k) + 1]) = n - 1 - (n - k)
    BY <2>2, <2>3, AheadTurned DEF n
  <2>5. Ahead(pxs, "Ask", asks[k]) = k - 1 /\ n - 1 - (n - k) = k - 1
    BY <1>1, <1>3
  <2> QED BY <2>2, <2>4, <2>5, AheadApart
<1>7. Reverse(bids) = asks
  BY <1>4, <1>5, <1>6
<1> QED BY <1>7, <1>8 DEF bids
=============================================================================
