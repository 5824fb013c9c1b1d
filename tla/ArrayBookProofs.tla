--------------------------- MODULE ArrayBookProofs ---------------------------
(***************************************************************************)
(* The array book, for all ids, prices, quantities, windows and bounds:    *)
(* its links, levels, index, slab and id map agree after any sequence of   *)
(* calls, and it implements the book the trait promises, event by event.   *)
(***************************************************************************)
EXTENDS ArrayBook, LevelsProofs

-----------------------------------------------------------------------------
(* Lists in the slab: a sequence c of slots, linked as a level links its   *)
(* orders or, forward only, as the free list is.                           *)

HeadOf(c) == IF c = <<>> THEN Nil ELSE c[1]
TailOf(c) == IF c = <<>> THEN Nil ELSE c[Len(c)]
PrevIn(c, k) == IF k = 1 THEN Nil ELSE c[k-1]
NextIn(c, k) == IF k = Len(c) THEN Nil ELSE c[k+1]

Distinct(c) == \A j, k \in 1 .. Len(c) : c[j] = c[k] => j = k

\* Each slot of c links to the one after it.
LinkedOn(slots, c) == \A k \in 1 .. Len(c) : slots[c[k]].next = NextIn(c, k)

\* The walk from a head over n links.
Walk(at, s, head, n) ==
  at = [k \in 0 .. n |->
          IF k = 0 THEN head
          ELSE IF at[k-1] = Nil THEN Nil
          ELSE s.slots[at[k-1]].next]

LEMMA ChainIsWalk ==
  ASSUME NEW s, NEW head
  PROVE  LET at == CHOOSE g : Walk(g, s, head, s.cap)
             met == {k \in 0 .. s.cap - 1 : at[k] # Nil}
             n == IF met = {} THEN 0 ELSE 1 + CHOOSE m \in met : \A k \in met : k <= m
         IN  Chain(s, head) = [k \in 1 .. n |-> at[k-1]]
BY DEF Chain, Walk

\* A list without a slot twice is no longer than the slab.
LEMMA DistinctFits ==
  ASSUME NEW n \in Nat, NEW c \in Seq(0 .. n - 1), Distinct(c)
  PROVE  Len(c) <= n
<1>1. Len(c) \in Nat /\ c \in [1 .. Len(c) -> 0 .. n - 1]
  BY LenProperties
<1>2. c \in Injection(1 .. Len(c), 0 .. n - 1)
  BY <1>1 DEF Injection, IsInjective, Distinct
<1>3. IsFiniteSet(0 .. n - 1) /\ Cardinality(0 .. n - 1) = n
  <2>1. 0 \in Int /\ n - 1 \in Int
    OBVIOUS
  <2>2. IsFiniteSet(0 .. n - 1)
        /\ Cardinality(0 .. n - 1) = IF 0 > n - 1 THEN 0 ELSE n - 1 - 0 + 1
    BY <2>1, FS_Interval
  <2> QED BY <2>2
<1>4. Cardinality(1 .. Len(c)) = Len(c)
  <2>1. Cardinality(1 .. Len(c)) = IF 1 > Len(c) THEN 0 ELSE Len(c) - 1 + 1
    BY <1>1, FS_Interval
  <2> QED BY <1>1, <2>1
<1>5. Cardinality(1 .. Len(c)) <= Cardinality(0 .. n - 1)
  BY <1>2, <1>3, FS_Injection
<1> QED BY <1>3, <1>4, <1>5

\* Walked from its head, a linked list is met as it is.
LEMMA ChainFollows ==
  ASSUME NEW s, s.cap \in Nat, NEW c \in Seq(Indices(s)), Distinct(c), LinkedOn(s.slots, c)
  PROVE  Chain(s, HeadOf(c)) = c
<1> DEFINE len == Len(c)
           cap == s.cap
           head == HeadOf(c)
           place(k) == IF k < len THEN c[k + 1] ELSE Nil
           at == CHOOSE g : Walk(g, s, head, s.cap)
           met == {k \in 0 .. s.cap - 1 : at[k] # Nil}
           n == IF met = {} THEN 0 ELSE 1 + CHOOSE m \in met : \A k \in met : k <= m
<1>1. /\ len \in Nat /\ cap \in Nat /\ DOMAIN c = 1 .. len
      /\ \A k \in 1 .. len : c[k] \in 0 .. cap - 1 /\ c[k] # Nil
  BY LenProperties, ElementOfSeq DEF Indices, Nil
<1>2. len <= cap
  BY DistinctFits DEF Indices
<1>3. \A k \in 1 .. len : s.slots[c[k]].next = IF k = len THEN Nil ELSE c[k+1]
  BY DEF LinkedOn, NextIn
<1>4. head = place(0)
  <2>1. c = <<>> <=> len = 0
    BY <1>1, EmptySeq
  <2> QED BY <1>1, <2>1 DEF HeadOf
<1>5. ASSUME NEW k \in 1 .. cap
      PROVE  place(k) = IF place(k-1) = Nil THEN Nil ELSE s.slots[place(k-1)].next
  <2>1. CASE k <= len
    <3>1. k \in 1 .. len /\ k - 1 < len /\ (k - 1) + 1 = k /\ place(k-1) = c[k]
      BY <1>1, <2>1
    <3>2. place(k-1) # Nil /\ s.slots[c[k]].next = IF k = len THEN Nil ELSE c[k+1]
      BY <1>1, <1>3, <3>1
    <3>3. k < len <=> k # len
      <4>1. k \in Int /\ len \in Int
        BY <1>1
      <4> HIDE DEF len
      <4> QED BY <2>1, <4>1
    <3> QED BY <3>1, <3>2, <3>3
  <2>2. CASE ~(k <= len)
    BY <1>1, <2>2
  <2> QED BY <2>1, <2>2
<1>6. \E g : Walk(g, s, head, cap)
  <2> DEFINE g == [k \in 0 .. cap |-> place(k)]
  <2>1. ASSUME NEW k \in 0 .. cap
        PROVE  place(k) = IF k = 0 THEN head
                          ELSE IF g[k-1] = Nil THEN Nil ELSE s.slots[g[k-1]].next
    <3> HIDE DEF head, place
    <3>1. CASE k = 0
      BY <1>4, <3>1
    <3>2. CASE k # 0
      <4>1. k \in 1 .. cap /\ k - 1 \in 0 .. cap
        BY <1>1, <3>2
      <4>2. g[k-1] = place(k-1)
        BY <4>1
      <4> QED BY <1>5, <3>2, <4>1, <4>2
    <3> QED BY <3>1, <3>2
  <2> HIDE DEF place, head
  <2>2. Walk(g, s, head, cap)
    BY <2>1 DEF Walk
  <2> QED BY <2>2
<1>7. Walk(at, s, head, cap)
  BY <1>6
<1> HIDE DEF at, head, place
<1>8. \A k \in 0 .. cap :
        at[k] = IF k = 0 THEN head ELSE IF at[k-1] = Nil THEN Nil ELSE s.slots[at[k-1]].next
  BY <1>7 DEF Walk
<1>9. \A k \in 0 .. cap : at[k] = place(k)
  <2> DEFINE S == {k \in Nat : k <= cap => at[k] = place(k)}
  <2>1. 0 \in S
    BY <1>1, <1>4, <1>8
  <2>2. ASSUME NEW k \in Nat, k \in S PROVE k + 1 \in S
    <3>1. SUFFICES ASSUME k + 1 <= cap PROVE at[k + 1] = place(k + 1)
      OBVIOUS
    <3>2. k + 1 \in 1 .. cap /\ k + 1 \in 0 .. cap /\ (k + 1) - 1 = k /\ at[k] = place(k)
      BY <1>1, <2>2, <3>1
    <3> QED BY <1>5, <1>8, <3>2
  <2> HIDE DEF S
  <2>3. Nat \subseteq S
    BY <2>1, <2>2, NaturalsInducted
  <2> QED BY <2>3, <1>1 DEF S
<1>10. \A k \in 0 .. cap - 1 : at[k] # Nil <=> k < len
  <2> SUFFICES ASSUME NEW k \in 0 .. cap - 1 PROVE at[k] # Nil <=> k < len
    OBVIOUS
  <2>1. at[k] = place(k)
    BY <1>1, <1>9
  <2>2. k < len => k + 1 \in 1 .. len
    BY <1>1
  <2> QED BY <1>1, <2>1, <2>2 DEF place
<1> HIDE DEF len, cap
<1>11. met = {k \in 0 .. cap - 1 : k < len}
  BY <1>10 DEF cap
<1>12. n = len
  <2> HIDE DEF met
  <2>1. CASE len = 0
    <3>1. met = {}
      BY <1>11, <2>1
    <3> QED BY <2>1, <3>1
  <2>2. CASE len # 0
    <3>1. len - 1 \in met /\ \A k \in met : k \in Int /\ k <= len - 1
      BY <1>1, <1>2, <1>11, <2>2
    <3>2. (CHOOSE m \in met : \A k \in met : k <= m) = len - 1
      <4>1. PICK m \in met : m = CHOOSE x \in met : \A k \in met : k <= x
        BY <3>1
      <4>2. m \in met /\ \A k \in met : k <= m
        BY <3>1, <4>1
      <4> QED BY <1>1, <3>1, <4>1, <4>2
    <3> QED BY <1>1, <3>1, <3>2
  <2> QED BY <2>1, <2>2
<1>13. Chain(s, head) = [k \in 1 .. n |-> at[k-1]]
  BY ChainIsWalk DEF at
<1> HIDE DEF n, met
<1>14. \A k \in 1 .. len : at[k-1] = c[k]
  <2> SUFFICES ASSUME NEW k \in 1 .. len PROVE at[k-1] = c[k]
    OBVIOUS
  <2>1. k - 1 \in 0 .. cap /\ k - 1 < len /\ (k - 1) + 1 = k
    BY <1>1, <1>2
  <2> QED BY <1>9, <2>1 DEF place
<1>15. c = [k \in 1 .. len |-> c[k]]
  BY <1>1, LenProperties DEF len
<1> QED BY <1>12, <1>13, <1>14, <1>15 DEF head

-----------------------------------------------------------------------------
(* What appending to a list and removing from it do to its links.          *)

LEMMA ListEnds ==
  ASSUME NEW S, NEW c \in Seq(S)
  PROVE  /\ Len(c) \in Nat /\ DOMAIN c = 1 .. Len(c)
         /\ \A k \in 1 .. Len(c) : c[k] \in S
         /\ c = <<>> <=> Len(c) = 0
         /\ HeadOf(c) = IF Len(c) = 0 THEN Nil ELSE c[1]
         /\ TailOf(c) = IF Len(c) = 0 THEN Nil ELSE c[Len(c)]
<1>1. Len(c) \in Nat /\ DOMAIN c = 1 .. Len(c)
  BY LenProperties
<1>2. \A k \in 1 .. Len(c) : c[k] \in S
  BY ElementOfSeq
<1>3. c = <<>> <=> Len(c) = 0
  BY <1>1, EmptySeq
<1> QED BY <1>1, <1>2, <1>3 DEF HeadOf, TailOf

LEMMA AppendLinks ==
  ASSUME NEW S, NEW c \in Seq(S), Distinct(c), NEW at \in S,
         \A k \in 1 .. Len(c) : c[k] # at
  PROVE  LET d == Append(c, at)
         IN  /\ d \in Seq(S) /\ Distinct(d) /\ Len(d) = Len(c) + 1
             /\ \A k \in 1 .. Len(c) :
                  /\ d[k] = c[k]
                  /\ PrevIn(d, k) = PrevIn(c, k)
                  /\ NextIn(d, k) = IF k = Len(c) THEN at ELSE NextIn(c, k)
             /\ d[Len(c) + 1] = at
             /\ PrevIn(d, Len(c) + 1) = TailOf(c)
             /\ NextIn(d, Len(c) + 1) = Nil
             /\ HeadOf(d) = IF Len(c) = 0 THEN at ELSE HeadOf(c)
             /\ TailOf(d) = at
<1> DEFINE d == Append(c, at)
           n == Len(c)
<1>1. /\ d \in Seq(S) /\ Len(d) = n + 1 /\ d[n + 1] = at
      /\ \A k \in 1 .. n : d[k] = c[k]
  BY AppendProperties
<1> HIDE DEF d
<1>2. n \in Nat /\ \A k \in 1 .. n : c[k] \in S
  BY ListEnds
<1>3. /\ TailOf(c) = IF n = 0 THEN Nil ELSE c[n]
      /\ HeadOf(c) = IF n = 0 THEN Nil ELSE c[1]
      /\ HeadOf(d) = IF n + 1 = 0 THEN Nil ELSE d[1]
      /\ TailOf(d) = IF n + 1 = 0 THEN Nil ELSE d[n + 1]
  <2>1. /\ HeadOf(d) = IF Len(d) = 0 THEN Nil ELSE d[1]
        /\ TailOf(d) = IF Len(d) = 0 THEN Nil ELSE d[Len(d)]
    BY <1>1, ListEnds
  <2> QED BY <1>1, <2>1, ListEnds
<1>4. Distinct(d)
  <2> SUFFICES ASSUME NEW j \in 1 .. n + 1, NEW k \in 1 .. n + 1, d[j] = d[k]
               PROVE  j = k
    BY <1>1 DEF Distinct
  <2>1. j \in 1 .. n \/ j = n + 1
    BY <1>2
  <2>2. k \in 1 .. n \/ k = n + 1
    BY <1>2
  <2> QED BY <1>1, <2>1, <2>2 DEF Distinct
<1>5. ASSUME NEW k \in 1 .. n
      PROVE  /\ PrevIn(d, k) = PrevIn(c, k)
             /\ NextIn(d, k) = IF k = n THEN at ELSE NextIn(c, k)
  <2>1. k # 1 => k - 1 \in 1 .. n
    BY <1>2
  <2>2. k # n => k + 1 \in 1 .. n
    BY <1>2
  <2>3. k # n + 1
    BY <1>2
  <2> QED BY <1>1, <2>1, <2>2, <2>3 DEF PrevIn, NextIn
<1>6. PrevIn(d, n + 1) = TailOf(c) /\ NextIn(d, n + 1) = Nil
  <2>1. n # 0 => n \in 1 .. n /\ n + 1 # 1 /\ (n + 1) - 1 = n
    BY <1>2
  <2> QED BY <1>1, <1>3, <2>1 DEF PrevIn, NextIn
<1>7. HeadOf(d) = (IF n = 0 THEN at ELSE HeadOf(c)) /\ TailOf(d) = at
  <2>1. n # 0 => 1 \in 1 .. n
    BY <1>2
  <2>2. n + 1 # 0 /\ (n = 0 => n + 1 = 1)
    BY <1>2
  <2> QED BY <1>1, <1>3, <2>1, <2>2
<1> QED BY <1>1, <1>4, <1>5, <1>6, <1>7 DEF d

\* The place in c of the j-th slot once the k-th is gone.
PlaceIn(k, j) == IF j < k THEN j ELSE j + 1

LEMMA RemoveLinks ==
  ASSUME NEW S, NEW c \in Seq(S), Distinct(c), NEW k \in 1 .. Len(c)
  PROVE  LET d == RemoveAt(c, k)
         IN  /\ d \in Seq(S) /\ Distinct(d) /\ Len(d) = Len(c) - 1
             /\ \A j \in 1 .. Len(c) - 1 :
                  LET m == PlaceIn(k, j)
                  IN  /\ m \in 1 .. Len(c) /\ m # k
                      /\ d[j] = c[m] /\ c[m] # c[k]
                      /\ PrevIn(d, j) = IF m = k + 1 THEN PrevIn(c, k) ELSE PrevIn(c, m)
                      /\ NextIn(d, j) = IF m = k - 1 THEN NextIn(c, k) ELSE NextIn(c, m)
             /\ HeadOf(d) = IF k = 1 THEN NextIn(c, k) ELSE HeadOf(c)
             /\ TailOf(d) = IF k = Len(c) THEN PrevIn(c, k) ELSE TailOf(c)
<1> DEFINE d == RemoveAt(c, k)
           n == Len(c)
<1>1. /\ d \in Seq(S) /\ Len(d) = n - 1
      /\ \A i \in 1 .. n - 1 : d[i] = IF i < k THEN c[i] ELSE c[i + 1]
  BY RemovedSeq
<1> HIDE DEF d
<1>2. n \in Nat /\ k \in 1 .. n /\ n - 1 \in Nat
  <2>1. n \in Nat
    BY ListEnds
  <2> QED BY <2>1
<1>3. ASSUME NEW j \in 1 .. n - 1
      PROVE  /\ PlaceIn(k, j) \in 1 .. n /\ PlaceIn(k, j) # k
             /\ d[j] = c[PlaceIn(k, j)] /\ c[PlaceIn(k, j)] # c[k]
  <2>1. PlaceIn(k, j) \in 1 .. n /\ PlaceIn(k, j) # k
    BY <1>2 DEF PlaceIn
  <2> QED BY <1>1, <2>1 DEF PlaceIn, Distinct
<1>4. Distinct(d)
  <2> SUFFICES ASSUME NEW i \in 1 .. n - 1, NEW j \in 1 .. n - 1, d[i] = d[j]
               PROVE  i = j
    BY <1>1 DEF Distinct
  <2>1. PlaceIn(k, i) = PlaceIn(k, j)
    BY <1>3 DEF Distinct
  <2> QED BY <1>2, <2>1 DEF PlaceIn
<1>5. ASSUME NEW j \in 1 .. n - 1
      PROVE  LET m == PlaceIn(k, j)
             IN  /\ PrevIn(d, j) = IF m = k + 1 THEN PrevIn(c, k) ELSE PrevIn(c, m)
                 /\ NextIn(d, j) = IF m = k - 1 THEN NextIn(c, k) ELSE NextIn(c, m)
  <2> DEFINE m == PlaceIn(k, j)
  <2>1. CASE j < k
    <3>1. m = j /\ m # k + 1 /\ j # n
      BY <1>2, <2>1 DEF PlaceIn
    <3>2. j # 1 => j - 1 \in 1 .. n - 1 /\ j - 1 < k
      BY <1>2, <2>1
    <3>3. PrevIn(d, j) = PrevIn(c, j)
      BY <1>1, <3>2 DEF PrevIn
    <3>4. CASE j = k - 1
      <4>1. j + 1 = k
        BY <1>2, <3>4
      <4>2. j = n - 1 <=> k = n
        BY <1>2, <4>1
      <4>3. k # n => k \in 1 .. n - 1 /\ ~(k < k)
        BY <1>2
      <4>4. NextIn(d, j) = NextIn(c, k)
        BY <1>1, <4>1, <4>2, <4>3 DEF NextIn
      <4> QED BY <3>1, <3>3, <3>4, <4>4
    <3>5. CASE j # k - 1
      <4>1. j + 1 < k /\ j + 1 \in 1 .. n - 1 /\ j # n - 1
        BY <1>2, <2>1, <3>5
      <4>2. NextIn(d, j) = NextIn(c, j)
        BY <1>1, <3>1, <4>1 DEF NextIn
      <4> QED BY <3>1, <3>3, <3>5, <4>2
    <3> QED BY <3>4, <3>5
  <2>2. CASE ~(j < k)
    <3>1. m = j + 1 /\ m # k - 1 /\ j + 1 # 1
      BY <1>2, <2>2 DEF PlaceIn
    <3>2. j # n - 1 => j + 1 \in 1 .. n - 1 /\ ~(j + 1 < k) /\ j + 1 # n
      BY <1>2, <2>2
    <3>3. j = n - 1 => j + 1 = n
      BY <1>2
    <3>4. NextIn(d, j) = NextIn(c, j + 1)
      BY <1>1, <3>2, <3>3 DEF NextIn
    <3>5. CASE j = k
      <4>1. m = k + 1
        BY <3>1, <3>5
      <4>2. k # 1 => k - 1 \in 1 .. n - 1 /\ k - 1 < k
        BY <1>2
      <4>3. PrevIn(d, j) = PrevIn(c, k)
        BY <1>1, <3>5, <4>2 DEF PrevIn
      <4> QED BY <3>1, <3>4, <4>1, <4>3
    <3>6. CASE j # k
      <4>1. j # 1 /\ j - 1 \in 1 .. n - 1 /\ ~(j - 1 < k) /\ (j - 1) + 1 = j /\ m # k + 1
            /\ (j + 1) - 1 = j
        BY <1>2, <2>2, <3>1, <3>6
      <4>2. PrevIn(d, j) = PrevIn(c, j + 1)
        BY <1>1, <3>1, <4>1 DEF PrevIn
      <4> QED BY <3>1, <3>4, <4>1, <4>2
    <3> QED BY <3>5, <3>6
  <2> QED BY <2>1, <2>2
<1>6. /\ TailOf(c) = IF n = 0 THEN Nil ELSE c[n]
      /\ HeadOf(c) = IF n = 0 THEN Nil ELSE c[1]
      /\ HeadOf(d) = IF n - 1 = 0 THEN Nil ELSE d[1]
      /\ TailOf(d) = IF n - 1 = 0 THEN Nil ELSE d[n - 1]
  <2>1. /\ HeadOf(d) = IF Len(d) = 0 THEN Nil ELSE d[1]
        /\ TailOf(d) = IF Len(d) = 0 THEN Nil ELSE d[Len(d)]
    BY <1>1, ListEnds
  <2> QED BY <1>1, <2>1, ListEnds
<1>7. HeadOf(d) = IF k = 1 THEN NextIn(c, k) ELSE HeadOf(c)
  <2>1. /\ n # 0 /\ (k # 1 => n - 1 # 0) /\ (n - 1 = 0 <=> n = 1)
        /\ n - 1 # 0 => 1 \in 1 .. n - 1
        /\ 1 < k <=> k # 1
    <3> HIDE DEF n
    <3> QED BY <1>2
  <2> QED BY <1>1, <1>6, <2>1 DEF NextIn
<1>8. TailOf(d) = IF k = n THEN PrevIn(c, k) ELSE TailOf(c)
  <2>1. /\ n # 0 /\ (k # n => n - 1 # 0) /\ (n - 1 = 0 <=> n = 1)
        /\ n - 1 # 0 => n - 1 \in 1 .. n - 1
        /\ n - 1 < k <=> k = n
        /\ (n - 1) + 1 = n /\ (k = 1 /\ k # n => n - 1 \in 1 .. n - 1)
    <3> HIDE DEF n
    <3> QED BY <1>2
  <2> QED BY <1>1, <1>6, <2>1 DEF PrevIn
<1> QED BY <1>1, <1>3, <1>4, <1>5, <1>7, <1>8 DEF d

-----------------------------------------------------------------------------
(* The orders on a list of slots.                                          *)

Links == Nat \cup {Nil}

SlotSet == [id : Ids \cup {NoId}, qty : 0 .. MaxQty, px : Int, prev : Links, next : Links]

Lots == 1 .. MaxQty

\* The FIFO read off a list of slots.
OrdersOn(slots, c) == [k \in DOMAIN c |-> Order(slots[c[k]].id, slots[c[k]].qty)]

\* The level that keeps a list of slots.
LevelOf(slots, c) ==
  [head |-> HeadOf(c), tail |-> TailOf(c), qty |-> LevelQty(OrdersOn(slots, c)),
   count |-> Len(c)]

\* The k-th slot of c holds a positive order of this side and price, linked to its
\* neighbours in c, and the id map has its id at this slot.
Rests(slots, ids, s, p, c, k) ==
  LET slot == slots[c[k]]
  IN  /\ slot.prev = PrevIn(c, k) /\ slot.next = NextIn(c, k)
      /\ slot.px = SignedPx(s, p) /\ slot.qty > 0
      /\ slot.id \in DOMAIN ids /\ ids[slot.id] = c[k]

Threaded(slots, ids, s, p, c) ==
  /\ c \in Seq(DOMAIN slots) /\ Distinct(c)
  /\ c # <<>> => p \in ValidPrices
  /\ \A k \in 1 .. Len(c) : Rests(slots, ids, s, p, c, k)

\* No slot, not even a free one, points back out of the slab.
BackIn(slots) == \A i \in DOMAIN slots : slots[i].prev \in DOMAIN slots \cup {Nil}

\* The orders and their map, whatever holds them together.
Kept(slots, ids) ==
  /\ slots \in [DOMAIN slots -> SlotSet] /\ DOMAIN slots \in SUBSET Nat /\ BackIn(slots)
  /\ DOMAIN ids \in SUBSET Ids

LEMMA ValidIsPositive == \A p \in ValidPrices : p \in Int /\ p > 0
BY ArgumentTypes DEF ValidPrices

LEMMA LotsAreNat == Lots \in SUBSET Nat /\ MaxQty \in Nat
BY ArgumentTypes DEF Lots

LEMMA SignedBack ==
  ASSUME NEW s \in Sides, NEW p \in ValidPrices, NEW slot, slot.px = SignedPx(s, p)
  PROVE  SideOf(slot) = s /\ AbsPx(slot) = p /\ slot.px \in Int
<1>1. p \in Int /\ p > 0
  BY ValidIsPositive
<1>2. s = "Bid" \/ s = "Ask"
  BY DEF Sides
<1> QED BY <1>1, <1>2 DEF SideOf, AbsPx, SignedPx

LEMMA ThreadFacts ==
  ASSUME NEW slots, NEW ids, Kept(slots, ids), NEW s, NEW p, NEW c,
         Threaded(slots, ids, s, p, c)
  PROVE  /\ c \in Seq(DOMAIN slots) /\ c \in Seq(Nat) /\ Distinct(c)
         /\ Len(c) \in Nat /\ DOMAIN c = 1 .. Len(c)
         /\ \A k \in 1 .. Len(c) :
              /\ c[k] \in DOMAIN slots /\ c[k] \in Nat /\ c[k] # Nil
              /\ slots[c[k]] \in SlotSet
              /\ slots[c[k]].id \in Ids /\ slots[c[k]].qty \in Lots
              /\ p \in ValidPrices
         /\ OrdersOn(slots, c) \in Seq(OrdersOf(Ids, Lots))
         /\ Len(OrdersOn(slots, c)) = Len(c)
         /\ \A k \in 1 .. Len(c) :
              OrdersOn(slots, c)[k] = Order(slots[c[k]].id, slots[c[k]].qty)
<1>1. c \in Seq(DOMAIN slots) /\ Distinct(c) /\ DOMAIN slots \in SUBSET Nat
  BY DEF Threaded, Kept
<1>2. Len(c) \in Nat /\ DOMAIN c = 1 .. Len(c) /\ \A k \in 1 .. Len(c) : c[k] \in DOMAIN slots
  BY <1>1, ListEnds
<1>3. c \in Seq(Nat)
  BY <1>1, SeqMonotonic
<1>4. ASSUME NEW k \in 1 .. Len(c)
      PROVE  /\ c[k] \in DOMAIN slots /\ c[k] \in Nat /\ c[k] # Nil
             /\ slots[c[k]] \in SlotSet
             /\ slots[c[k]].id \in Ids /\ slots[c[k]].qty \in Lots
             /\ p \in ValidPrices
  <2>1. slots[c[k]] \in SlotSet
    BY <1>2 DEF Kept
  <2>2. slots[c[k]].qty > 0 /\ slots[c[k]].id \in DOMAIN ids
    BY DEF Threaded, Rests
  <2>3. slots[c[k]].qty \in Lots
    BY <2>1, <2>2, LotsAreNat DEF SlotSet, Lots
  <2>4. c # <<>>
    BY <1>1, <1>2, ListEnds
  <2> QED BY <1>1, <1>2, <2>1, <2>2, <2>3, <2>4 DEF Kept, Threaded, Nil
<1> DEFINE f == OrdersOn(slots, c)
<1>5. f = [k \in 1 .. Len(c) |-> Order(slots[c[k]].id, slots[c[k]].qty)]
  BY <1>2 DEF OrdersOn
<1>6. \A k \in 1 .. Len(c) : Order(slots[c[k]].id, slots[c[k]].qty) \in OrdersOf(Ids, Lots)
  BY <1>4 DEF Order, OrdersOf
<1>7. f \in [1 .. Len(c) -> OrdersOf(Ids, Lots)]
  BY <1>5, <1>6
<1> HIDE DEF f
<1>8. f \in Seq(OrdersOf(Ids, Lots)) /\ Len(f) = Len(c)
  <2>1. f \in Seq(OrdersOf(Ids, Lots))
    BY <1>2, <1>7, SeqDef
  <2>2. DOMAIN f = 1 .. Len(c) /\ DOMAIN f = 1 .. Len(f) /\ Len(f) \in Nat
    BY <1>7, <2>1, LenProperties
  <2> QED BY <1>2, <2>1, <2>2
<1> QED BY <1>1, <1>2, <1>3, <1>4, <1>5, <1>8 DEF f

LEMMA EmptyThread ==
  ASSUME NEW slots, NEW ids, NEW s, NEW p
  PROVE  Threaded(slots, ids, s, p, <<>>) /\ LevelOf(slots, <<>>) = EmptyLevel
<1>1. <<>> \in Seq(DOMAIN slots) /\ Len(<<>>) = 0 /\ DOMAIN <<>> = {}
  OBVIOUS
<1>2. OrdersOn(slots, <<>>) = <<>>
  BY <1>1 DEF OrdersOn
<1>3. LevelQty(OrdersOn(slots, <<>>)) = 0
  BY <1>2, EmptyLevelQty
<1>4. HeadOf(<<>>) = Nil /\ TailOf(<<>>) = Nil
  BY DEF HeadOf, TailOf
<1>5. LevelOf(slots, <<>>) = EmptyLevel
  BY <1>1, <1>3, <1>4 DEF LevelOf, EmptyLevel
<1> QED BY <1>1, <1>5 DEF Threaded, Distinct

\* No slot is on two lists.
LEMMA ThreadsApart ==
  ASSUME NEW slots, NEW ids, Kept(slots, ids),
         NEW s \in Sides, NEW p, NEW c, Threaded(slots, ids, s, p, c),
         NEW t \in Sides, NEW q, NEW d, Threaded(slots, ids, t, q, d),
         NEW j \in 1 .. Len(c), NEW k \in 1 .. Len(d), c[j] = d[k]
  PROVE  s = t /\ p = q
<1>1. p \in ValidPrices /\ q \in ValidPrices
  BY ThreadFacts
<1>2. slots[c[j]].px = SignedPx(s, p) /\ slots[d[k]].px = SignedPx(t, q)
  BY DEF Threaded, Rests
<1> QED BY <1>1, <1>2, SignedBack

-----------------------------------------------------------------------------
(* What the changes of slots do to a list of them.                         *)

\* A list whose slots and names nobody touches.
LEMMA ThreadStays ==
  ASSUME NEW slots, NEW ids, Kept(slots, ids), NEW s, NEW p, NEW c,
         Threaded(slots, ids, s, p, c),
         NEW slots2, NEW ids2, DOMAIN slots \subseteq DOMAIN slots2,
         \A k \in 1 .. Len(c) :
           /\ slots2[c[k]] = slots[c[k]]
           /\ slots[c[k]].id \in DOMAIN ids2 /\ ids2[slots[c[k]].id] = c[k]
  PROVE  /\ Threaded(slots2, ids2, s, p, c)
         /\ OrdersOn(slots2, c) = OrdersOn(slots, c)
         /\ LevelOf(slots2, c) = LevelOf(slots, c)
<1>1. /\ c \in Seq(DOMAIN slots) /\ DOMAIN c = 1 .. Len(c)
  BY ThreadFacts
<1>2. c \in Seq(DOMAIN slots2)
  BY <1>1, SeqMonotonic
<1>3. \A k \in 1 .. Len(c) : Rests(slots2, ids2, s, p, c, k)
  BY DEF Threaded, Rests
<1>4. Threaded(slots2, ids2, s, p, c)
  BY <1>2, <1>3 DEF Threaded
<1>5. \A k \in DOMAIN c : slots2[c[k]] = slots[c[k]]
  BY <1>1
<1>6. OrdersOn(slots2, c) = OrdersOn(slots, c)
  BY <1>5 DEF OrdersOn
<1> QED BY <1>4, <1>6 DEF LevelOf

\* Two slots of which one can stand for the other but for their links.
SameOrder(x, y) == x.id = y.id /\ x.qty = y.qty /\ x.px = y.px

\* A slot is put at `at', behind `tail'.
PutBehind(slots, at, slot, tail, slots2) ==
  /\ DOMAIN slots2 = DOMAIN slots \cup {at}
  /\ slots2[at] = slot
  /\ \A i \in DOMAIN slots : i # at =>
       /\ SameOrder(slots2[i], slots[i]) /\ slots2[i].prev = slots[i].prev
       /\ slots2[i].next = IF i = tail THEN at ELSE slots[i].next

\* A free slot `at' becomes the last of the list.
LEMMA ThreadAppends ==
  ASSUME NEW slots, NEW ids, Kept(slots, ids), NEW s, NEW p \in ValidPrices, NEW c,
         Threaded(slots, ids, s, p, c),
         NEW at \in Nat, \A k \in 1 .. Len(c) : c[k] # at,
         NEW id \in Ids, id \notin DOMAIN ids, NEW qty \in Lots,
         NEW slots2,
         PutBehind(slots, at, Slot(id, qty, SignedPx(s, p), TailOf(c), Nil), TailOf(c), slots2)
  PROVE  LET d == Append(c, at)
             ids2 == With(ids, id, at)
         IN  /\ Threaded(slots2, ids2, s, p, d)
             /\ OrdersOn(slots2, d) = Append(OrdersOn(slots, c), Order(id, qty))
             /\ LevelOf(slots2, d) =
                  [head  |-> IF TailOf(c) = Nil THEN at ELSE HeadOf(c), tail |-> at,
                   qty   |-> LevelQty(OrdersOn(slots, c)) + qty,
                   count |-> Len(c) + 1]
<1> DEFINE d == Append(c, at)
           ids2 == With(ids, id, at)
           n == Len(c)
           f == OrdersOn(slots, c)
           g == Append(f, Order(id, qty))
<1>1. /\ c \in Seq(DOMAIN slots) /\ Distinct(c) /\ n \in Nat
      /\ \A k \in 1 .. n : c[k] \in DOMAIN slots /\ c[k] \in Nat /\ c[k] # Nil
      /\ f \in Seq(OrdersOf(Ids, Lots)) /\ Len(f) = n
      /\ \A k \in 1 .. n : f[k] = Order(slots[c[k]].id, slots[c[k]].qty)
  BY ThreadFacts
<1>0. /\ DOMAIN slots2 = DOMAIN slots \cup {at}
      /\ slots2[at] = Slot(id, qty, SignedPx(s, p), TailOf(c), Nil)
      /\ \A i \in DOMAIN slots : i # at =>
           /\ SameOrder(slots2[i], slots[i]) /\ slots2[i].prev = slots[i].prev
           /\ slots2[i].next = IF i = TailOf(c) THEN at ELSE slots[i].next
  BY DEF PutBehind
<1>2. c \in Seq(DOMAIN slots2) /\ at \in DOMAIN slots2
  BY <1>0, <1>1, SeqMonotonic
<1>3. /\ d \in Seq(DOMAIN slots2) /\ Distinct(d) /\ Len(d) = n + 1
      /\ \A k \in 1 .. n : /\ d[k] = c[k]
                           /\ PrevIn(d, k) = PrevIn(c, k)
                           /\ NextIn(d, k) = IF k = n THEN at ELSE NextIn(c, k)
      /\ d[n + 1] = at
      /\ PrevIn(d, n + 1) = TailOf(c) /\ NextIn(d, n + 1) = Nil
      /\ HeadOf(d) = IF n = 0 THEN at ELSE HeadOf(c)
      /\ TailOf(d) = at
  BY <1>1, <1>2, AppendLinks
<1>4. TailOf(c) = IF n = 0 THEN Nil ELSE c[n]
  BY <1>1, ListEnds
<1>5. DOMAIN ids2 = DOMAIN ids \cup {id} /\ ids2[id] = at
      /\ \A x \in DOMAIN ids : ids2[x] = ids[x]
  BY DEF With
<1>6. /\ slots2[at].id = id /\ slots2[at].qty = qty /\ slots2[at].px = SignedPx(s, p)
      /\ slots2[at].prev = TailOf(c) /\ slots2[at].next = Nil
  BY <1>0 DEF Slot
<1>7. /\ g \in Seq(OrdersOf(Ids, Lots)) /\ Len(g) = n + 1
      /\ \A i \in 1 .. n : g[i] = f[i]
      /\ g[n + 1] = Order(id, qty)
      /\ LevelQty(g) = LevelQty(f) + qty
  <2>1. Order(id, qty) \in OrdersOf(Ids, Lots) /\ Order(id, qty).qty = qty
    BY DEF Order, OrdersOf
  <2> DEFINE o == Order(id, qty)
  <2>2. o \in OrdersOf(Ids, Lots) /\ o.qty = qty
    BY <2>1
  <2> HIDE DEF o, f
  <2>3. Append(f, o) \in Seq(OrdersOf(Ids, Lots)) /\ Len(Append(f, o)) = n + 1
        /\ (\A i \in 1 .. n : Append(f, o)[i] = f[i])
        /\ Append(f, o)[n + 1] = o /\ LevelQty(Append(f, o)) = LevelQty(f) + qty
    BY <1>1, <2>2, LotsAreNat, AppendedFifo
  <2> QED BY <2>3 DEF o
<1> HIDE DEF d, ids2, f, g
<1>8. ASSUME NEW k \in 1 .. n
      PROVE  /\ Rests(slots2, ids2, s, p, d, k)
             /\ slots2[c[k]].id = slots[c[k]].id /\ slots2[c[k]].qty = slots[c[k]].qty
  <2>1. Rests(slots, ids, s, p, c, k)
    BY DEF Threaded
  <2>2. c[k] \in DOMAIN slots /\ c[k] # at
    BY <1>1
  <2>3. SameOrder(slots2[c[k]], slots[c[k]]) /\ slots2[c[k]].prev = slots[c[k]].prev
        /\ slots2[c[k]].next = IF c[k] = TailOf(c) THEN at ELSE slots[c[k]].next
    BY <1>0, <2>2
  <2>4. c[k] = TailOf(c) <=> k = n
    <3>1. n \in 1 .. n /\ TailOf(c) = c[n]
      BY <1>1, <1>4
    <3> QED BY <3>1, <1>1 DEF Distinct
  <2>5. slots2[c[k]].next = NextIn(d, k)
    BY <1>3, <2>1, <2>3, <2>4 DEF Rests
  <2> QED BY <1>3, <1>5, <2>1, <2>3, <2>5 DEF Rests, SameOrder
<1>9. Rests(slots2, ids2, s, p, d, n + 1)
  BY <1>3, <1>5, <1>6, LotsAreNat DEF Rests, Lots
<1>10. \A k \in 1 .. n + 1 : k \in 1 .. n \/ k = n + 1
  BY <1>1
<1>11. Threaded(slots2, ids2, s, p, d)
  BY <1>3, <1>8, <1>9, <1>10 DEF Threaded
<1>12. OrdersOn(slots2, d) = g
  <2>1. DOMAIN d = 1 .. n + 1 /\ DOMAIN g = 1 .. n + 1
    BY <1>3, <1>7, ListEnds
  <2>2. \A k \in 1 .. n + 1 : Order(slots2[d[k]].id, slots2[d[k]].qty) = g[k]
    BY <1>1, <1>3, <1>6, <1>7, <1>8, <1>10
  <2>3. g = [k \in 1 .. n + 1 |-> g[k]]
    BY <1>7, <2>1, LenProperties
  <2> QED BY <2>1, <2>2, <2>3 DEF OrdersOn
<1>13. HeadOf(d) = IF TailOf(c) = Nil THEN at ELSE HeadOf(c)
  <2>1. n # 0 => n \in 1 .. n
    BY <1>1
  <2> QED BY <1>1, <1>3, <1>4, <2>1
<1> QED BY <1>3, <1>7, <1>11, <1>12, <1>13 DEF LevelOf, d, ids2, f, g

\* The neighbours of a slot link to each other.
TakenOut(slots, at, slots2) ==
  /\ DOMAIN slots2 = DOMAIN slots
  /\ \A i \in DOMAIN slots : i # at =>
       /\ SameOrder(slots2[i], slots[i])
       /\ slots2[i].next = IF i = slots[at].prev THEN slots[at].next ELSE slots[i].next
       /\ slots2[i].prev = IF i = slots[at].next THEN slots[at].prev ELSE slots[i].prev

\* The k-th slot leaves the list.
LEMMA ThreadRemoves ==
  ASSUME NEW slots, NEW ids, Kept(slots, ids), NEW s, NEW p, NEW c,
         Threaded(slots, ids, s, p, c), NEW k \in 1 .. Len(c),
         NEW slots2, TakenOut(slots, c[k], slots2)
  PROVE  LET d == RemoveAt(c, k)
             slot == slots[c[k]]
             ids2 == Without(ids, slot.id)
         IN  /\ Threaded(slots2, ids2, s, p, d)
             /\ OrdersOn(slots2, d) = RemoveAt(OrdersOn(slots, c), k)
             /\ LevelOf(slots2, d) =
                  [head  |-> IF slot.prev = Nil THEN slot.next ELSE HeadOf(c),
                   tail  |-> IF slot.next = Nil THEN slot.prev ELSE TailOf(c),
                   qty   |-> LevelQty(OrdersOn(slots, c)) - slot.qty,
                   count |-> Len(c) - 1]
<1> DEFINE d == RemoveAt(c, k)
           slot == slots[c[k]]
           ids2 == Without(ids, slot.id)
           n == Len(c)
           f == OrdersOn(slots, c)
           g == RemoveAt(f, k)
<1>1. /\ c \in Seq(DOMAIN slots) /\ Distinct(c) /\ n \in Nat
      /\ \A j \in 1 .. n : c[j] \in DOMAIN slots /\ c[j] \in Nat /\ c[j] # Nil
      /\ f \in Seq(OrdersOf(Ids, Lots)) /\ Len(f) = n
      /\ \A j \in 1 .. n : f[j] = Order(slots[c[j]].id, slots[c[j]].qty)
      /\ p \in ValidPrices
  BY ThreadFacts
<1>0. /\ DOMAIN slots2 = DOMAIN slots
      /\ \A i \in DOMAIN slots : i # c[k] =>
           /\ SameOrder(slots2[i], slots[i])
           /\ slots2[i].next = IF i = slot.prev THEN slot.next ELSE slots[i].next
           /\ slots2[i].prev = IF i = slot.next THEN slot.prev ELSE slots[i].prev
  BY DEF TakenOut
<1>2. /\ d \in Seq(DOMAIN slots) /\ Distinct(d) /\ Len(d) = n - 1
      /\ \A j \in 1 .. n - 1 :
           LET m == PlaceIn(k, j)
           IN  /\ m \in 1 .. n /\ m # k
               /\ d[j] = c[m] /\ c[m] # c[k]
               /\ PrevIn(d, j) = IF m = k + 1 THEN PrevIn(c, k) ELSE PrevIn(c, m)
               /\ NextIn(d, j) = IF m = k - 1 THEN NextIn(c, k) ELSE NextIn(c, m)
      /\ HeadOf(d) = IF k = 1 THEN NextIn(c, k) ELSE HeadOf(c)
      /\ TailOf(d) = IF k = Len(c) THEN PrevIn(c, k) ELSE TailOf(c)
  <2>1. c \in Seq(DOMAIN slots) /\ Distinct(c)
    BY <1>1
  <2> QED BY ONLY <2>1, k \in 1 .. Len(c), RemoveLinks
<1>3. /\ g \in Seq(OrdersOf(Ids, Lots)) /\ Len(g) = n - 1
      /\ \A i \in 1 .. n - 1 : g[i] = IF i < k THEN f[i] ELSE f[i + 1]
      /\ LevelQty(g) = LevelQty(f) - f[k].qty
  <2> HIDE DEF f
  <2>1. k \in 1 .. Len(f)
    BY <1>1
  <2> QED BY <1>1, <2>1, LotsAreNat, RemovedFifo
<1>4. \A j \in 1 .. n : Rests(slots, ids, s, p, c, j)
  BY DEF Threaded
<1>5. /\ slot.prev = PrevIn(c, k) /\ slot.next = NextIn(c, k)
      /\ slot.id \in DOMAIN ids /\ ids[slot.id] = c[k]
  BY <1>4 DEF Rests
<1>6. /\ DOMAIN ids2 = DOMAIN ids \ {slot.id}
      /\ \A x \in DOMAIN ids : x # slot.id => ids2[x] = ids[x]
  BY DEF Without
<1>7. /\ slot.prev = Nil <=> k = 1
      /\ slot.next = Nil <=> k = n
  <2>1. k # 1 => k - 1 \in 1 .. n
    BY <1>1
  <2>2. k # n => k + 1 \in 1 .. n
    BY <1>1
  <2> QED BY <1>1, <1>5, <2>1, <2>2 DEF PrevIn, NextIn
<1> HIDE DEF f, g
<1>8. f[k].qty = slot.qty
  <2>1. f[k] = Order(slot.id, slot.qty)
    BY <1>1
  <2> QED BY <2>1 DEF Order
<1> HIDE DEF d, slot, ids2, n
<1>9. ASSUME NEW m \in 1 .. n, m # k
      PROVE  /\ c[m] = slot.prev <=> m = k - 1
             /\ c[m] = slot.next <=> m = k + 1
  <2>1. k # 1 => k - 1 \in 1 .. n
    BY <1>1 DEF n
  <2>2. k # n => k + 1 \in 1 .. n
    BY <1>1 DEF n
  <2>3. k \in Int /\ m \in Int /\ m >= 1 /\ m <= n /\ k >= 1 /\ k <= n /\ n \in Int
    BY <1>1 DEF n
  <2>4. m = k - 1 => k # 1
    BY <2>3
  <2>5. m = k + 1 => k # n
    BY <2>3
  <2> QED BY <1>1, <1>5, <2>1, <2>2, <2>4, <2>5 DEF PrevIn, NextIn, Distinct, n
<1>10. ASSUME NEW j \in 1 .. n - 1
       PROVE  /\ Rests(slots2, ids2, s, p, d, j)
              /\ Order(slots2[d[j]].id, slots2[d[j]].qty) = f[PlaceIn(k, j)]
  <2> DEFINE m == PlaceIn(k, j)
  <2>1. /\ m \in 1 .. n /\ m # k
        /\ d[j] = c[m] /\ c[m] # c[k]
        /\ PrevIn(d, j) = IF m = k + 1 THEN PrevIn(c, k) ELSE PrevIn(c, m)
        /\ NextIn(d, j) = IF m = k - 1 THEN NextIn(c, k) ELSE NextIn(c, m)
    BY <1>2
  <2> HIDE DEF m
  <2>2. Rests(slots, ids, s, p, c, m)
    BY <1>4, <2>1
  <2>3. /\ SameOrder(slots2[c[m]], slots[c[m]])
        /\ slots2[c[m]].next = IF c[m] = slot.prev THEN slot.next ELSE slots[c[m]].next
        /\ slots2[c[m]].prev = IF c[m] = slot.next THEN slot.prev ELSE slots[c[m]].prev
    BY <1>0, <1>1, <2>1
  <2>4. slots2[c[m]].next = NextIn(d, j) /\ slots2[c[m]].prev = PrevIn(d, j)
    BY <1>5, <1>9, <2>1, <2>2, <2>3 DEF Rests
  <2>5. slots[c[m]].id # slot.id
    BY <1>5, <2>1, <2>2 DEF Rests
  <2>6. Rests(slots2, ids2, s, p, d, j)
    BY <1>6, <2>1, <2>2, <2>3, <2>4, <2>5 DEF Rests, SameOrder
  <2>7. f[m] = Order(slots[c[m]].id, slots[c[m]].qty)
    BY <1>1, <2>1
  <2> QED BY <2>1, <2>3, <2>6, <2>7 DEF SameOrder, m
<1>11. d \in Seq(DOMAIN slots2)
  BY <1>0, <1>2
<1>12. Threaded(slots2, ids2, s, p, d)
  BY <1>1, <1>2, <1>10, <1>11 DEF Threaded
<1>13. OrdersOn(slots2, d) = g
  <2>1. DOMAIN d = 1 .. n - 1 /\ DOMAIN g = 1 .. n - 1
    BY <1>2, <1>3, ListEnds
  <2>2. \A j \in 1 .. n - 1 : Order(slots2[d[j]].id, slots2[d[j]].qty) = g[j]
    BY <1>3, <1>10 DEF PlaceIn
  <2>3. g = [j \in 1 .. n - 1 |-> g[j]]
    BY <1>3, <2>1, LenProperties
  <2> QED BY <2>1, <2>2, <2>3 DEF OrdersOn
<1>14. HeadOf(d) = (IF slot.prev = Nil THEN slot.next ELSE HeadOf(c))
       /\ TailOf(d) = (IF slot.next = Nil THEN slot.prev ELSE TailOf(c))
  BY <1>2, <1>5, <1>7 DEF n
<1>15. LevelOf(slots2, d) =
         [head |-> HeadOf(d), tail |-> TailOf(d), qty |-> LevelQty(f) - slot.qty, count |-> n - 1]
  BY <1>2, <1>3, <1>8, <1>13 DEF LevelOf
<1> QED BY <1>12, <1>13, <1>14, <1>15 DEF d, slot, ids2, f, g, n

\* Only the quantity of one slot changes.
OnlyQty(slots, at, q, slots2) ==
  /\ DOMAIN slots2 = DOMAIN slots
  /\ \A i \in DOMAIN slots : i # at => slots2[i] = slots[i]
  /\ slots2[at] = [slots[at] EXCEPT !.qty = q]


\* The k-th slot keeps its place with another quantity.
LEMMA ThreadReduces ==
  ASSUME NEW slots, NEW ids, Kept(slots, ids), NEW s, NEW p, NEW c,
         Threaded(slots, ids, s, p, c), NEW k \in 1 .. Len(c), NEW q \in Lots,
         NEW slots2, OnlyQty(slots, c[k], q, slots2)
  PROVE  /\ Threaded(slots2, ids, s, p, c)
         /\ OrdersOn(slots2, c) = Reduced(OrdersOn(slots, c), k, q)
         /\ LevelQty(OrdersOn(slots2, c)) = LevelQty(OrdersOn(slots, c)) - slots[c[k]].qty + q
<1> DEFINE n == Len(c)
           f == OrdersOn(slots, c)
           g == Reduced(f, k, q)
<1>1. /\ c \in Seq(DOMAIN slots) /\ Distinct(c) /\ n \in Nat /\ DOMAIN c = 1 .. n
      /\ \A j \in 1 .. n : c[j] \in DOMAIN slots /\ slots[c[j]] \in SlotSet
      /\ f \in Seq(OrdersOf(Ids, Lots)) /\ Len(f) = n
      /\ \A j \in 1 .. n : f[j] = Order(slots[c[j]].id, slots[c[j]].qty)
  BY ThreadFacts
<1>0. /\ DOMAIN slots2 = DOMAIN slots
      /\ \A i \in DOMAIN slots : i # c[k] => slots2[i] = slots[i]
      /\ slots2[c[k]] = [slots[c[k]] EXCEPT !.qty = q]
  BY DEF OnlyQty
<1>2. /\ g \in Seq(OrdersOf(Ids, Lots)) /\ Len(g) = n
      /\ \A i \in 1 .. n : i # k => g[i] = f[i]
      /\ g[k] = Order(f[k].id, q)
      /\ LevelQty(g) = LevelQty(f) - f[k].qty + q
  BY <1>1, LotsAreNat, ReducedFifo
<1> HIDE DEF f, g
<1>3. f[k].qty = slots[c[k]].qty /\ f[k].id = slots[c[k]].id
  <2>1. f[k] = Order(slots[c[k]].id, slots[c[k]].qty)
    BY <1>1
  <2> QED BY <2>1 DEF Order
<1> HIDE DEF n
<1>4. /\ slots2[c[k]].id = slots[c[k]].id /\ slots2[c[k]].qty = q /\ q > 0
      /\ slots2[c[k]].px = slots[c[k]].px
      /\ slots2[c[k]].prev = slots[c[k]].prev /\ slots2[c[k]].next = slots[c[k]].next
  BY <1>0, <1>1, LotsAreNat DEF SlotSet, Lots, n
<1>5. \A j \in 1 .. n : j # k => slots2[c[j]] = slots[c[j]]
  BY <1>0, <1>1 DEF Distinct, n
<1>6. ASSUME NEW j \in 1 .. n
      PROVE  /\ Rests(slots2, ids, s, p, c, j)
             /\ Order(slots2[c[j]].id, slots2[c[j]].qty) = g[j]
  <2>1. Rests(slots, ids, s, p, c, j)
    BY DEF Threaded, n
  <2>2. CASE j = k
    BY <1>2, <1>3, <1>4, <2>1, <2>2 DEF Rests
  <2>3. CASE j # k
    BY <1>1, <1>2, <1>5, <2>1, <2>3 DEF Rests
  <2> QED BY <2>2, <2>3
<1>7. Threaded(slots2, ids, s, p, c)
  BY <1>0, <1>1, <1>6 DEF Threaded, n
<1>8. OrdersOn(slots2, c) = g
  <2>1. DOMAIN g = 1 .. n
    BY <1>2, ListEnds
  <2>2. g = [j \in 1 .. n |-> g[j]]
    BY <1>2, <2>1, LenProperties
  <2> QED BY <1>1, <1>6, <2>2 DEF OrdersOn
<1> QED BY <1>2, <1>3, <1>7, <1>8 DEF f, g, n

-----------------------------------------------------------------------------
(* The free list.                                                          *)

Unused(ids, i) == \A id \in DOMAIN ids : ids[id] # i

\* F lists the slots that no id has, forward from `head'.
Freed(slots, ids, head, F) ==
  /\ F \in Seq(DOMAIN slots) /\ Distinct(F) /\ LinkedOn(slots, F) /\ head = HeadOf(F)
  /\ \A i \in DOMAIN slots : Unused(ids, i) <=> \E k \in 1 .. Len(F) : F[k] = i

LEMMA PushLinks ==
  ASSUME NEW S, NEW c \in Seq(S), Distinct(c), NEW at \in S,
         \A k \in 1 .. Len(c) : c[k] # at
  PROVE  LET d == <<at>> \o c
         IN  /\ d \in Seq(S) /\ Distinct(d) /\ Len(d) = Len(c) + 1
             /\ d[1] = at /\ NextIn(d, 1) = HeadOf(c) /\ HeadOf(d) = at
             /\ \A k \in 1 .. Len(c) : d[k + 1] = c[k] /\ NextIn(d, k + 1) = NextIn(c, k)
<1> DEFINE d == <<at>> \o c
           n == Len(c)
<1>1. n \in Nat /\ \A k \in 1 .. n : c[k] \in S
  BY ListEnds
<1>2. <<at>> \in Seq(S) /\ Len(<<at>>) = 1 /\ <<at>>[1] = at
  OBVIOUS
<1>3. /\ d \in Seq(S) /\ Len(d) = 1 + n
      /\ \A i \in 1 .. 1 + n : d[i] = IF i <= 1 THEN <<at>>[i] ELSE c[i - 1]
  BY <1>2, ConcatProperties
<1> HIDE DEF d, n
<1>4. Len(d) = n + 1 /\ d[1] = at
  BY <1>1, <1>2, <1>3
<1>5. ASSUME NEW i \in 1 .. n + 1, i # 1 PROVE i - 1 \in 1 .. n /\ d[i] = c[i - 1]
  <2>1. i \in 1 .. 1 + n /\ ~(i <= 1) /\ i - 1 \in 1 .. n
    BY <1>1, <1>5
  <2> QED BY <1>3, <2>1
<1>6. \A k \in 1 .. n : d[k + 1] = c[k]
  <2> SUFFICES ASSUME NEW k \in 1 .. n PROVE d[k + 1] = c[k]
    OBVIOUS
  <2>1. k + 1 \in 1 .. n + 1 /\ k + 1 # 1 /\ (k + 1) - 1 = k
    BY <1>1
  <2> QED BY <1>5, <2>1
<1>7. Distinct(d)
  <2> SUFFICES ASSUME NEW i \in 1 .. n + 1, NEW j \in 1 .. n + 1, d[i] = d[j] PROVE i = j
    BY <1>4 DEF Distinct
  <2>1. CASE i # 1 /\ j # 1
    <3>1. i - 1 = j - 1
      BY <1>5, <2>1 DEF Distinct, n
    <3> QED BY <1>1, <3>1
  <2>2. CASE i = 1 \/ j = 1
    BY <1>4, <1>5, <2>2 DEF n
  <2> QED BY <2>1, <2>2
<1>8. HeadOf(d) = at
  <2>1. HeadOf(d) = IF Len(d) = 0 THEN Nil ELSE d[1]
    BY <1>3, ListEnds
  <2> QED BY <1>1, <1>4, <2>1
<1>9. NextIn(d, 1) = HeadOf(c)
  <2>1. HeadOf(c) = IF n = 0 THEN Nil ELSE c[1]
    BY ListEnds DEF n
  <2>2. n # 0 => 1 \in 1 .. n /\ 1 # n + 1
    BY <1>1
  <2>3. n # 0 => d[1 + 1] = c[1]
    BY <1>6, <2>2
  <2> QED BY <1>1, <1>4, <2>1, <2>2, <2>3 DEF NextIn
<1>10. ASSUME NEW k \in 1 .. n PROVE NextIn(d, k + 1) = NextIn(c, k)
  <2>1. k + 1 = n + 1 <=> k = n
    BY <1>1
  <2>2. k # n => k + 1 \in 1 .. n
    BY <1>1
  <2> QED BY <1>4, <1>6, <2>1, <2>2 DEF NextIn, n
<1> QED BY <1>3, <1>4, <1>6, <1>7, <1>8, <1>9, <1>10 DEF d, n

\* The slot that is allocated was on the free list, or is new.
LEMMA FreeIsUnused ==
  ASSUME NEW cap \in Nat, NEW slots, DOMAIN slots = 0 .. cap - 1, NEW ids,
         \A x \in DOMAIN ids : ids[x] \in DOMAIN slots,
         NEW head, NEW F, Freed(slots, ids, head, F),
         NEW at, at = IF head # Nil THEN head ELSE cap
  PROVE  /\ at \in Nat /\ Unused(ids, at)
         /\ DOMAIN slots \cup {at} = 0 .. (IF head # Nil THEN cap ELSE cap + 1) - 1
<1>1. /\ F \in Seq(DOMAIN slots) /\ head = HeadOf(F)
      /\ \A i \in DOMAIN slots : Unused(ids, i) <=> \E k \in 1 .. Len(F) : F[k] = i
  BY DEF Freed
<1>2. /\ Len(F) \in Nat /\ \A k \in 1 .. Len(F) : F[k] \in DOMAIN slots
      /\ head = IF Len(F) = 0 THEN Nil ELSE F[1]
  <2>1. Len(F) \in Nat /\ \A k \in 1 .. Len(F) : F[k] \in DOMAIN slots
    BY <1>1, ListEnds
  <2>2. head = IF Len(F) = 0 THEN Nil ELSE F[1]
    BY <1>1, ListEnds
  <2> QED BY <2>1, <2>2
<1>3. CASE head = Nil
  <2>1. at = cap /\ at \notin DOMAIN slots
    BY <1>3
  <2> QED BY <1>3, <2>1 DEF Unused
<1>4. CASE head # Nil
  <2>1. 1 \in 1 .. Len(F) /\ at = F[1]
    BY <1>2, <1>4
  <2>2. at \in DOMAIN slots /\ Unused(ids, at)
    BY <1>1, <1>2, <2>1
  <2>3. DOMAIN slots \cup {at} = DOMAIN slots
    BY <2>2
  <2> QED BY <1>4, <2>2, <2>3
<1> QED BY <1>3, <1>4

\* What is left of the free list is one.
Allocates(cap, slots, ids, head, at, slots2) ==
  /\ cap \in Nat /\ DOMAIN slots = 0 .. cap - 1
  /\ \A x \in DOMAIN ids : ids[x] \in DOMAIN slots
  /\ at = IF head # Nil THEN head ELSE cap
  /\ DOMAIN slots2 = DOMAIN slots \cup {at}
  /\ \A i \in DOMAIN slots : Unused(ids, i) /\ i # at => slots2[i].next = slots[i].next

LEMMA FreeTaken ==
  ASSUME NEW cap, NEW slots, NEW ids, NEW head, NEW at, NEW slots2,
         Allocates(cap, slots, ids, head, at, slots2),
         NEW F, Freed(slots, ids, head, F),
         NEW id, id \notin DOMAIN ids
  PROVE  \E G : Freed(slots2, With(ids, id, at),
                      IF head # Nil THEN slots[at].next ELSE Nil, G)
<1> DEFINE n == Len(F)
           ids2 == With(ids, id, at)
<1>0. /\ cap \in Nat /\ DOMAIN slots = 0 .. cap - 1
      /\ \A x \in DOMAIN ids : ids[x] \in DOMAIN slots
      /\ at = IF head # Nil THEN head ELSE cap
      /\ DOMAIN slots2 = DOMAIN slots \cup {at}
      /\ \A i \in DOMAIN slots : Unused(ids, i) /\ i # at => slots2[i].next = slots[i].next
  BY DEF Allocates
<1>1. /\ F \in Seq(DOMAIN slots) /\ Distinct(F) /\ head = HeadOf(F)
      /\ \A k \in 1 .. n : slots[F[k]].next = NextIn(F, k)
      /\ \A i \in DOMAIN slots : Unused(ids, i) <=> \E k \in 1 .. n : F[k] = i
  BY DEF Freed, LinkedOn
<1>2. /\ n \in Nat /\ \A k \in 1 .. n : F[k] \in DOMAIN slots /\ F[k] \in Nat /\ F[k] # Nil
      /\ head = IF n = 0 THEN Nil ELSE F[1]
  <2>1. n \in Nat /\ \A k \in 1 .. n : F[k] \in DOMAIN slots
    BY <1>1, ListEnds
  <2>2. head = IF n = 0 THEN Nil ELSE F[1]
    BY <1>1, ListEnds
  <2> QED BY <1>0, <2>1, <2>2 DEF Nil
<1>3. DOMAIN ids2 = DOMAIN ids \cup {id} /\ ids2[id] = at /\ \A x \in DOMAIN ids : ids2[x] = ids[x]
  BY DEF With
<1> HIDE DEF n, ids2
<1>4. \A i : Unused(ids2, i) <=> Unused(ids, i) /\ i # at
  BY <1>3 DEF Unused
<1>5. CASE n = 0
  <2>1. head = Nil
    BY <1>2, <1>5
  <2>3. Freed(slots2, ids2, Nil, <<>>)
    <3>1. <<>> \in Seq(DOMAIN slots2) /\ Distinct(<<>>) /\ LinkedOn(slots2, <<>>)
          /\ HeadOf(<<>>) = Nil /\ Len(<<>>) = 0
      BY DEF Distinct, LinkedOn, HeadOf
    <3>2. \A i \in DOMAIN slots2 : ~Unused(ids2, i)
      BY <1>0, <1>1, <1>2, <1>4, <1>5
    <3> QED BY <3>1, <3>2 DEF Freed
  <2> QED BY <2>1, <2>3 DEF ids2
<1>6. CASE n # 0
  <2> DEFINE G == RemoveAt(F, 1)
  <2>1. 1 \in 1 .. n /\ head = F[1] /\ at = F[1] /\ head # Nil /\ at \in DOMAIN slots
        /\ DOMAIN slots2 = DOMAIN slots
    BY <1>0, <1>2, <1>6
  <2>3. /\ G \in Seq(DOMAIN slots) /\ Distinct(G) /\ Len(G) = n - 1
        /\ \A j \in 1 .. n - 1 :
             LET m == PlaceIn(1, j)
             IN  /\ m \in 1 .. n /\ m # 1 /\ G[j] = F[m] /\ F[m] # F[1]
                 /\ NextIn(G, j) = IF m = 1 - 1 THEN NextIn(F, 1) ELSE NextIn(F, m)
        /\ HeadOf(G) = NextIn(F, 1)
    <3>1. F \in Seq(DOMAIN slots) /\ Distinct(F) /\ 1 \in 1 .. Len(F)
      BY <1>1, <2>1 DEF n
    <3> QED BY ONLY <3>1, RemoveLinks DEF n
  <2> HIDE DEF G
  <2>4. ASSUME NEW j \in 1 .. n - 1
        PROVE  /\ j + 1 \in 1 .. n /\ G[j] = F[j + 1] /\ F[j + 1] # at
               /\ NextIn(G, j) = NextIn(F, j + 1)
    <3>1. PlaceIn(1, j) = j + 1 /\ j + 1 # 1 - 1
      BY <1>2 DEF PlaceIn
    <3> QED BY <2>1, <2>3, <3>1
  <2>5. LinkedOn(slots2, G)
    <3>1. ASSUME NEW j \in 1 .. n - 1 PROVE slots2[G[j]].next = NextIn(G, j)
      <4>1. slots2[F[j + 1]].next = slots[F[j + 1]].next
        BY <1>0, <1>1, <1>2, <2>4
      <4> QED BY <1>1, <2>4, <4>1
    <3> QED BY <2>3, <3>1 DEF LinkedOn
  <2>6. ASSUME NEW i \in DOMAIN slots2
        PROVE  Unused(ids2, i) <=> \E j \in 1 .. n - 1 : G[j] = i
    <3>1. Unused(ids2, i) <=> (\E k \in 1 .. n : F[k] = i) /\ i # at
      BY <1>1, <1>4, <2>1
    <3>2. ASSUME NEW k \in 1 .. n, F[k] = i, i # at PROVE \E j \in 1 .. n - 1 : G[j] = i
      <4>1. k # 1
        BY <2>1, <3>2
      <4>2. k - 1 \in 1 .. n - 1 /\ (k - 1) + 1 = k
        BY <1>2, <4>1
      <4> QED BY <2>4, <3>2, <4>2
    <3> QED BY <2>4, <3>1, <3>2
  <2>7. slots[at].next = HeadOf(G)
    BY <1>1, <2>1, <2>3
  <2>8. Freed(slots2, ids2, slots[at].next, G)
    BY <2>1, <2>3, <2>5, <2>6, <2>7 DEF Freed
  <2> QED BY <2>1, <2>8 DEF ids2
<1> QED BY <1>5, <1>6

\* The slot that is freed goes before the others.
GivesBack(slots, ids, at, head, slots2) ==
  /\ at \in DOMAIN slots /\ DOMAIN slots2 = DOMAIN slots /\ slots2[at].next = head
  /\ \A i \in DOMAIN slots : Unused(ids, i) => slots2[i].next = slots[i].next

LEMMA FreeGiven ==
  ASSUME NEW slots, NEW ids, NEW head, NEW F, Freed(slots, ids, head, F),
         NEW id \in DOMAIN ids, \A x \in DOMAIN ids : ids[x] = ids[id] => x = id,
         NEW at, at = ids[id], NEW slots2, GivesBack(slots, ids, at, head, slots2)
  PROVE  \E G : Freed(slots2, Without(ids, id), at, G)
<1> DEFINE n == Len(F)
           ids2 == Without(ids, id)
           G == <<at>> \o F
<1>0. /\ at \in DOMAIN slots /\ DOMAIN slots2 = DOMAIN slots /\ slots2[at].next = head
      /\ \A i \in DOMAIN slots : Unused(ids, i) => slots2[i].next = slots[i].next
  BY DEF GivesBack
<1>1. /\ F \in Seq(DOMAIN slots) /\ Distinct(F) /\ head = HeadOf(F)
      /\ \A k \in 1 .. n : slots[F[k]].next = NextIn(F, k)
      /\ \A i \in DOMAIN slots : Unused(ids, i) <=> \E k \in 1 .. n : F[k] = i
  BY DEF Freed, LinkedOn
<1>2. n \in Nat /\ \A k \in 1 .. n : F[k] \in DOMAIN slots
  BY <1>0, <1>1, ListEnds
<1>3. DOMAIN ids2 = DOMAIN ids \ {id} /\ \A x \in DOMAIN ids2 : ids2[x] = ids[x]
  BY DEF Without
<1>4. \A k \in 1 .. n : F[k] # at /\ Unused(ids, F[k])
  BY <1>0, <1>1, <1>2 DEF Unused
<1>5. /\ G \in Seq(DOMAIN slots) /\ Distinct(G) /\ Len(G) = n + 1
      /\ G[1] = at /\ NextIn(G, 1) = HeadOf(F) /\ HeadOf(G) = at
      /\ \A k \in 1 .. n : G[k + 1] = F[k] /\ NextIn(G, k + 1) = NextIn(F, k)
  BY <1>0, <1>1, <1>4, PushLinks
<1> HIDE DEF n, ids2, G
<1>6. \A i : Unused(ids2, i) <=> Unused(ids, i) \/ i = at
  BY <1>3 DEF Unused
<1>7. ASSUME NEW i \in 1 .. n + 1, i # 1 PROVE i - 1 \in 1 .. n /\ (i - 1) + 1 = i
  BY <1>0, <1>2, <1>7
<1>8. ASSUME NEW k \in 1 .. n + 1 PROVE slots2[G[k]].next = NextIn(G, k)
  <2>1. CASE k = 1
    BY <1>0, <1>1, <1>5, <2>1
  <2>2. CASE k # 1
    <3>1. k - 1 \in 1 .. n /\ (k - 1) + 1 = k
      BY <1>7, <2>2
    <3>2. G[k] = F[k - 1] /\ NextIn(G, k) = NextIn(F, k - 1)
      BY <1>5, <3>1
    <3>3. slots2[F[k - 1]].next = slots[F[k - 1]].next
      BY <1>0, <1>2, <1>4, <3>1
    <3> QED BY <1>0, <1>1, <3>1, <3>2, <3>3
  <2> QED BY <2>1, <2>2
<1>9. ASSUME NEW i \in DOMAIN slots
      PROVE  Unused(ids2, i) <=> \E k \in 1 .. n + 1 : G[k] = i
  <2>1. ASSUME NEW k \in 1 .. n, F[k] = i PROVE \E j \in 1 .. n + 1 : G[j] = i
    <3>1. k + 1 \in 1 .. n + 1
      BY <1>2
    <3> QED BY <1>5, <2>1, <3>1
  <2>2. 1 \in 1 .. n + 1
    BY <1>2
  <2>3. ASSUME NEW k \in 1 .. n + 1, G[k] = i PROVE i = at \/ \E j \in 1 .. n : F[j] = i
    BY <1>5, <1>7, <2>3
  <2> QED BY <1>0, <1>1, <1>5, <1>6, <2>1, <2>2, <2>3
<1>10. Freed(slots2, ids2, at, G)
  BY <1>0, <1>5, <1>8, <1>9 DEF Freed, LinkedOn
<1> QED BY <1>10 DEF ids2

-----------------------------------------------------------------------------
(* The invariant, stated of a book value.                                  *)

Lvls == [head : Links, tail : Links, qty : 0 .. MaxQty, count : Nat]

BookOf(sides, slots, cap, head, live, ids) ==
  [sides |-> sides,
   slab  |-> [slots |-> slots, cap |-> cap, freeHead |-> head, live |-> live],
   ids   |-> ids]

\* The fields of a book value, its indexed sides, and its count of orders.
Shaped(b) ==
  /\ b = BookOf(b.sides, b.slab.slots, b.slab.cap, b.slab.freeHead, b.slab.live, b.ids)
  /\ b.slab.cap \in Nat /\ DOMAIN b.slab.slots = Indices(b.slab)
  /\ DOMAIN b.sides = Sides
  /\ \A s \in Sides : Indexed(b.sides[s], Lvls, ValidPrices)
  /\ Kept(b.slab.slots, b.ids)
  /\ IsFiniteSet(DOMAIN b.ids) /\ b.slab.live = Cardinality(DOMAIN b.ids)

\* The slots met from the head of a level on, and the orders they hold.
ListOf(b, s, p) == Chain(b.slab, LevelAt(b.sides[s], Locate(p)).head)
Orders(b, s, p) == OrdersOn(b.slab.slots, ListOf(b, s, p))

OnLevel(b, s, p, c) ==
  /\ Threaded(b.slab.slots, b.ids, s, p, c)
  /\ LevelAt(b.sides[s], Locate(p)) = LevelOf(b.slab.slots, c)

\* Every level keeps its list, which only a price a caller may pass can have.
Listed(b) == \A s \in Sides, p \in Int : OnLevel(b, s, p, ListOf(b, s, p))

\* The slot of a live id holds its order and is on the list of its side and price.
NamedAt(b, id) ==
  LET at == b.ids[id]
      slot == b.slab.slots[at]
      list == ListOf(b, SideOf(slot), AbsPx(slot))
  IN  /\ at \in DOMAIN b.slab.slots /\ slot.id = id
      /\ SideOf(slot) \in Sides /\ AbsPx(slot) \in ValidPrices
      /\ \E k \in 1 .. Len(list) : list[k] = at

Named(b) == \A id \in DOMAIN b.ids : NamedAt(b, id)

Sound(b) ==
  /\ Shaped(b) /\ Listed(b) /\ Named(b)
  /\ \E F : Freed(b.slab.slots, b.ids, b.slab.freeHead, F)

LEMMA LevelsAre == AreLevels(Lvls, ValidPrices)
<1>1. EmptyLevel \in Lvls
  BY LotsAreNat DEF EmptyLevel, Lvls, Links
<1>2. \A l \in Lvls : l.count \in Nat
  BY DEF Lvls
<1>3. ValidPrices \in SUBSET Nat
  BY ValidIsPositive
<1> QED BY <1>1, <1>2, <1>3 DEF AreLevels

LEMMA ListIs ==
  ASSUME NEW b, Shaped(b), NEW s, NEW p, NEW c, OnLevel(b, s, p, c)
  PROVE  c = ListOf(b, s, p)
<1>1. c \in Seq(Indices(b.slab)) /\ Distinct(c) /\ b.slab.cap \in Nat
  BY DEF OnLevel, Threaded, Shaped
<1>2. LinkedOn(b.slab.slots, c)
  BY DEF OnLevel, Threaded, Rests, LinkedOn
<1>3. Chain(b.slab, HeadOf(c)) = c
  BY <1>1, <1>2, ChainFollows
<1>4. LevelAt(b.sides[s], Locate(p)).head = HeadOf(c)
  BY DEF OnLevel, LevelOf
<1> QED BY <1>3, <1>4 DEF ListOf

\* What is known of each level of a sound book.
LEMMA LevelFacts ==
  ASSUME NEW b, Shaped(b), NEW s \in Sides, NEW p \in Int, NEW c, OnLevel(b, s, p, c)
  PROVE  /\ Orders(b, s, p) = OrdersOn(b.slab.slots, c)
         /\ Orders(b, s, p) \in Seq(OrdersOf(Ids, Lots))
         /\ Len(Orders(b, s, p)) = Len(c) /\ Len(c) \in Nat
         /\ LevelAt(b.sides[s], Locate(p)) = LevelOf(b.slab.slots, c)
         /\ LevelAt(b.sides[s], Locate(p)) \in Lvls
         /\ LevelAt(b.sides[s], Locate(p)).qty = LevelQty(Orders(b, s, p))
         /\ LevelAt(b.sides[s], Locate(p)).count = Len(c)
         /\ LevelAt(b.sides[s], Locate(p)).head = HeadOf(c)
         /\ LevelAt(b.sides[s], Locate(p)).tail = TailOf(c)
         /\ LevelQty(Orders(b, s, p)) \in 0 .. MaxQty
<1>1. Kept(b.slab.slots, b.ids) /\ Threaded(b.slab.slots, b.ids, s, p, c)
      /\ Indexed(b.sides[s], Lvls, ValidPrices)
  BY DEF Shaped, OnLevel
<1>2. c = ListOf(b, s, p)
  BY ListIs
<1>3. Orders(b, s, p) = OrdersOn(b.slab.slots, c)
  BY <1>2 DEF Orders
<1>4. Orders(b, s, p) \in Seq(OrdersOf(Ids, Lots)) /\ Len(Orders(b, s, p)) = Len(c)
      /\ Len(c) \in Nat
  BY <1>1, <1>3, ThreadFacts
<1> DEFINE lvl == LevelAt(b.sides[s], Locate(p))
<1>5. lvl \in Lvls
  BY <1>1, LevelsAre, LevelIsLevel
<1>6. lvl = LevelOf(b.slab.slots, c)
  BY DEF OnLevel
<1> HIDE DEF lvl
<1>7. lvl.qty = LevelQty(Orders(b, s, p)) /\ lvl.count = Len(c)
      /\ lvl.head = HeadOf(c) /\ lvl.tail = TailOf(c)
  BY <1>3, <1>6 DEF LevelOf
<1>8. lvl.qty \in 0 .. MaxQty
  BY <1>5 DEF Lvls
<1> QED BY <1>3, <1>4, <1>5, <1>6, <1>7, <1>8 DEF lvl

LEMMA WrapStays == \A n \in 0 .. MaxQty : Wrap(n) = n
<1> SUFFICES ASSUME NEW n \in 0 .. MaxQty PROVE Wrap(n) = n
  OBVIOUS
<1>1. MaxQty \in Nat /\ n \in Nat /\ n < MaxQty + 1 /\ MaxQty + 1 \in Nat \ {0}
  BY LotsAreNat
<1>2. n % (MaxQty + 1) = n
  <2>1. n = 0 * (MaxQty + 1) + n
    BY <1>1
  <2> QED BY <1>1, <2>1, DivModUnique
<1> QED BY <1>2 DEF Wrap

-----------------------------------------------------------------------------
(* Inserting an order: alloc, the id map, and link_tail.                   *)

\* The slots once a new order is linked behind `tail'.
SlotsWith(slots, at, slot) == [i \in DOMAIN slots \cup {at} |-> IF i = at THEN slot ELSE slots[i]]

SlotsLinked(slots, at, slot, tail) ==
  LET new == SlotsWith(slots, at, slot)
  IN  IF tail = Nil THEN new ELSE [new EXCEPT ![tail].next = at, ![at].prev = tail]

LinkedBehind(slots, at, id, qty, px, tail, slots2) ==
  /\ DOMAIN slots2 = DOMAIN slots \cup {at}
  /\ slots2[at] = Slot(id, qty, px, tail, Nil)
  /\ \A i \in DOMAIN slots : i # at /\ i # tail => slots2[i] = slots[i]
  /\ tail # Nil => slots2[tail] = [slots[tail] EXCEPT !.next = at]

LEMMA LinkedSlots ==
  ASSUME NEW slots, slots \in [DOMAIN slots -> SlotSet], NEW at, NEW tail,
         tail # Nil => tail \in DOMAIN slots /\ tail # at,
         NEW id, NEW qty, NEW px
  PROVE  LinkedBehind(slots, at, id, qty, px, tail,
                      SlotsLinked(slots, at, Slot(id, qty, px, Nil, Nil), tail))
<1> DEFINE slot == Slot(id, qty, px, Nil, Nil)
           new == SlotsWith(slots, at, slot)
           slots2 == SlotsLinked(slots, at, slot, tail)
<1>1. /\ DOMAIN new = DOMAIN slots \cup {at} /\ new[at] = slot
      /\ \A i \in DOMAIN slots : i # at => new[i] = slots[i]
  BY DEF SlotsWith
<1>2. slots2 = IF tail = Nil THEN new ELSE [new EXCEPT ![tail].next = at, ![at].prev = tail]
  BY DEF SlotsLinked
<1> HIDE DEF new, slots2, slot
<1>3. CASE tail = Nil
  <2>1. slots2 = new
    BY <1>2, <1>3
  <2>2. slot = Slot(id, qty, px, tail, Nil)
    BY <1>3 DEF slot
  <2> QED BY <1>1, <1>3, <2>1, <2>2 DEF LinkedBehind, slots2, slot
<1>4. CASE tail # Nil
  <2> DEFINE mid == [new EXCEPT ![tail].next = at]
  <2>1. slots2 = [mid EXCEPT ![at].prev = tail]
    BY <1>2, <1>4
  <2>2. /\ DOMAIN mid = DOMAIN new
        /\ mid[tail] = [slots[tail] EXCEPT !.next = at]
        /\ \A i \in DOMAIN new : i # tail => mid[i] = new[i]
    BY <1>1, <1>4
  <2> HIDE DEF mid
  <2>3. /\ DOMAIN slots2 = DOMAIN new
        /\ slots2[at] = [slot EXCEPT !.prev = tail]
        /\ \A i \in DOMAIN new : i # at => slots2[i] = mid[i]
    BY <1>1, <1>4, <2>1, <2>2
  <2>4. [slot EXCEPT !.prev = tail] = Slot(id, qty, px, tail, Nil)
    BY DEF slot, Slot
  <2>5. /\ slots2[at] = Slot(id, qty, px, tail, Nil)
        /\ \A i \in DOMAIN slots : i # at /\ i # tail => slots2[i] = slots[i]
        /\ slots2[tail] = [slots[tail] EXCEPT !.next = at]
        /\ DOMAIN slots2 = DOMAIN slots \cup {at}
    BY <1>1, <1>4, <2>2, <2>3, <2>4
  <2> QED BY <2>5 DEF slots2, slot, LinkedBehind
<1> QED BY <1>3, <1>4

\* Slots and one side of a book value, replaced.
Edited(b, slots, side, sl) == [b EXCEPT !.slab.slots = slots, !.sides[side] = sl]

LEMMA BookEdited ==
  ASSUME NEW sides, NEW slots, NEW cap, NEW head, NEW live, NEW ids,
         NEW slots2, NEW side, NEW side2
  PROVE  Edited(BookOf(sides, slots, cap, head, live, ids), slots2, side, side2)
           = BookOf([sides EXCEPT ![side] = side2], slots2, cap, head, live, ids)
<1> DEFINE a == BookOf(sides, slots, cap, head, live, ids)
           e == [a EXCEPT !.slab.slots = slots2]
           slab2 == [slots |-> slots2, cap |-> cap, freeHead |-> head, live |-> live]
           sides2 == [sides EXCEPT ![side] = side2]
<1>1. [a.slab EXCEPT !.slots = slots2] = slab2
  BY DEF BookOf
<1>2. e = [a EXCEPT !.slab = slab2]
  BY <1>1
<1> HIDE DEF slab2, e
<1>3. e = [sides |-> sides, slab |-> slab2, ids |-> ids]
  BY <1>2 DEF BookOf
<1>4. [e EXCEPT !.sides[side] = side2] = [e EXCEPT !.sides = sides2]
  BY <1>3
<1> HIDE DEF sides2
<1>5. [e EXCEPT !.sides = sides2] = [sides |-> sides2, slab |-> slab2, ids |-> ids]
  BY <1>3
<1>6. Edited(a, slots2, side, side2) = [e EXCEPT !.sides[side] = side2]
  BY DEF Edited, e
<1> QED BY <1>4, <1>5, <1>6 DEF BookOf, slab2, sides2

Insert(b, id, side, px, qty) ==
  LinkTail(AllocOrder(b, id, side, px, qty), side, Locate(px), AllocAt(b.slab))

\* The book an insertion leaves, field by field.
LEMMA InsertParts ==
  ASSUME NEW b, Shaped(b), NEW id, NEW side \in Sides, NEW px, NEW qty
  PROVE  LET at == AllocAt(b.slab)
             slot == Slot(id, qty, SignedPx(side, px), Nil, Nil)
             reuse == b.slab.freeHead # Nil
             lvl == LevelAt(b.sides[side], Locate(px))
             linked == [head  |-> IF lvl.tail = Nil THEN at ELSE lvl.head,
                        tail  |-> at,
                        qty   |-> Wrap(lvl.qty + qty),
                        count |-> lvl.count + 1]
         IN  Insert(b, id, side, px, qty) =
               BookOf([b.sides EXCEPT ![side] = SetLevel(b.sides[side], px, linked)],
                      SlotsLinked(b.slab.slots, at, slot, lvl.tail),
                      IF reuse THEN b.slab.cap ELSE b.slab.cap + 1,
                      IF reuse THEN b.slab.slots[at].next ELSE Nil,
                      b.slab.live + 1,
                      With(b.ids, id, at))
<1> DEFINE at == AllocAt(b.slab)
           slot == Slot(id, qty, SignedPx(side, px), Nil, Nil)
           reuse == b.slab.freeHead # Nil
           lvl == LevelAt(b.sides[side], Locate(px))
           linked == [head  |-> IF lvl.tail = Nil THEN at ELSE lvl.head,
                      tail  |-> at,
                      qty   |-> Wrap(lvl.qty + qty),
                      count |-> lvl.count + 1]
           cap2 == IF reuse THEN b.slab.cap ELSE b.slab.cap + 1
           head2 == IF reuse THEN b.slab.slots[at].next ELSE Nil
           live2 == b.slab.live + 1
           ids2 == With(b.ids, id, at)
           new == SlotsWith(b.slab.slots, at, slot)
           a == BookOf(b.sides, new, cap2, head2, live2, ids2)
           slots2 == SlotsLinked(b.slab.slots, at, slot, lvl.tail)
           side2 == SetLevel(b.sides[side], px, linked)
<1>1. /\ b = BookOf(b.sides, b.slab.slots, b.slab.cap, b.slab.freeHead, b.slab.live, b.ids)
      /\ DOMAIN b.slab.slots = Indices(b.slab) /\ DOMAIN b.sides = Sides
  BY DEF Shaped
<1>2. Alloc(b.slab, id, qty, SignedPx(side, px))
        = [slots |-> new, cap |-> cap2, freeHead |-> head2, live |-> live2]
  BY <1>1 DEF Alloc, SlotsWith
<1> HIDE DEF slot, cap2, head2, live2, ids2, new
<1>3. AllocOrder(b, id, side, px, qty) = a
  <2>1. AllocOrder(b, id, side, px, qty)
          = [b EXCEPT !.slab = [slots |-> new, cap |-> cap2, freeHead |-> head2, live |-> live2],
                      !.ids = ids2]
    BY <1>2 DEF AllocOrder, ids2
  <2> QED BY <1>1, <2>1 DEF BookOf
<1>4. /\ a.sides = b.sides /\ a.slab.slots = new /\ a.slab.cap = cap2
      /\ a.slab.freeHead = head2 /\ a.slab.live = live2 /\ a.ids = ids2
  BY DEF BookOf
<1>5. a.slab.slots[at].qty = qty
  BY <1>4 DEF new, SlotsWith, slot, Slot
<1>6. slots2 = IF lvl.tail = Nil THEN new ELSE [new EXCEPT ![lvl.tail].next = at, ![at].prev = lvl.tail]
  BY DEF SlotsLinked, new
<1>7. LinkTail(a, side, Locate(px), at)
        = [a EXCEPT
             !.slab.slots = IF lvl.tail = Nil THEN new
                            ELSE [new EXCEPT ![lvl.tail].next = at, ![at].prev = lvl.tail],
             !.sides[side] = side2]
  <2> HIDE DEF a, at
  <2>1. side2 = AfterCountChange(PutLevel(a.sides[side], Locate(px), linked), Locate(px), lvl.count)
    BY <1>4 DEF SetLevel
  <2>2. LevelAt(a.sides[side], Locate(px)) = lvl
    BY <1>4
  <2> QED BY <1>4, <1>5, <2>1, <2>2 DEF LinkTail
<1> HIDE DEF slots2, side2, lvl, at
<1>8. LinkTail(a, side, Locate(px), at) = Edited(a, slots2, side, side2)
  <2> HIDE DEF a
  <2> QED BY <1>6, <1>7 DEF Edited
<1>9. Edited(a, slots2, side, side2)
        = BookOf([b.sides EXCEPT ![side] = side2], slots2, cap2, head2, live2, ids2)
  BY BookEdited
<1>10. Insert(b, id, side, px, qty) = LinkTail(a, side, Locate(px), at)
  BY <1>3 DEF Insert, at
<1> HIDE DEF a
<1> QED BY <1>8, <1>9, <1>10 DEF slots2, side2, lvl, at, slot, cap2, head2, live2, ids2

\* A book of which all levels but one kept their list.
LEMMA Relisted ==
  ASSUME NEW b, NEW r, Shaped(b), Listed(b), Shaped(r),
         NEW side \in Sides, NEW px \in Int, NEW d, OnLevel(r, side, px, d),
         \A s \in Sides, p \in Int :
           s # side \/ p # px =>
             /\ OnLevel(r, s, p, ListOf(b, s, p))
             /\ OrdersOn(r.slab.slots, ListOf(b, s, p)) = OrdersOn(b.slab.slots, ListOf(b, s, p))
  PROVE  /\ Listed(r) /\ ListOf(r, side, px) = d
         /\ Orders(r, side, px) = OrdersOn(r.slab.slots, d)
         /\ \A s \in Sides, p \in Int :
              s # side \/ p # px => /\ ListOf(r, s, p) = ListOf(b, s, p)
                                    /\ Orders(r, s, p) = Orders(b, s, p)
<1>1. ListOf(r, side, px) = d
  BY ListIs
<1>2. ASSUME NEW s \in Sides, NEW p \in Int, s # side \/ p # px
      PROVE  ListOf(r, s, p) = ListOf(b, s, p) /\ Orders(r, s, p) = Orders(b, s, p)
  <2>1. ListOf(r, s, p) = ListOf(b, s, p)
    BY <1>2, ListIs
  <2> QED BY <1>2, <2>1 DEF Orders
<1>3. Listed(r)
  BY <1>1, <1>2 DEF Listed
<1> QED BY <1>1, <1>2, <1>3 DEF Orders

\* Where a live id is.
LEMMA NamedFacts ==
  ASSUME NEW b, Sound(b), NEW id \in DOMAIN b.ids
  PROVE  LET at == b.ids[id]
             slot == b.slab.slots[at]
             s == SideOf(slot)
             p == AbsPx(slot)
         IN  /\ id \in Ids /\ at \in DOMAIN b.slab.slots /\ at \in Nat
             /\ slot \in SlotSet /\ slot.id = id /\ slot.qty \in Lots
             /\ s \in Sides /\ p \in ValidPrices /\ p \in Int
             /\ OnLevel(b, s, p, ListOf(b, s, p))
             /\ slot.px = SignedPx(s, p)
             /\ \E k \in 1 .. Len(ListOf(b, s, p)) : ListOf(b, s, p)[k] = at
<1> DEFINE at == b.ids[id]
           slot == b.slab.slots[at]
           s == SideOf(slot)
           p == AbsPx(slot)
           c == ListOf(b, s, p)
<1>1. /\ at \in DOMAIN b.slab.slots /\ slot.id = id
      /\ s \in Sides /\ p \in ValidPrices /\ \E k \in 1 .. Len(c) : c[k] = at
  BY DEF Sound, Named, NamedAt
<1>2. p \in Int
  BY <1>1, ValidIsPositive
<1>3. Kept(b.slab.slots, b.ids)
  BY DEF Sound, Shaped
<1> HIDE DEF c, p, s, slot, at
<1>4. OnLevel(b, s, p, c)
  BY <1>1, <1>2 DEF Sound, Listed, c
<1>5. PICK k \in 1 .. Len(c) : c[k] = at
  BY <1>1
<1>6. Rests(b.slab.slots, b.ids, s, p, c, k) /\ Threaded(b.slab.slots, b.ids, s, p, c)
  BY <1>4 DEF OnLevel, Threaded
<1>7. b.slab.slots[c[k]].qty \in Lots /\ c[k] \in Nat /\ b.slab.slots[c[k]] \in SlotSet
  BY <1>3, <1>6, ThreadFacts
<1>8. slot.px = SignedPx(s, p) /\ slot.qty \in Lots /\ at \in Nat /\ slot \in SlotSet /\ id \in Ids
  BY <1>3, <1>5, <1>6, <1>7 DEF Rests, Kept, slot
<1> QED BY <1>1, <1>2, <1>4, <1>8 DEF c, p, s, slot, at

\* No two ids have a slot in common.
LEMMA SlotsDiffer ==
  ASSUME NEW b, Sound(b), NEW id \in DOMAIN b.ids, NEW x \in DOMAIN b.ids, b.ids[id] = b.ids[x]
  PROVE  id = x
BY NamedFacts

\* The slots on a list are those of ids.
LEMMA ListedUsed ==
  ASSUME NEW b, NEW s, NEW p, NEW c, OnLevel(b, s, p, c), NEW k \in 1 .. Len(c)
  PROVE  ~Unused(b.ids, c[k])
BY DEF OnLevel, Threaded, Rests, Unused

\* r is b with one more order, at the tail of its level and in the slot `at': the
\* other levels, and the other orders, are as they were.
Inserted(b, r, id, at, side, px, qty) ==
  /\ Sound(r)
  /\ Orders(r, side, px) = Append(Orders(b, side, px), Order(id, qty))
  /\ \A s \in Sides, p \in Int :
       s # side \/ p # px => Orders(r, s, p) = Orders(b, s, p)
  /\ r.ids = With(b.ids, id, at) /\ Unused(b.ids, at)
  /\ r.slab.slots[at].px = SignedPx(side, px)
  /\ \A x \in DOMAIN b.ids : SameOrder(r.slab.slots[b.ids[x]], b.slab.slots[b.ids[x]])
  /\ \A s \in Sides : /\ r.sides[s].hits = b.sides[s].hits
                      /\ r.sides[s].maxOffset = b.sides[s].maxOffset

LEMMA InsertSound ==
  ASSUME NEW b, Sound(b), NEW id \in Ids, id \notin DOMAIN b.ids,
         NEW side \in Sides, NEW px \in ValidPrices, NEW qty \in Lots,
         LevelQty(Orders(b, side, px)) + qty <= MaxQty
  PROVE  Inserted(b, Insert(b, id, side, px, qty), id, AllocAt(b.slab), side, px, qty)
<1> DEFINE slots == b.slab.slots
           ids == b.ids
           c == ListOf(b, side, px)
           lvl == LevelAt(b.sides[side], Locate(px))
           at == AllocAt(b.slab)
           d == Append(c, at)
           reuse == b.slab.freeHead # Nil
           slots2 == SlotsLinked(slots, at, Slot(id, qty, SignedPx(side, px), Nil, Nil), lvl.tail)
           ids2 == With(ids, id, at)
           linked == [head  |-> IF lvl.tail = Nil THEN at ELSE lvl.head,
                      tail  |-> at,
                      qty   |-> Wrap(lvl.qty + qty),
                      count |-> lvl.count + 1]
           side2 == SetLevel(b.sides[side], px, linked)
           cap2 == IF reuse THEN b.slab.cap ELSE b.slab.cap + 1
           head2 == IF reuse THEN slots[at].next ELSE Nil
           r == Insert(b, id, side, px, qty)
<1>1. /\ Shaped(b) /\ Listed(b) /\ Kept(slots, ids)
      /\ b.slab.cap \in Nat /\ DOMAIN slots = 0 .. b.slab.cap - 1
      /\ \A x \in DOMAIN ids : ids[x] \in DOMAIN slots
  BY NamedFacts DEF Sound, Shaped, Indices
<1>2. px \in Int
  BY ValidIsPositive
<1>3. OnLevel(b, side, px, c) /\ Threaded(slots, ids, side, px, c)
  BY <1>1, <1>2 DEF Listed, OnLevel
<1>4. /\ Orders(b, side, px) = OrdersOn(slots, c)
      /\ lvl.qty = LevelQty(Orders(b, side, px)) /\ lvl.count = Len(c)
      /\ lvl.head = HeadOf(c) /\ lvl.tail = TailOf(c)
      /\ LevelQty(Orders(b, side, px)) \in 0 .. MaxQty
      /\ lvl \in Lvls /\ Len(c) \in Nat
  BY <1>1, <1>2, <1>3, LevelFacts
<1>5. PICK F : Freed(slots, ids, b.slab.freeHead, F)
  BY DEF Sound
<1>6. at = IF reuse THEN b.slab.freeHead ELSE b.slab.cap
  BY DEF AllocAt
<1>7. at \in Nat /\ Unused(ids, at) /\ DOMAIN slots \cup {at} = 0 .. cap2 - 1
  BY <1>1, <1>5, <1>6, FreeIsUnused
<1>8. r = BookOf([b.sides EXCEPT ![side] = side2], slots2, cap2, head2, b.slab.live + 1, ids2)
  BY <1>1, InsertParts
<1> HIDE DEF r, side2, cap2, head2, ids2, at, lvl, c
<1>9. /\ TailOf(c) # Nil =>
           TailOf(c) \in DOMAIN slots /\ TailOf(c) # at /\ ~Unused(ids, TailOf(c))
      /\ \A k \in 1 .. Len(c) : c[k] # at
  <2>1. \A k \in 1 .. Len(c) : c[k] # at /\ ~Unused(ids, c[k]) /\ c[k] \in DOMAIN slots
    <3> SUFFICES ASSUME NEW k \in 1 .. Len(c)
                 PROVE  c[k] # at /\ ~Unused(ids, c[k]) /\ c[k] \in DOMAIN slots
      OBVIOUS
    <3>1. ~Unused(ids, c[k])
      BY <1>3, ListedUsed
    <3>2. c[k] \in DOMAIN slots
      BY <1>1, <1>3, ThreadFacts
    <3> QED BY <1>7, <3>1, <3>2
  <2>2. c \in Seq(DOMAIN slots)
    BY <1>3 DEF Threaded
  <2>3. TailOf(c) = IF Len(c) = 0 THEN Nil ELSE c[Len(c)]
    BY <2>2, ListEnds
  <2>4. Len(c) # 0 => Len(c) \in 1 .. Len(c)
    BY <1>4
  <2> QED BY <2>1, <2>3, <2>4
<1>10. /\ DOMAIN slots2 = DOMAIN slots \cup {at}
       /\ slots2[at] = Slot(id, qty, SignedPx(side, px), TailOf(c), Nil)
       /\ \A i \in DOMAIN slots : i # at /\ i # TailOf(c) => slots2[i] = slots[i]
       /\ TailOf(c) # Nil => slots2[TailOf(c)] = [slots[TailOf(c)] EXCEPT !.next = at]
  <2>1. slots \in [DOMAIN slots -> SlotSet]
    BY <1>1 DEF Kept
  <2>2. lvl.tail = TailOf(c)
    BY <1>4
  <2>3. lvl.tail # Nil => lvl.tail \in DOMAIN slots /\ lvl.tail # at
    BY <1>9, <2>2
  <2> DEFINE px2 == SignedPx(side, px)
             tail == lvl.tail
  <2> HIDE DEF px2, slots, tail
  <2>4. LinkedBehind(slots, at, id, qty, px2, tail,
                     SlotsLinked(slots, at, Slot(id, qty, px2, Nil, Nil), tail))
    <3>1. tail # Nil => tail \in DOMAIN slots /\ tail # at
      BY <2>3 DEF tail
    <3> QED BY ONLY <2>1, <3>1, LinkedSlots
  <2> QED BY <2>2, <2>4 DEF LinkedBehind, px2, tail, slots
<1> HIDE DEF slots2
<1>11. ASSUME NEW i \in DOMAIN slots, i # at
       PROVE  /\ SameOrder(slots2[i], slots[i]) /\ slots2[i].prev = slots[i].prev
              /\ slots2[i].next = IF i = TailOf(c) THEN at ELSE slots[i].next
              /\ slots2[i] \in SlotSet
  <2>1. slots[i] \in SlotSet /\ i # Nil
    BY <1>1 DEF Kept, Nil
  <2>2. CASE i # TailOf(c)
    BY <1>10, <1>11, <2>1, <2>2 DEF SameOrder
  <2>3. CASE i = TailOf(c)
    <3>1. slots2[i] = [slots[i] EXCEPT !.next = at]
      BY <1>10, <2>1, <2>3
    <3>2. at \in Links
      BY <1>7 DEF Links
    <3> QED BY <2>1, <2>3, <3>1, <3>2 DEF SameOrder, SlotSet
  <2> QED BY <2>2, <2>3
<1>12. /\ Threaded(slots2, ids2, side, px, d)
       /\ OrdersOn(slots2, d) = Append(OrdersOn(slots, c), Order(id, qty))
       /\ LevelOf(slots2, d) =
            [head  |-> IF TailOf(c) = Nil THEN at ELSE HeadOf(c), tail |-> at,
             qty   |-> LevelQty(OrdersOn(slots, c)) + qty,
             count |-> Len(c) + 1]
  <2> DEFINE cells == slots
             names == ids
  <2>1. Kept(cells, names) /\ Threaded(cells, names, side, px, c) /\ id \notin DOMAIN names
    BY <1>1, <1>3
  <2>2. at \in Nat /\ \A k \in 1 .. Len(c) : c[k] # at
    BY <1>7, <1>9
  <2>3. PutBehind(cells, at, Slot(id, qty, SignedPx(side, px), TailOf(c), Nil), TailOf(c), slots2)
    BY <1>10, <1>11 DEF PutBehind
  <2> HIDE DEF cells, names
  <2>5. LET e == Append(c, at)
            ids3 == With(names, id, at)
        IN  /\ Threaded(slots2, ids3, side, px, e)
            /\ OrdersOn(slots2, e) = Append(OrdersOn(cells, c), Order(id, qty))
            /\ LevelOf(slots2, e) =
                 [head  |-> IF TailOf(c) = Nil THEN at ELSE HeadOf(c), tail |-> at,
                  qty   |-> LevelQty(OrdersOn(cells, c)) + qty,
                  count |-> Len(c) + 1]
    BY ONLY <2>1, <2>2, <2>3, ThreadAppends, px \in ValidPrices, id \in Ids, qty \in Lots
  <2> QED BY <2>5 DEF ids2, cells, names
<1>13. linked = LevelOf(slots2, d) /\ linked \in Lvls /\ linked.count # 0
  <2>1. lvl.qty + qty \in 0 .. MaxQty
    BY <1>4, LotsAreNat DEF Lots
  <2>2. Wrap(lvl.qty + qty) = LevelQty(OrdersOn(slots, c)) + qty
    BY <1>4, <2>1, WrapStays
  <2>3. lvl.head \in Links /\ at \in Links /\ lvl.count \in Nat
    BY <1>4, <1>7 DEF Lvls, Links
  <2>4. linked = LevelOf(slots2, d)
    BY <1>4, <1>12, <2>2
  <2>5. lvl.count + 1 \in Nat /\ lvl.count + 1 # 0 /\ Wrap(lvl.qty + qty) \in 0 .. MaxQty
    BY <2>1, <2>3, WrapStays
  <2> QED BY <2>3, <2>4, <2>5 DEF Lvls
<1> HIDE DEF linked
<1>14. /\ Indexed(side2, Lvls, ValidPrices)
       /\ side2.hits = b.sides[side].hits /\ side2.maxOffset = b.sides[side].maxOffset
       /\ LevelAt(side2, Locate(px)) = linked
       /\ \A p \in Int : p # px => LevelAt(side2, Locate(p)) = LevelAt(b.sides[side], Locate(p))
  <2>1. Indexed(b.sides[side], Lvls, ValidPrices)
    BY <1>1 DEF Shaped
  <2> QED BY <1>13, <2>1, LevelsAre, SetIndexed DEF side2
<1>15. /\ r.slab.slots = slots2 /\ r.ids = ids2 /\ r.slab.cap = cap2
       /\ r.slab.freeHead = head2 /\ r.slab.live = b.slab.live + 1
       /\ r = BookOf(r.sides, r.slab.slots, r.slab.cap, r.slab.freeHead, r.slab.live, r.ids)
  BY <1>8 DEF BookOf
<1>16. /\ DOMAIN r.sides = Sides /\ r.sides[side] = side2
       /\ \A s \in Sides : s # side => r.sides[s] = b.sides[s]
  <2>1. r.sides = [b.sides EXCEPT ![side] = side2]
    BY <1>8 DEF BookOf
  <2>2. DOMAIN b.sides = Sides
    BY <1>1 DEF Shaped
  <2> QED BY <2>1, <2>2
<1>17. /\ DOMAIN ids2 = DOMAIN ids \cup {id} /\ ids2[id] = at
       /\ \A x \in DOMAIN ids : ids2[x] = ids[x]
  BY DEF ids2, With
<1>18. Shaped(r)
  <2>1. cap2 \in Nat /\ DOMAIN slots2 = Indices(r.slab)
    BY <1>1, <1>7, <1>10, <1>15 DEF cap2, Indices
  <2>2. Kept(slots2, ids2)
    <3>1. slots2[at] \in SlotSet
      <4>1. SignedPx(side, px) \in Int /\ TailOf(c) \in Links /\ qty \in 0 .. MaxQty
        BY <1>2, <1>4, LotsAreNat DEF SignedPx, Lvls, Lots
      <4> QED BY <1>10, <4>1 DEF Slot, SlotSet, Links
    <3>2. \A i \in DOMAIN slots2 : slots2[i] \in SlotSet
      BY <1>10, <1>11, <3>1
    <3>3. slots2 = [i \in DOMAIN slots2 |-> slots2[i]]
      BY <1>10 DEF slots2, SlotsLinked, SlotsWith
    <3>4. DOMAIN slots2 \in SUBSET Nat /\ DOMAIN ids2 \in SUBSET Ids
      BY <1>1, <1>7, <1>10, <1>17 DEF Kept
    <3>5. BackIn(slots2)
      <4>1. BackIn(slots)
        BY <1>1 DEF Kept
      <4>2. slots2[at].prev = TailOf(c)
        BY <1>10 DEF Slot
      <4>3. TailOf(c) \in DOMAIN slots2 \cup {Nil}
        BY <1>9, <1>10
      <4>4. \A i \in DOMAIN slots : i # at => slots2[i].prev = slots[i].prev
        BY <1>11
      <4> QED BY <1>10, <4>1, <4>2, <4>3, <4>4 DEF BackIn
    <3> QED BY <3>2, <3>3, <3>4, <3>5 DEF Kept
  <2>3. IsFiniteSet(DOMAIN ids2) /\ b.slab.live + 1 = Cardinality(DOMAIN ids2)
    <3>1. IsFiniteSet(DOMAIN ids) /\ b.slab.live = Cardinality(DOMAIN ids)
      BY <1>1 DEF Shaped
    <3> QED BY <1>17, <3>1, FS_AddElement
  <2>4. \A s \in Sides : Indexed(r.sides[s], Lvls, ValidPrices)
    BY <1>1, <1>14, <1>16 DEF Shaped
  <2> QED BY <1>15, <1>16, <2>1, <2>2, <2>3, <2>4 DEF Shaped
<1>19. OnLevel(r, side, px, d)
  BY <1>12, <1>13, <1>14, <1>15, <1>16 DEF OnLevel
<1>20. ASSUME NEW s \in Sides, NEW p \in Int, s # side \/ p # px
       PROVE  /\ OnLevel(r, s, p, ListOf(b, s, p))
              /\ OrdersOn(slots2, ListOf(b, s, p)) = OrdersOn(slots, ListOf(b, s, p))
  <2> DEFINE e == ListOf(b, s, p)
  <2>1. OnLevel(b, s, p, e) /\ Threaded(slots, ids, s, p, e)
    BY <1>1 DEF Listed, OnLevel
  <2> HIDE DEF e
  <2>2. ASSUME NEW k \in 1 .. Len(e)
        PROVE  /\ slots2[e[k]] = slots[e[k]]
               /\ slots[e[k]].id \in DOMAIN ids2 /\ ids2[slots[e[k]].id] = e[k]
    <3>1. e[k] \in DOMAIN slots /\ e[k] # Nil
      BY <1>1, <2>1, ThreadFacts
    <3>2. e[k] # at
      BY <1>7, <2>1, ListedUsed
    <3>3. e[k] # TailOf(c)
      <4>1. c \in Seq(DOMAIN slots)
        BY <1>3 DEF Threaded
      <4>2. TailOf(c) # Nil => Len(c) \in 1 .. Len(c) /\ TailOf(c) = c[Len(c)]
        BY <1>4, <4>1, ListEnds
      <4> QED BY <1>1, <1>3, <1>20, <2>1, <3>1, <4>2, ThreadsApart
    <3>4. slots[e[k]].id \in DOMAIN ids /\ ids[slots[e[k]].id] = e[k]
      BY <2>1 DEF Threaded, Rests
    <3> QED BY <1>10, <1>17, <3>1, <3>2, <3>3, <3>4
  <2>3. /\ Threaded(slots2, ids2, s, p, e) /\ OrdersOn(slots2, e) = OrdersOn(slots, e)
        /\ LevelOf(slots2, e) = LevelOf(slots, e)
    <3> DEFINE cells == slots
               names == ids
    <3>1. Kept(cells, names) /\ Threaded(cells, names, s, p, e)
      BY <1>1, <2>1
    <3>2. DOMAIN cells \subseteq DOMAIN slots2
      BY <1>10
    <3>3. \A k \in 1 .. Len(e) :
             /\ slots2[e[k]] = cells[e[k]]
             /\ cells[e[k]].id \in DOMAIN ids2 /\ ids2[cells[e[k]].id] = e[k]
      BY <2>2
    <3> HIDE DEF cells, names
    <3>4. /\ Threaded(slots2, ids2, s, p, e) /\ OrdersOn(slots2, e) = OrdersOn(cells, e)
          /\ LevelOf(slots2, e) = LevelOf(cells, e)
      BY ONLY <3>1, <3>2, <3>3, ThreadStays
    <3> QED BY <3>4 DEF cells
  <2>4. LevelAt(r.sides[s], Locate(p)) = LevelAt(b.sides[s], Locate(p))
    BY <1>14, <1>16, <1>20
  <2> QED BY <1>15, <2>1, <2>3, <2>4 DEF OnLevel, e
<1>21. /\ Listed(r) /\ ListOf(r, side, px) = d /\ Orders(r, side, px) = OrdersOn(slots2, d)
       /\ \A s \in Sides, p \in Int :
            s # side \/ p # px => /\ ListOf(r, s, p) = ListOf(b, s, p)
                                  /\ Orders(r, s, p) = Orders(b, s, p)
  <2>1. \A s \in Sides, p \in Int :
           s # side \/ p # px =>
             /\ OnLevel(r, s, p, ListOf(b, s, p))
             /\ OrdersOn(r.slab.slots, ListOf(b, s, p)) = OrdersOn(b.slab.slots, ListOf(b, s, p))
    BY <1>15, <1>20
  <2> HIDE DEF d
  <2>2. /\ Listed(r) /\ ListOf(r, side, px) = d
        /\ Orders(r, side, px) = OrdersOn(r.slab.slots, d)
        /\ \A s \in Sides, p \in Int :
             s # side \/ p # px => /\ ListOf(r, s, p) = ListOf(b, s, p)
                                   /\ Orders(r, s, p) = Orders(b, s, p)
    BY ONLY <1>1, <1>2, <1>18, <1>19, <2>1, Relisted, side \in Sides
  <2> QED BY <1>15, <2>2
<1>22. ASSUME NEW x \in DOMAIN ids
       PROVE  SameOrder(slots2[ids[x]], slots[ids[x]]) /\ ids[x] # at
  BY <1>1, <1>7, <1>11 DEF Unused
<1>23. Len(d) = Len(c) + 1 /\ d[Len(c) + 1] = at /\ \A k \in 1 .. Len(c) : d[k] = c[k]
  <2>1. c \in Seq(DOMAIN slots2) /\ at \in DOMAIN slots2
    <3>1. c \in Seq(DOMAIN slots) /\ DOMAIN slots \subseteq DOMAIN slots2
      BY <1>3, <1>10 DEF Threaded
    <3> QED BY <1>10, <3>1, SeqMonotonic
  <2> QED BY <2>1, AppendProperties
<1> HIDE DEF d
<1>24. Named(r)
  <2>1. NamedAt(r, id)
    <3>1. slots2[at].id = id /\ slots2[at].px = SignedPx(side, px)
      BY <1>10 DEF Slot
    <3>2. SideOf(slots2[at]) = side /\ AbsPx(slots2[at]) = px
      BY <3>1, SignedBack
    <3>3. Len(c) + 1 \in 1 .. Len(d)
      BY <1>4, <1>23
    <3> QED BY <1>10, <1>15, <1>17, <1>21, <1>23, <3>1, <3>2, <3>3 DEF NamedAt
  <2>2. ASSUME NEW x \in DOMAIN ids PROVE NamedAt(r, x)
    <3> DEFINE slot == slots[ids[x]]
               s == SideOf(slot)
               p == AbsPx(slot)
               e == ListOf(b, s, p)
    <3>1. /\ ids[x] \in DOMAIN slots /\ slot.id = x /\ s \in Sides /\ p \in ValidPrices
          /\ p \in Int /\ \E k \in 1 .. Len(e) : e[k] = ids[x]
      BY NamedFacts
    <3>2. SideOf(slots2[ids[x]]) = s /\ AbsPx(slots2[ids[x]]) = p /\ slots2[ids[x]].id = x
      BY <1>22, <3>1 DEF SideOf, AbsPx, SameOrder
    <3> HIDE DEF s, p, slot, e
    <3>3. \E k \in 1 .. Len(ListOf(r, s, p)) : ListOf(r, s, p)[k] = ids[x]
      <4>1. CASE s = side /\ p = px
        <5>1. PICK k \in 1 .. Len(e) : e[k] = ids[x]
          BY <3>1
        <5>2. e = c
          BY <4>1 DEF c, e
        <5>3. k \in 1 .. Len(d) /\ d[k] = ids[x]
          BY <1>4, <1>23, <5>1, <5>2
        <5> QED BY <1>21, <4>1, <5>3
      <4>2. CASE ~(s = side /\ p = px)
        BY <1>21, <3>1, <4>2 DEF e
      <4> QED BY <4>1, <4>2
    <3> QED BY <1>10, <1>15, <1>17, <3>1, <3>2, <3>3 DEF NamedAt
  <2> QED BY <1>15, <1>17, <2>1, <2>2 DEF Named
<1>25. \E G : Freed(r.slab.slots, r.ids, r.slab.freeHead, G)
  <2>1. \A i \in DOMAIN slots : Unused(ids, i) /\ i # at => slots2[i].next = slots[i].next
    <3> SUFFICES ASSUME NEW i \in DOMAIN slots, Unused(ids, i), i # at
                 PROVE  slots2[i].next = slots[i].next
      OBVIOUS
    <3>1. i # Nil /\ i # TailOf(c)
      BY <1>1, <1>9 DEF Kept, Nil
    <3> QED BY <1>11, <3>1
  <2>2. \E G : Freed(slots2, ids2, head2, G)
    <3> DEFINE cells == slots
               names == ids
               cap == b.slab.cap
               head == b.slab.freeHead
    <3>1. Allocates(cap, cells, names, head, at, slots2)
      BY <1>1, <1>6, <1>10, <2>1 DEF Allocates
    <3>2. Freed(cells, names, head, F) /\ id \notin DOMAIN names
      BY <1>5
    <3> HIDE DEF cells, names, cap, head
    <3>3. \E G : Freed(slots2, With(names, id, at),
                      IF head # Nil THEN cells[at].next ELSE Nil, G)
      BY ONLY <3>1, <3>2, FreeTaken
    <3> QED BY <3>3 DEF ids2, head2, cells, names, cap, head
  <2> QED BY <1>15, <2>2
<1>26. Sound(r)
  BY <1>18, <1>21, <1>24, <1>25 DEF Sound
<1>27. slots2[at].px = SignedPx(side, px)
  BY <1>10 DEF Slot
<1>28. \A s \in Sides : /\ r.sides[s].hits = b.sides[s].hits
                        /\ r.sides[s].maxOffset = b.sides[s].maxOffset
  BY <1>14, <1>16
<1> QED BY <1>4, <1>7, <1>12, <1>15, <1>21, <1>22, <1>26, <1>27, <1>28 DEF r, at, ids2, Inserted

-----------------------------------------------------------------------------
(* Removing an order: unlink and free, once the id map has lost it.        *)

SlotsUnlinked(slots, at) ==
  [i \in DOMAIN slots |->
     [slots[i] EXCEPT
        !.next = IF i = slots[at].prev THEN slots[at].next ELSE @,
        !.prev = IF i = slots[at].next THEN slots[at].prev ELSE @]]

SlotsFreed(slots, at, head) ==
  [SlotsUnlinked(slots, at) EXCEPT ![at] = Slot(NoId, 0, 0, Nil, head)]

FreedAt(slots, at, head, slots2) ==
  /\ TakenOut(slots, at, slots2) /\ slots2[at] = Slot(NoId, 0, 0, Nil, head)
  /\ slots2 = [i \in DOMAIN slots2 |-> slots2[i]]
  /\ \A i \in DOMAIN slots : slots2[i] \in SlotSet

LEMMA FreedSlots ==
  ASSUME NEW slots, slots \in [DOMAIN slots -> SlotSet], NEW at \in DOMAIN slots,
         NEW head \in Links
  PROVE  FreedAt(slots, at, head, SlotsFreed(slots, at, head))
<1> DEFINE mid == SlotsUnlinked(slots, at)
           free == Slot(NoId, 0, 0, Nil, head)
           slots2 == SlotsFreed(slots, at, head)
           prev == slots[at].prev
           next == slots[at].next
<1>1. \A i \in DOMAIN slots : slots[i] \in SlotSet
  OBVIOUS
<1>2. prev \in Links /\ next \in Links
  BY <1>1 DEF SlotSet
<1> HIDE DEF prev, next
<1>3. ASSUME NEW i \in DOMAIN slots
      PROVE  /\ SameOrder(mid[i], slots[i]) /\ mid[i] \in SlotSet
             /\ mid[i].next = IF i = prev THEN next ELSE slots[i].next
             /\ mid[i].prev = IF i = next THEN prev ELSE slots[i].prev
  <2> DEFINE n == IF i = prev THEN next ELSE slots[i].next
             p == IF i = next THEN prev ELSE slots[i].prev
  <2>1. slots[i] \in SlotSet
    BY <1>1
  <2>2. mid[i] = [[slots[i] EXCEPT !.next = n] EXCEPT !.prev = p]
    BY <2>1 DEF SlotsUnlinked, prev, next, SlotSet
  <2>3. n \in Links /\ p \in Links
    BY <1>2, <2>1 DEF SlotSet
  <2> HIDE DEF n, p, mid
  <2>4. SameOrder(mid[i], slots[i]) /\ mid[i] \in SlotSet /\ mid[i].next = n /\ mid[i].prev = p
    BY <2>1, <2>2, <2>3 DEF SameOrder, SlotSet
  <2> QED BY <2>4 DEF n, p
<1>4. DOMAIN mid = DOMAIN slots
  BY DEF SlotsUnlinked
<1>5. free \in SlotSet
  BY LotsAreNat DEF Slot, SlotSet, Links
<1> HIDE DEF mid, free
<1>6. slots2 = [mid EXCEPT ![at] = free]
  BY DEF SlotsFreed, mid, free
<1>7. /\ DOMAIN slots2 = DOMAIN slots /\ slots2[at] = free
      /\ \A i \in DOMAIN slots : i # at => slots2[i] = mid[i]
      /\ slots2 = [i \in DOMAIN slots2 |-> slots2[i]]
  BY <1>4, <1>6
<1> HIDE DEF slots2
<1>8. TakenOut(slots, at, slots2)
  BY <1>3, <1>7 DEF TakenOut, prev, next
<1>9. \A i \in DOMAIN slots : slots2[i] \in SlotSet
  BY <1>3, <1>5, <1>7
<1> QED BY <1>7, <1>8, <1>9 DEF FreedAt, slots2, free

\* A level without one of its slots, and a book without one of its orders.
LevelWithout(lvl, slot) ==
  [head  |-> IF slot.prev = Nil THEN slot.next ELSE lvl.head,
   tail  |-> IF slot.next = Nil THEN slot.prev ELSE lvl.tail,
   qty   |-> Wrap(lvl.qty - slot.qty),
   count |-> lvl.count - 1]

BookWithout(b, side, px, at, ids) ==
  LET lvl == LevelAt(b.sides[side], Locate(px))
      unlinked == LevelWithout(lvl, b.slab.slots[at])
  IN  BookOf([b.sides EXCEPT ![side] = SetLevel(b.sides[side], px, unlinked)],
             SlotsFreed(b.slab.slots, at, b.slab.freeHead),
             b.slab.cap, at, b.slab.live - 1, ids)

WithIds(b, ids) == [b EXCEPT !.ids = ids]

LEMMA UnlinkParts ==
  ASSUME NEW b, Shaped(b), NEW side \in Sides, NEW px, NEW at \in DOMAIN b.slab.slots, NEW ids
  PROVE  Unlink(WithIds(b, ids), side, Locate(px), at) = BookWithout(b, side, px, at, ids)
<1> DEFINE lvl == LevelAt(b.sides[side], Locate(px))
           slot == b.slab.slots[at]
           unlinked == [head  |-> IF slot.prev = Nil THEN slot.next ELSE lvl.head,
                        tail  |-> IF slot.next = Nil THEN slot.prev ELSE lvl.tail,
                        qty   |-> Wrap(lvl.qty - slot.qty),
                        count |-> lvl.count - 1]
           side2 == SetLevel(b.sides[side], px, unlinked)
           slots2 == SlotsFreed(b.slab.slots, at, b.slab.freeHead)
           a == BookOf(b.sides, b.slab.slots, b.slab.cap, b.slab.freeHead, b.slab.live, ids)
           mid == SlotsUnlinked(b.slab.slots, at)
           slab1 == [a.slab EXCEPT !.slots = mid]
           slab2 == [slots |-> slots2, cap |-> b.slab.cap, freeHead |-> at, live |-> b.slab.live - 1]
<1>1. /\ b = BookOf(b.sides, b.slab.slots, b.slab.cap, b.slab.freeHead, b.slab.live, b.ids)
      /\ DOMAIN b.slab.slots = Indices(b.slab) /\ DOMAIN b.sides = Sides
  BY DEF Shaped
<1>2. [b EXCEPT !.ids = ids] = a
  BY <1>1 DEF BookOf
<1>3. /\ a.sides = b.sides /\ a.slab.slots = b.slab.slots /\ a.slab.cap = b.slab.cap
      /\ a.slab.freeHead = b.slab.freeHead /\ a.slab.live = b.slab.live /\ a.ids = ids
      /\ a.slab = [slots |-> b.slab.slots, cap |-> b.slab.cap,
                   freeHead |-> b.slab.freeHead, live |-> b.slab.live]
  BY DEF BookOf
<1>4. Free(slab1, at) = slab2
  <2>1. slab1 = [slots |-> mid, cap |-> b.slab.cap,
                 freeHead |-> b.slab.freeHead, live |-> b.slab.live]
    BY <1>3
  <2> HIDE DEF slab1, mid
  <2> DEFINE free == Slot(NoId, 0, 0, Nil, b.slab.freeHead)
             after == [mid EXCEPT ![at] = free]
             freed == [slab1 EXCEPT !.slots[at] = free]
  <2>2. freed = [slab1 EXCEPT !.slots = after]
    BY <2>1
  <2>3. slab1.freeHead = b.slab.freeHead /\ slab1.live = b.slab.live
    BY <2>1
  <2>4. Free(slab1, at) = [freed EXCEPT !.freeHead = at, !.live = b.slab.live - 1]
    BY <2>3 DEF Free
  <2> HIDE DEF after, freed
  <2>5. freed = [slots |-> after, cap |-> b.slab.cap,
                 freeHead |-> b.slab.freeHead, live |-> b.slab.live]
    BY <2>1, <2>2
  <2>6. Free(slab1, at) = [slots |-> after, cap |-> b.slab.cap,
                           freeHead |-> at, live |-> b.slab.live - 1]
    BY <2>4, <2>5
  <2>7. after = slots2
    BY DEF after, SlotsFreed, mid
  <2> QED BY <2>6, <2>7
<1>5. mid = [i \in Indices(a.slab) |->
               [a.slab.slots[i] EXCEPT
                  !.next = IF i = a.slab.slots[at].prev THEN a.slab.slots[at].next ELSE @,
                  !.prev = IF i = a.slab.slots[at].next THEN a.slab.slots[at].prev ELSE @]]
  BY <1>1, <1>3 DEF SlotsUnlinked, Indices
<1>6. Unlink(a, side, Locate(px), at)
        = [a EXCEPT !.slab = Free(slab1, at), !.sides[side] = side2]
  <2> HIDE DEF a, mid
  <2>1. side2 = AfterCountChange(PutLevel(a.sides[side], Locate(px), unlinked), Locate(px), lvl.count)
    BY <1>3 DEF SetLevel
  <2>2. LevelAt(a.sides[side], Locate(px)) = lvl /\ a.slab.slots[at] = slot
    BY <1>3
  <2> HIDE DEF side2, lvl, slot
  <2> QED BY <1>5, <2>1, <2>2 DEF Unlink
<1> HIDE DEF slab1, slab2, mid, side2
<1>7. [a EXCEPT !.slab = slab2, !.sides[side] = side2]
        = [sides |-> [b.sides EXCEPT ![side] = side2], slab |-> slab2, ids |-> ids]
  <2> DEFINE e == [a EXCEPT !.slab = slab2]
             sides2 == [b.sides EXCEPT ![side] = side2]
  <2>1. e = [sides |-> b.sides, slab |-> slab2, ids |-> ids]
    BY DEF BookOf
  <2> HIDE DEF e
  <2>2. [e EXCEPT !.sides[side] = side2] = [e EXCEPT !.sides = sides2]
    BY <2>1
  <2> HIDE DEF sides2
  <2>3. [e EXCEPT !.sides = sides2] = [sides |-> sides2, slab |-> slab2, ids |-> ids]
    BY <2>1
  <2> QED BY <2>2, <2>3 DEF e, sides2
<1>8. Unlink([b EXCEPT !.ids = ids], side, Locate(px), at)
        = [sides |-> [b.sides EXCEPT ![side] = side2], slab |-> slab2, ids |-> ids]
  BY <1>2, <1>4, <1>6, <1>7
<1> QED BY <1>8 DEF BookOf, slab2, side2, BookWithout, LevelWithout, WithIds

Removal(b, id, s, p, at) == Unlink([b EXCEPT !.ids = Without(@, id)], s, Locate(p), at)

\* r is b without the k-th order of a level: the orders behind it move up, the
\* others stay.
Removed(b, r, id, s, p, k) ==
  /\ Sound(r)
  /\ Orders(r, s, p) = RemoveAt(Orders(b, s, p), k)
  /\ \A t \in Sides, q \in Int :
       t # s \/ q # p => Orders(r, t, q) = Orders(b, t, q)
  /\ r.ids = Without(b.ids, id)
  /\ \A x \in DOMAIN r.ids : SameOrder(r.slab.slots[b.ids[x]], b.slab.slots[b.ids[x]])
  /\ \A t \in Sides : /\ r.sides[t].hits = b.sides[t].hits
                      /\ r.sides[t].maxOffset = b.sides[t].maxOffset

LEMMA RemoveSound ==
  ASSUME NEW b, Sound(b), NEW id \in DOMAIN b.ids, NEW at, at = b.ids[id],
         NEW s, s = SideOf(b.slab.slots[at]), NEW p, p = AbsPx(b.slab.slots[at]),
         NEW k \in 1 .. Len(ListOf(b, s, p)), ListOf(b, s, p)[k] = at
  PROVE  Removed(b, Removal(b, id, s, p, at), id, s, p, k)
<1> DEFINE slots == b.slab.slots
           ids == b.ids
           cap == b.slab.cap
           head == b.slab.freeHead
           slot == slots[at]
           c == ListOf(b, s, p)
           lvl == LevelAt(b.sides[s], Locate(p))
           d == RemoveAt(c, k)
           slots2 == SlotsFreed(slots, at, head)
           ids2 == Without(ids, id)
           unlinked == [head  |-> IF slot.prev = Nil THEN slot.next ELSE lvl.head,
                        tail  |-> IF slot.next = Nil THEN slot.prev ELSE lvl.tail,
                        qty   |-> Wrap(lvl.qty - slot.qty),
                        count |-> lvl.count - 1]
           side2 == SetLevel(b.sides[s], p, unlinked)
           r == Unlink([b EXCEPT !.ids = Without(@, id)], s, Locate(p), at)
<1>1. /\ Shaped(b) /\ Listed(b) /\ Kept(slots, ids) /\ cap \in Nat /\ DOMAIN slots = 0 .. cap - 1
      /\ DOMAIN slots = Indices(b.slab)
      /\ \A x \in DOMAIN ids : ids[x] \in DOMAIN slots
  BY NamedFacts DEF Sound, Shaped, Indices
<1>2. /\ at \in DOMAIN slots /\ slot \in SlotSet /\ slot.id = id /\ slot.qty \in Lots
      /\ s \in Sides /\ p \in ValidPrices /\ p \in Int /\ OnLevel(b, s, p, c)
  BY NamedFacts
<1>3. Threaded(slots, ids, s, p, c)
  BY <1>2 DEF OnLevel
<1>4. /\ Orders(b, s, p) = OrdersOn(slots, c)
      /\ lvl.qty = LevelQty(Orders(b, s, p)) /\ lvl.count = Len(c)
      /\ lvl.head = HeadOf(c) /\ lvl.tail = TailOf(c)
      /\ LevelQty(Orders(b, s, p)) \in 0 .. MaxQty
      /\ lvl \in Lvls /\ Len(c) \in Nat /\ lvl = LevelOf(slots, c)
  <2>1. Shaped(b) /\ s \in Sides /\ p \in Int /\ OnLevel(b, s, p, c)
    BY <1>1, <1>2
  <2> HIDE DEF c
  <2> QED BY ONLY <2>1, LevelFacts
<1>5. PICK F : Freed(slots, ids, head, F)
  BY DEF Sound
<1>6. r = BookOf([b.sides EXCEPT ![s] = side2], slots2, cap, at, b.slab.live - 1, ids2)
  <2>1. [b EXCEPT !.ids = Without(@, id)] = [b EXCEPT !.ids = ids2]
    OBVIOUS
  <2>2. Shaped(b) /\ s \in Sides /\ at \in DOMAIN b.slab.slots
    BY <1>1, <1>2
  <2> HIDE DEF ids2
  <2>3. Unlink(WithIds(b, ids2), s, Locate(p), at) = BookWithout(b, s, p, at, ids2)
    BY ONLY <2>2, UnlinkParts
  <2>4. r = Unlink(WithIds(b, ids2), s, Locate(p), at)
    BY <2>1 DEF WithIds
  <2> HIDE DEF r
  <2> QED BY <2>3, <2>4 DEF BookWithout, LevelWithout
<1> HIDE DEF r, side2, c, d, lvl
<1>7. FreedAt(slots, at, head, slots2)
  <2>1. head \in Links
    <3>1. F \in Seq(DOMAIN slots) /\ head = HeadOf(F)
      BY <1>5 DEF Freed
    <3>2. Len(F) # 0 => Len(F) \in Nat /\ 1 \in 1 .. Len(F)
      BY <3>1, ListEnds
    <3>3. head = Nil \/ head \in DOMAIN slots
      BY <3>1, <3>2, ListEnds
    <3> QED BY <1>1, <3>3 DEF Links
  <2>2. slots \in [DOMAIN slots -> SlotSet]
    BY <1>1 DEF Kept
  <2> HIDE DEF slots, head
  <2> QED BY <1>2, <2>1, <2>2, FreedSlots
<1> HIDE DEF slots2
<1>8. /\ DOMAIN slots2 = DOMAIN slots
      /\ \A i \in DOMAIN slots : i # at =>
           /\ SameOrder(slots2[i], slots[i])
           /\ slots2[i].next = IF i = slot.prev THEN slot.next ELSE slots[i].next
           /\ slots2[i].prev = IF i = slot.next THEN slot.prev ELSE slots[i].prev
      /\ slots2[at] = Slot(NoId, 0, 0, Nil, head)
  BY <1>7 DEF FreedAt, TakenOut
<1>9. DOMAIN ids2 = DOMAIN ids \ {id} /\ \A x \in DOMAIN ids2 : ids2[x] = ids[x]
  BY DEF Without
<1>10. \A x \in DOMAIN ids2 : ids[x] # at
  BY <1>9, SlotsDiffer
<1>11. /\ Threaded(slots2, ids2, s, p, d)
       /\ OrdersOn(slots2, d) = RemoveAt(OrdersOn(slots, c), k)
       /\ LevelOf(slots2, d) =
            [head  |-> IF slot.prev = Nil THEN slot.next ELSE HeadOf(c),
             tail  |-> IF slot.next = Nil THEN slot.prev ELSE TailOf(c),
             qty   |-> LevelQty(OrdersOn(slots, c)) - slot.qty,
             count |-> Len(c) - 1]
  <2> DEFINE cells == slots
             names == ids
  <2>1. Kept(cells, names) /\ Threaded(cells, names, s, p, c)
    BY <1>1, <1>3
  <2>2. k \in 1 .. Len(c) /\ c[k] = at
    BY DEF c
  <2>3. TakenOut(cells, c[k], slots2)
    BY <1>7, <2>2 DEF FreedAt
  <2> HIDE DEF cells, names
  <2>4. LET e == RemoveAt(c, k)
            cell == cells[c[k]]
            names2 == Without(names, cell.id)
        IN  /\ Threaded(slots2, names2, s, p, e)
            /\ OrdersOn(slots2, e) = RemoveAt(OrdersOn(cells, c), k)
            /\ LevelOf(slots2, e) =
                 [head  |-> IF cell.prev = Nil THEN cell.next ELSE HeadOf(c),
                  tail  |-> IF cell.next = Nil THEN cell.prev ELSE TailOf(c),
                  qty   |-> LevelQty(OrdersOn(cells, c)) - cell.qty,
                  count |-> Len(c) - 1]
    BY ONLY <2>1, <2>2, <2>3, ThreadRemoves
  <2>5. cells[c[k]] = slot /\ Without(names, slot.id) = ids2
    BY <1>2, <2>2 DEF cells, names
  <2> QED BY <2>4, <2>5 DEF cells, d
<1>12. unlinked = LevelOf(slots2, d) /\ unlinked \in Lvls /\ (unlinked.count = 0 => unlinked = EmptyLevel)
  <2>1. d \in Seq(DOMAIN slots2) /\ Len(d) = Len(c) - 1 /\ Len(d) \in Nat
    <3>1. d \in Seq(DOMAIN slots2)
      BY <1>11 DEF Threaded
    <3>2. LevelOf(slots2, d).count = Len(c) - 1
      <4> HIDE DEF slot, slots, unlinked, ids2
      <4> QED BY ONLY <1>11
    <3> QED BY <3>1, <3>2, LenProperties DEF LevelOf
  <2>2. OrdersOn(slots2, d) \in Seq(OrdersOf(Ids, Lots))
    <3>1. OrdersOn(slots, c) \in Seq(OrdersOf(Ids, Lots)) /\ Len(OrdersOn(slots, c)) = Len(c)
      BY <1>1, <1>3, ThreadFacts
    <3>2. k \in 1 .. Len(OrdersOn(slots, c))
      BY <3>1 DEF c
    <3> DEFINE f == OrdersOn(slots, c)
    <3> HIDE DEF f
    <3>3. f \in Seq(OrdersOf(Ids, Lots)) /\ k \in 1 .. Len(f)
      BY <3>1, <3>2 DEF f
    <3>4. RemoveAt(f, k) \in Seq(OrdersOf(Ids, Lots))
      BY ONLY <3>3, RemovedSeq
    <3> QED BY <1>11, <3>4 DEF f
  <2>3. LevelQty(OrdersOn(slots2, d)) \in Nat
    BY <2>2, LotsAreNat, LevelQtyIsNat
  <2>4. LevelQty(OrdersOn(slots2, d)) = lvl.qty - slot.qty
    <3>1. LevelOf(slots2, d).qty = LevelQty(OrdersOn(slots, c)) - slot.qty
      <4> HIDE DEF slot, slots, unlinked, ids2
      <4> QED BY ONLY <1>11
    <3> QED BY <1>4, <3>1 DEF LevelOf
  <2>5. lvl.qty - slot.qty \in 0 .. MaxQty
    <3>1. lvl.qty \in 0 .. MaxQty /\ slot.qty \in Nat /\ MaxQty \in Nat
      BY <1>2, <1>4, LotsAreNat
    <3>2. lvl.qty - slot.qty \in Nat
      BY ONLY <2>3, <2>4
    <3> DEFINE q == lvl.qty
               taken == slot.qty
    <3> HIDE DEF q, taken
    <3>3. q \in 0 .. MaxQty /\ taken \in Nat /\ MaxQty \in Nat /\ q - taken \in Nat
      BY ONLY <3>1, <3>2 DEF q, taken
    <3>4. q - taken \in 0 .. MaxQty
      BY ONLY <3>3
    <3> QED BY ONLY <3>4 DEF q, taken
  <2>6. Wrap(lvl.qty - slot.qty) = lvl.qty - slot.qty
    BY <2>5, WrapStays
  <2>7. unlinked = LevelOf(slots2, d)
    BY <1>4, <1>11, <2>6
  <2>8. unlinked \in Lvls
    <3>1. slot.prev \in Links /\ slot.next \in Links
      BY <1>2 DEF SlotSet
    <3>2. lvl.head \in Links /\ lvl.tail \in Links
      BY <1>4 DEF Lvls
    <3>3. lvl.count - 1 \in Nat
      BY <1>4, <2>1
    <3> QED BY <2>5, <2>6, <3>1, <3>2, <3>3 DEF Lvls
  <2>9. unlinked.count = 0 => d = <<>>
    <3>1. unlinked.count = Len(d)
      BY <1>4, <2>1
    <3> QED BY <2>1, <3>1, EmptySeq
  <2>10. d = <<>> => LevelOf(slots2, d) = EmptyLevel
    BY EmptyThread
  <2> QED BY <2>7, <2>8, <2>9, <2>10
<1> HIDE DEF unlinked
<1>13. /\ Indexed(side2, Lvls, ValidPrices)
       /\ side2.hits = b.sides[s].hits /\ side2.maxOffset = b.sides[s].maxOffset
       /\ LevelAt(side2, Locate(p)) = unlinked
       /\ \A q \in Int : q # p => LevelAt(side2, Locate(q)) = LevelAt(b.sides[s], Locate(q))
  <2>1. Indexed(b.sides[s], Lvls, ValidPrices)
    BY <1>1, <1>2 DEF Shaped
  <2>2. p \in ValidPrices /\ unlinked \in Lvls /\ (unlinked.count = 0 => unlinked = EmptyLevel)
    BY <1>2, <1>12
  <2> QED BY ONLY <2>1, <2>2, LevelsAre, SetIndexed DEF side2
<1>14. /\ r.slab.slots = slots2 /\ r.ids = ids2 /\ r.slab.cap = cap
       /\ r.slab.freeHead = at /\ r.slab.live = b.slab.live - 1
       /\ r = BookOf(r.sides, r.slab.slots, r.slab.cap, r.slab.freeHead, r.slab.live, r.ids)
  <2> HIDE DEF ids2, slots, ids, cap, head
  <2> QED BY <1>6 DEF BookOf
<1>15. /\ DOMAIN r.sides = Sides /\ r.sides[s] = side2
       /\ \A t \in Sides : t # s => r.sides[t] = b.sides[t]
  <2>1. r.sides = [b.sides EXCEPT ![s] = side2]
    BY <1>6 DEF BookOf
  <2>2. DOMAIN b.sides = Sides
    BY <1>1 DEF Shaped
  <2> QED BY <1>2, <2>1, <2>2
<1> HIDE DEF ids2
<1>16. Shaped(r)
  <2>1. cap \in Nat /\ DOMAIN slots2 = Indices(r.slab)
    BY <1>1, <1>8, <1>14 DEF Indices
  <2>2. Kept(slots2, ids2)
    <3>1. \A i \in DOMAIN slots2 : slots2[i] \in SlotSet
      BY <1>7, <1>8 DEF FreedAt
    <3>2. slots2 = [i \in DOMAIN slots2 |-> slots2[i]]
      BY <1>7 DEF FreedAt
    <3>3. DOMAIN slots2 \in SUBSET Nat /\ DOMAIN ids2 \in SUBSET Ids
      BY <1>1, <1>8, <1>9 DEF Kept
    <3>4. BackIn(slots2)
      <4>1. BackIn(slots)
        BY <1>1 DEF Kept
      <4>2. slots2[at].prev = Nil
        <5>1. slots2[at] = Slot(NoId, 0, 0, Nil, head)
          BY <1>8
        <5> QED BY <5>1 DEF Slot
      <4>3. slot.prev \in DOMAIN slots \cup {Nil}
        BY <1>2, <4>1 DEF BackIn
      <4>4. \A i \in DOMAIN slots : i # at =>
              slots2[i].prev = slots[i].prev \/ slots2[i].prev = slot.prev
        BY <1>8
      <4> QED BY <1>2, <1>8, <4>1, <4>2, <4>3, <4>4 DEF BackIn
    <3> QED BY <3>1, <3>2, <3>3, <3>4 DEF Kept
  <2>3. IsFiniteSet(DOMAIN ids2) /\ b.slab.live - 1 = Cardinality(DOMAIN ids2)
    <3>1. IsFiniteSet(DOMAIN ids) /\ b.slab.live = Cardinality(DOMAIN ids)
      BY <1>1 DEF Shaped
    <3> QED BY <1>9, <3>1, FS_RemoveElement
  <2>4. \A t \in Sides : Indexed(r.sides[t], Lvls, ValidPrices)
    BY <1>1, <1>13, <1>15 DEF Shaped
  <2> QED BY <1>14, <1>15, <2>1, <2>2, <2>3, <2>4 DEF Shaped
<1>17. OnLevel(r, s, p, d)
  BY <1>11, <1>12, <1>13, <1>14, <1>15 DEF OnLevel
<1>18. ASSUME NEW t \in Sides, NEW q \in Int, t # s \/ q # p
       PROVE  /\ OnLevel(r, t, q, ListOf(b, t, q))
              /\ OrdersOn(slots2, ListOf(b, t, q)) = OrdersOn(slots, ListOf(b, t, q))
  <2> DEFINE e == ListOf(b, t, q)
  <2>1. OnLevel(b, t, q, e) /\ Threaded(slots, ids, t, q, e)
    BY <1>1 DEF Listed, OnLevel
  <2> HIDE DEF e
  <2>2. ASSUME NEW i \in 1 .. Len(e), NEW j \in 1 .. Len(c) PROVE e[i] # c[j]
    <3>1. Kept(slots, ids) /\ Threaded(slots, ids, t, q, e) /\ Threaded(slots, ids, s, p, c)
      BY <1>1, <1>3, <2>1
    <3>2. s \in Sides /\ t \in Sides /\ i \in 1 .. Len(e) /\ j \in 1 .. Len(c)
      BY <1>2
    <3> HIDE DEF slots, ids
    <3>3. e[i] = c[j] => t = s /\ q = p
      BY ONLY <3>1, <3>2, ThreadsApart
    <3> QED BY <1>18, <3>3
  <2>3. /\ slot.prev # Nil => \E j \in 1 .. Len(c) : c[j] = slot.prev
        /\ slot.next # Nil => \E j \in 1 .. Len(c) : c[j] = slot.next
    <3>1. Rests(slots, ids, s, p, c, k) /\ k \in 1 .. Len(c) /\ c[k] = at
      BY <1>3 DEF Threaded, c
    <3>2. slot.prev = PrevIn(c, k) /\ slot.next = NextIn(c, k)
      BY <3>1 DEF Rests
    <3>3. k # 1 => k - 1 \in 1 .. Len(c)
      BY <1>4, <3>1
    <3>4. k # Len(c) => k + 1 \in 1 .. Len(c)
      BY <1>4, <3>1
    <3> QED BY <3>2, <3>3, <3>4 DEF PrevIn, NextIn
  <2>4. ASSUME NEW i \in 1 .. Len(e)
        PROVE  /\ slots2[e[i]] = slots[e[i]]
               /\ slots[e[i]].id \in DOMAIN ids2 /\ ids2[slots[e[i]].id] = e[i]
    <3>1. e[i] \in DOMAIN slots /\ e[i] # Nil /\ slots[e[i]] \in SlotSet
      <4>1. Kept(slots, ids) /\ Threaded(slots, ids, t, q, e) /\ i \in 1 .. Len(e)
        BY <1>1, <2>1
      <4> HIDE DEF slots, ids
      <4> QED BY ONLY <4>1, ThreadFacts
    <3>2. e[i] # at
      BY <2>2 DEF c
    <3>3. e[i] # slot.prev /\ e[i] # slot.next
      BY <2>2, <2>3, <3>1
    <3>4. slots2[e[i]] \in SlotSet
      BY <1>7, <3>1 DEF FreedAt
    <3>5. /\ SameOrder(slots2[e[i]], slots[e[i]]) /\ slots2[e[i]].next = slots[e[i]].next
          /\ slots2[e[i]].prev = slots[e[i]].prev
      BY <1>8, <3>1, <3>2, <3>3
    <3>6. slots2[e[i]] = slots[e[i]]
      BY <3>1, <3>4, <3>5 DEF SlotSet, SameOrder
    <3>7. slots[e[i]].id \in DOMAIN ids /\ ids[slots[e[i]].id] = e[i]
      BY <2>1 DEF Threaded, Rests
    <3> QED BY <1>9, <3>2, <3>6, <3>7
  <2>5. /\ Threaded(slots2, ids2, t, q, e) /\ OrdersOn(slots2, e) = OrdersOn(slots, e)
        /\ LevelOf(slots2, e) = LevelOf(slots, e)
    <3> DEFINE cells == slots
               names == ids
    <3>1. Kept(cells, names) /\ Threaded(cells, names, t, q, e)
      BY <1>1, <2>1
    <3>2. DOMAIN cells \subseteq DOMAIN slots2
      BY <1>8
    <3>3. \A j \in 1 .. Len(e) :
             /\ slots2[e[j]] = cells[e[j]]
             /\ cells[e[j]].id \in DOMAIN ids2 /\ ids2[cells[e[j]].id] = e[j]
      BY <2>4
    <3> HIDE DEF cells, names
    <3>4. /\ Threaded(slots2, ids2, t, q, e) /\ OrdersOn(slots2, e) = OrdersOn(cells, e)
          /\ LevelOf(slots2, e) = LevelOf(cells, e)
      BY ONLY <3>1, <3>2, <3>3, ThreadStays
    <3> QED BY <3>4 DEF cells
  <2>6. LevelAt(r.sides[t], Locate(q)) = LevelAt(b.sides[t], Locate(q))
    BY <1>13, <1>15, <1>18
  <2> QED BY <1>14, <2>1, <2>5, <2>6 DEF OnLevel, e
<1>19. /\ Listed(r) /\ ListOf(r, s, p) = d /\ Orders(r, s, p) = OrdersOn(slots2, d)
       /\ \A t \in Sides, q \in Int :
            t # s \/ q # p => /\ ListOf(r, t, q) = ListOf(b, t, q)
                              /\ Orders(r, t, q) = Orders(b, t, q)
  <2>1. \A t \in Sides, q \in Int :
           t # s \/ q # p =>
             /\ OnLevel(r, t, q, ListOf(b, t, q))
             /\ OrdersOn(r.slab.slots, ListOf(b, t, q)) = OrdersOn(b.slab.slots, ListOf(b, t, q))
    BY <1>14, <1>18
  <2>2. s \in Sides /\ p \in Int
    BY <1>2
  <2>3. /\ Listed(r) /\ ListOf(r, s, p) = d
        /\ Orders(r, s, p) = OrdersOn(r.slab.slots, d)
        /\ \A t \in Sides, q \in Int :
             t # s \/ q # p => /\ ListOf(r, t, q) = ListOf(b, t, q)
                               /\ Orders(r, t, q) = Orders(b, t, q)
    BY ONLY <1>1, <1>16, <1>17, <2>1, <2>2, Relisted
  <2> QED BY <1>14, <2>3
<1>20. ASSUME NEW x \in DOMAIN ids2 PROVE SameOrder(slots2[ids[x]], slots[ids[x]])
  BY <1>1, <1>8, <1>9, <1>10
<1>21. ASSUME NEW j \in 1 .. Len(c), c[j] # at PROVE \E i \in 1 .. Len(d) : d[i] = c[j]
  <2>1. /\ c \in Seq(DOMAIN slots) /\ k \in 1 .. Len(c) /\ c[k] = at
    BY <1>3 DEF Threaded, c
  <2>2. /\ d \in Seq(DOMAIN slots) /\ Len(d) = Len(c) - 1
        /\ \A i \in 1 .. Len(c) - 1 : d[i] = IF i < k THEN c[i] ELSE c[i + 1]
    <3> HIDE DEF slots
    <3> QED BY <2>1, RemovedSeq DEF d
  <2>3. CASE j < k
    <3>1. j \in 1 .. Len(c) - 1
      BY <1>4, <2>1, <2>3
    <3> QED BY <2>2, <2>3, <3>1
  <2>4. CASE ~(j < k)
    <3>1. j # k
      BY <1>21, <2>1
    <3>2. j - 1 \in 1 .. Len(c) - 1 /\ ~(j - 1 < k) /\ (j - 1) + 1 = j
      BY <1>4, <2>1, <2>4, <3>1
    <3> QED BY <2>2, <3>2
  <2> QED BY <2>3, <2>4
<1>22. Named(r)
  <2>1. ASSUME NEW x \in DOMAIN ids2 PROVE NamedAt(r, x)
    <3> DEFINE cell == slots[ids[x]]
               t == SideOf(cell)
               q == AbsPx(cell)
               e == ListOf(b, t, q)
    <3>1. x \in DOMAIN ids /\ ids2[x] = ids[x]
      BY <1>9
    <3>2. /\ ids[x] \in DOMAIN slots /\ cell.id = x /\ t \in Sides /\ q \in ValidPrices
          /\ q \in Int /\ \E j \in 1 .. Len(e) : e[j] = ids[x]
      BY <3>1, NamedFacts
    <3>3. SideOf(slots2[ids[x]]) = t /\ AbsPx(slots2[ids[x]]) = q /\ slots2[ids[x]].id = x
      BY <1>20, <3>2 DEF SideOf, AbsPx, SameOrder
    <3> HIDE DEF t, q, cell, e
    <3>4. \E j \in 1 .. Len(ListOf(r, t, q)) : ListOf(r, t, q)[j] = ids[x]
      <4>1. CASE t = s /\ q = p
        <5>1. PICK j \in 1 .. Len(e) : e[j] = ids[x]
          BY <3>2
        <5>2. e = c
          BY <4>1 DEF c, e
        <5>3. j \in 1 .. Len(c) /\ c[j] = ids[x] /\ c[j] # at
          BY <1>10, <5>1, <5>2
        <5>4. \E i \in 1 .. Len(d) : d[i] = ids[x]
          BY <1>21, <5>3
        <5>5. ListOf(r, t, q) = d
          BY <1>19, <4>1
        <5> QED BY <5>4, <5>5
      <4>2. CASE ~(t = s /\ q = p)
        BY <1>19, <3>2, <4>2 DEF e
      <4> QED BY <4>1, <4>2
    <3> QED BY <1>8, <1>14, <3>1, <3>2, <3>3, <3>4 DEF NamedAt
  <2> QED BY <1>14, <2>1 DEF Named
<1>23. \E G : Freed(r.slab.slots, r.ids, r.slab.freeHead, G)
  <2> DEFINE cells == slots
             names == ids
  <2>1. GivesBack(cells, names, at, head, slots2)
    <3>1. slots2[at].next = head
      <4>1. slots2[at] = Slot(NoId, 0, 0, Nil, head)
        BY <1>8
      <4> HIDE DEF head
      <4> QED BY ONLY <4>1 DEF Slot
    <3>2. ASSUME NEW i \in DOMAIN slots, Unused(ids, i) PROVE slots2[i].next = slots[i].next
      <4>1. i # at
        BY <3>2 DEF Unused
      <4>2. i # slot.prev
        <5>1. Rests(slots, ids, s, p, c, k) /\ k \in 1 .. Len(c) /\ c[k] = at
          BY <1>3 DEF Threaded, c
        <5>2. slot.prev = PrevIn(c, k)
          BY <5>1 DEF Rests
        <5>3. k # 1 => k - 1 \in 1 .. Len(c)
          BY <1>4, <5>1
        <5>4. k # 1 => ~Unused(ids, c[k - 1])
          BY <1>2, <5>3, ListedUsed DEF c
        <5>5. i # Nil
          BY <1>1 DEF Nil
        <5> QED BY <3>2, <5>2, <5>4, <5>5 DEF PrevIn
      <4> QED BY <1>8, <4>1, <4>2
    <3> QED BY <1>2, <1>8, <3>1, <3>2 DEF GivesBack
  <2>2. Freed(cells, names, head, F) /\ id \in DOMAIN names /\ at = names[id]
    BY <1>5
  <2>3. \A x \in DOMAIN names : names[x] = names[id] => x = id
    BY SlotsDiffer
  <2> HIDE DEF cells, names
  <2>4. \E G : Freed(slots2, Without(names, id), at, G)
    BY ONLY <2>1, <2>2, <2>3, FreeGiven
  <2> QED BY <1>14, <2>4 DEF ids2, names
<1>24. Sound(r)
  BY <1>16, <1>19, <1>22, <1>23 DEF Sound
<1>25. \A t \in Sides : /\ r.sides[t].hits = b.sides[t].hits
                        /\ r.sides[t].maxOffset = b.sides[t].maxOffset
  BY <1>13, <1>15
<1>26. Orders(r, s, p) = RemoveAt(Orders(b, s, p), k)
  BY <1>4, <1>11, <1>19
<1> QED BY <1>14, <1>19, <1>20, <1>24, <1>25, <1>26 DEF r, ids2, Removal, Removed

-----------------------------------------------------------------------------
(* Reducing an order in place.                                             *)

LevelReduced(lvl, by) == [lvl EXCEPT !.qty = Wrap(@ - by)]

SlotsReduced(slots, at, by) == [slots EXCEPT ![at].qty = Wrap(@ - by)]

BookReduced(b, side, px, at, by) ==
  BookOf([b.sides EXCEPT ![side] =
            PutLevel(@, Locate(px), LevelReduced(LevelAt(@, Locate(px)), by))],
         SlotsReduced(b.slab.slots, at, by),
         b.slab.cap, b.slab.freeHead, b.slab.live, b.ids)

LEMMA ReduceParts ==
  ASSUME NEW b, Shaped(b), NEW side \in Sides, NEW px, NEW at \in DOMAIN b.slab.slots, NEW by
  PROVE  Reduce(b, side, Locate(px), at, by) = BookReduced(b, side, px, at, by)
<1> DEFINE lvl == LevelAt(b.sides[side], Locate(px))
           put == PutLevel(b.sides[side], Locate(px), LevelReduced(lvl, by))
           sides2 == [b.sides EXCEPT ![side] = put]
           slots2 == SlotsReduced(b.slab.slots, at, by)
           e == [b EXCEPT !.sides[side] = put]
           slab2 == [slots |-> slots2, cap |-> b.slab.cap,
                     freeHead |-> b.slab.freeHead, live |-> b.slab.live]
<1>1. /\ b = BookOf(b.sides, b.slab.slots, b.slab.cap, b.slab.freeHead, b.slab.live, b.ids)
      /\ DOMAIN b.sides = Sides
  BY DEF Shaped
<1>2. /\ b = [sides |-> b.sides, slab |-> b.slab, ids |-> b.ids]
      /\ b.slab = [slots |-> b.slab.slots, cap |-> b.slab.cap,
                   freeHead |-> b.slab.freeHead, live |-> b.slab.live]
  BY <1>1 DEF BookOf
<1> HIDE DEF put
<1>3. e = [b EXCEPT !.sides = sides2]
  BY <1>2
<1> HIDE DEF sides2, e
<1>4. e = [sides |-> sides2, slab |-> b.slab, ids |-> b.ids]
  BY <1>2, <1>3
<1>5. Reduce(b, side, Locate(px), at, by) = [e EXCEPT !.slab.slots[at].qty = Wrap(@ - by)]
  BY <1>1 DEF Reduce, LevelReduced, e, put
<1>6. [e EXCEPT !.slab.slots[at].qty = Wrap(@ - by)] = [e EXCEPT !.slab.slots = slots2]
  BY <1>4 DEF SlotsReduced
<1> HIDE DEF slots2
<1>7. [e EXCEPT !.slab.slots = slots2] = [e EXCEPT !.slab = [e.slab EXCEPT !.slots = slots2]]
  BY <1>4
<1>8. [e.slab EXCEPT !.slots = slots2] = slab2
  BY <1>2, <1>4
<1> HIDE DEF slab2
<1>9. [e EXCEPT !.slab = slab2] = [sides |-> sides2, slab |-> slab2, ids |-> b.ids]
  BY <1>4
<1> QED BY <1>5, <1>6, <1>7, <1>8, <1>9 DEF BookReduced, BookOf, slab2, slots2, sides2, put

\* r is b with less of the k-th order of a level, which keeps its place.
Lessened(b, r, s, p, k, left) ==
  /\ Sound(r)
  /\ Orders(r, s, p) = Reduced(Orders(b, s, p), k, left)
  /\ \A t \in Sides, q \in Int :
       t # s \/ q # p => Orders(r, t, q) = Orders(b, t, q)
  /\ r.ids = b.ids
  /\ \A x \in DOMAIN b.ids :
       /\ r.slab.slots[b.ids[x]].id = b.slab.slots[b.ids[x]].id
       /\ r.slab.slots[b.ids[x]].px = b.slab.slots[b.ids[x]].px
  /\ \A t \in Sides : /\ r.sides[t].hits = b.sides[t].hits
                      /\ r.sides[t].maxOffset = b.sides[t].maxOffset

LEMMA ReduceSound ==
  ASSUME NEW b, Sound(b), NEW id \in DOMAIN b.ids, NEW at, at = b.ids[id],
         NEW s, s = SideOf(b.slab.slots[at]), NEW p, p = AbsPx(b.slab.slots[at]),
         NEW k \in 1 .. Len(ListOf(b, s, p)), ListOf(b, s, p)[k] = at,
         NEW by \in Nat, 0 < by, by < b.slab.slots[at].qty
  PROVE  Lessened(b, Reduce(b, s, Locate(p), at, by), s, p, k, b.slab.slots[at].qty - by)
<1> DEFINE slots == b.slab.slots
           ids == b.ids
           cap == b.slab.cap
           head == b.slab.freeHead
           slot == slots[at]
           left == slot.qty - by
           c == ListOf(b, s, p)
           lvl == LevelAt(b.sides[s], Locate(p))
           slots2 == SlotsReduced(slots, at, by)
           lvl2 == LevelReduced(lvl, by)
           side2 == PutLevel(b.sides[s], Locate(p), lvl2)
           r == Reduce(b, s, Locate(p), at, by)
<1>1. /\ Shaped(b) /\ Listed(b) /\ Kept(slots, ids) /\ cap \in Nat
      /\ DOMAIN slots = Indices(b.slab)
      /\ \A x \in DOMAIN ids : ids[x] \in DOMAIN slots
  BY NamedFacts DEF Sound, Shaped, Indices
<1>2. /\ at \in DOMAIN slots /\ slot \in SlotSet /\ slot.id = id /\ slot.qty \in Lots
      /\ s \in Sides /\ p \in ValidPrices /\ p \in Int /\ OnLevel(b, s, p, c)
  BY NamedFacts
<1>3. Threaded(slots, ids, s, p, c) /\ k \in 1 .. Len(c) /\ c[k] = at
  BY <1>2 DEF OnLevel
<1>4. /\ Orders(b, s, p) = OrdersOn(slots, c)
      /\ lvl.qty = LevelQty(Orders(b, s, p)) /\ lvl.count = Len(c)
      /\ LevelQty(Orders(b, s, p)) \in 0 .. MaxQty
      /\ lvl \in Lvls /\ Len(c) \in Nat /\ lvl = LevelOf(slots, c)
  <2>1. Shaped(b) /\ s \in Sides /\ p \in Int /\ OnLevel(b, s, p, c)
    BY <1>1, <1>2
  <2> HIDE DEF c
  <2> QED BY ONLY <2>1, LevelFacts
<1>5. PICK F : Freed(slots, ids, head, F)
  BY DEF Sound
<1>6. r = BookOf([b.sides EXCEPT ![s] = side2], slots2, cap, head, b.slab.live, ids)
  <2>1. Shaped(b) /\ s \in Sides /\ at \in DOMAIN b.slab.slots
    BY <1>1, <1>2
  <2>2. Reduce(b, s, Locate(p), at, by) = BookReduced(b, s, p, at, by)
    BY ONLY <2>1, ReduceParts
  <2> QED BY <2>2 DEF BookReduced
<1> HIDE DEF r, side2, c, lvl
<1>7. left \in Lots /\ left \in 0 .. MaxQty /\ Wrap(left) = left /\ left > 0
  <2>1. slot.qty \in 1 .. MaxQty
    BY <1>2 DEF Lots
  <2>2. left \in 1 .. MaxQty /\ left \in 0 .. MaxQty
    <3> DEFINE y == slot.qty
    <3>1. y \in 1 .. MaxQty /\ by \in Nat /\ 0 < by /\ by < y
      BY <2>1
    <3> HIDE DEF y
    <3>2. y - by \in 1 .. MaxQty /\ y - by \in 0 .. MaxQty
      BY <3>1, LotsAreNat
    <3> QED BY <3>2 DEF y
  <2> HIDE DEF left
  <2>3. left > 0 /\ Wrap(left) = left
    BY <2>2, WrapStays, LotsAreNat
  <2> QED BY <2>2, <2>3 DEF Lots
<1>8. /\ OnlyQty(slots, at, left, slots2)
      /\ slots2 = [i \in DOMAIN slots2 |-> slots2[i]]
      /\ \A i \in DOMAIN slots : slots2[i] \in SlotSet
  <2>1. \A i \in DOMAIN slots : slots[i] \in SlotSet
    BY <1>1 DEF Kept
  <2>2. /\ DOMAIN slots2 = DOMAIN slots
        /\ \A i \in DOMAIN slots : i # at => slots2[i] = slots[i]
        /\ slots2[at] = [slot EXCEPT !.qty = Wrap(slot.qty - by)]
        /\ slots2 = [i \in DOMAIN slots2 |-> slots2[i]]
    BY <1>2 DEF SlotsReduced
  <2> HIDE DEF slots2
  <2>3. slots2[at] = [slot EXCEPT !.qty = left]
    BY <1>7, <2>2
  <2> HIDE DEF left, slot
  <2>4. slots2[at] \in SlotSet
    BY <1>2, <1>7, <2>3 DEF SlotSet
  <2>5. \A i \in DOMAIN slots : slots2[i] \in SlotSet
    BY <2>1, <2>2, <2>4
  <2> QED BY <2>2, <2>3, <2>5 DEF OnlyQty, slot
<1> HIDE DEF slots2, left
<1>9. /\ DOMAIN slots2 = DOMAIN slots
      /\ \A i \in DOMAIN slots : i # at => slots2[i] = slots[i]
      /\ slots2[at] = [slot EXCEPT !.qty = left]
      /\ \A i \in DOMAIN slots :
           /\ slots2[i].id = slots[i].id /\ slots2[i].px = slots[i].px
           /\ slots2[i].prev = slots[i].prev /\ slots2[i].next = slots[i].next
  <2>1. /\ DOMAIN slots2 = DOMAIN slots
        /\ \A i \in DOMAIN slots : i # at => slots2[i] = slots[i]
        /\ slots2[at] = [slot EXCEPT !.qty = left]
    BY <1>8 DEF OnlyQty
  <2>2. /\ slots2[at].id = slot.id /\ slots2[at].px = slot.px
        /\ slots2[at].prev = slot.prev /\ slots2[at].next = slot.next
    <3> HIDE DEF slot
    <3> QED BY <1>2, <2>1 DEF SlotSet
  <2> QED BY <2>1, <2>2
<1>26. BackIn(slots2)
  <2>1. BackIn(slots)
    BY <1>1 DEF Kept
  <2>2. slots2[at].prev = slot.prev
    BY <1>2, <1>9 DEF SlotSet
  <2> QED BY <1>2, <1>9, <2>1, <2>2 DEF BackIn
<1>10. /\ Threaded(slots2, ids, s, p, c)
       /\ OrdersOn(slots2, c) = Reduced(OrdersOn(slots, c), k, left)
       /\ LevelQty(OrdersOn(slots2, c)) = LevelQty(OrdersOn(slots, c)) - slot.qty + left
  <2> DEFINE cells == slots
             names == ids
  <2>1. Kept(cells, names) /\ Threaded(cells, names, s, p, c)
    BY <1>1, <1>3
  <2>2. k \in 1 .. Len(c) /\ c[k] = at /\ left \in Lots
    BY <1>3, <1>7
  <2>3. OnlyQty(cells, c[k], left, slots2)
    BY <1>8, <2>2
  <2> HIDE DEF cells, names
  <2>4. /\ Threaded(slots2, names, s, p, c)
        /\ OrdersOn(slots2, c) = Reduced(OrdersOn(cells, c), k, left)
        /\ LevelQty(OrdersOn(slots2, c)) = LevelQty(OrdersOn(cells, c)) - cells[c[k]].qty + left
    BY ONLY <2>1, <2>2, <2>3, ThreadReduces
  <2> QED BY <2>2, <2>4 DEF cells, names
<1>11. lvl2 = LevelOf(slots2, c) /\ lvl2 \in Lvls /\ lvl2.count # 0 /\ lvl2.count = lvl.count
  <2>1. lvl.qty - by = LevelQty(OrdersOn(slots2, c))
    <3> DEFINE x == LevelQty(Orders(b, s, p))
               y == slot.qty
               z == LevelQty(OrdersOn(slots2, c))
    <3>1. x \in Int /\ y \in Int /\ by \in Int
      <4>1. y \in Lots /\ x \in 0 .. MaxQty
        BY <1>2, <1>4
      <4> HIDE DEF x, y
      <4> QED BY <4>1, LotsAreNat
    <3>2. z = x - y + left /\ left = y - by /\ lvl.qty = x
      BY <1>4, <1>10 DEF left
    <3> HIDE DEF x, y, z
    <3> QED BY <3>1, <3>2 DEF z
  <2>2. LevelQty(OrdersOn(slots2, c)) \in Nat
    <3>1. Kept(slots2, ids)
      BY <1>1, <1>8, <1>9, <1>26 DEF Kept
    <3>2. OrdersOn(slots2, c) \in Seq(OrdersOf(Ids, Lots))
      <4>1. Kept(slots2, ids) /\ Threaded(slots2, ids, s, p, c)
        BY <1>10, <3>1
      <4> HIDE DEF ids
      <4> QED BY ONLY <4>1, ThreadFacts
    <3> QED BY <3>2, LotsAreNat, LevelQtyIsNat
  <2>3. lvl.qty - by \in 0 .. MaxQty
    <3>1. lvl.qty \in 0 .. MaxQty /\ MaxQty \in Nat
      BY <1>4, LotsAreNat
    <3> QED BY <2>1, <2>2, <3>1
  <2>4. Wrap(lvl.qty - by) = LevelQty(OrdersOn(slots2, c))
    BY <2>1, <2>3, WrapStays
  <2>5. lvl2 = [lvl EXCEPT !.qty = LevelQty(OrdersOn(slots2, c))]
    BY <1>4, <2>4 DEF LevelReduced, Lvls
  <2>6. lvl2 = LevelOf(slots2, c)
    BY <1>4, <2>5 DEF LevelOf
  <2>7. lvl2 \in Lvls /\ lvl2.count = lvl.count
    BY <1>4, <2>1, <2>3, <2>5 DEF Lvls
  <2> QED BY <1>3, <1>4, <2>6, <2>7
<1> HIDE DEF lvl2
<1>12. /\ Indexed(side2, Lvls, ValidPrices)
       /\ side2.hits = b.sides[s].hits /\ side2.maxOffset = b.sides[s].maxOffset
       /\ LevelAt(side2, Locate(p)) = lvl2
       /\ \A q \in Int : q # p => LevelAt(side2, Locate(q)) = LevelAt(b.sides[s], Locate(q))
  <2>1. Indexed(b.sides[s], Lvls, ValidPrices)
    BY <1>1, <1>2 DEF Shaped
  <2>2. p \in ValidPrices /\ lvl2 \in Lvls /\ lvl2.count # 0
        /\ lvl2.count = LevelAt(b.sides[s], Locate(p)).count
    BY <1>2, <1>11 DEF lvl
  <2>3. side2 = SetLevel(b.sides[s], p, lvl2)
    BY ONLY <2>1, <2>2, LevelsAre, PutIsSet DEF side2
  <2>4. lvl2.count = 0 => lvl2 = EmptyLevel
    BY <2>2
  <2> QED BY ONLY <2>1, <2>2, <2>3, <2>4, LevelsAre, SetIndexed
<1>13. /\ r.slab.slots = slots2 /\ r.ids = ids /\ r.slab.cap = cap
       /\ r.slab.freeHead = head /\ r.slab.live = b.slab.live
       /\ r = BookOf(r.sides, r.slab.slots, r.slab.cap, r.slab.freeHead, r.slab.live, r.ids)
  <2> HIDE DEF slots, ids, cap, head
  <2> QED BY <1>6 DEF BookOf
<1>14. /\ DOMAIN r.sides = Sides /\ r.sides[s] = side2
       /\ \A t \in Sides : t # s => r.sides[t] = b.sides[t]
  <2>1. r.sides = [b.sides EXCEPT ![s] = side2]
    BY <1>6 DEF BookOf
  <2>2. DOMAIN b.sides = Sides
    BY <1>1 DEF Shaped
  <2> QED BY <1>2, <2>1, <2>2
<1>15. Shaped(r)
  <2>1. cap \in Nat /\ DOMAIN slots2 = Indices(r.slab)
    BY <1>1, <1>9, <1>13 DEF Indices
  <2>2. Kept(slots2, ids)
    BY <1>1, <1>8, <1>9, <1>26 DEF Kept
  <2>3. IsFiniteSet(DOMAIN ids) /\ b.slab.live = Cardinality(DOMAIN ids)
    BY <1>1 DEF Shaped
  <2>4. \A t \in Sides : Indexed(r.sides[t], Lvls, ValidPrices)
    BY <1>1, <1>12, <1>14 DEF Shaped
  <2> QED BY <1>13, <1>14, <2>1, <2>2, <2>3, <2>4 DEF Shaped
<1>16. OnLevel(r, s, p, c)
  BY <1>10, <1>11, <1>12, <1>13, <1>14 DEF OnLevel
<1>17. ASSUME NEW t \in Sides, NEW q \in Int, t # s \/ q # p
       PROVE  /\ OnLevel(r, t, q, ListOf(b, t, q))
              /\ OrdersOn(slots2, ListOf(b, t, q)) = OrdersOn(slots, ListOf(b, t, q))
  <2> DEFINE e == ListOf(b, t, q)
  <2>1. OnLevel(b, t, q, e) /\ Threaded(slots, ids, t, q, e)
    BY <1>1 DEF Listed, OnLevel
  <2> HIDE DEF e
  <2>2. ASSUME NEW i \in 1 .. Len(e)
        PROVE  /\ slots2[e[i]] = slots[e[i]]
               /\ slots[e[i]].id \in DOMAIN ids /\ ids[slots[e[i]].id] = e[i]
    <3>1. e[i] \in DOMAIN slots
      <4>1. Kept(slots, ids) /\ Threaded(slots, ids, t, q, e) /\ i \in 1 .. Len(e)
        BY <1>1, <2>1
      <4> HIDE DEF slots, ids
      <4> QED BY ONLY <4>1, ThreadFacts
    <3>2. e[i] # at
      <4>1. Kept(slots, ids) /\ Threaded(slots, ids, t, q, e) /\ Threaded(slots, ids, s, p, c)
        BY <1>1, <1>3, <2>1
      <4>2. s \in Sides /\ t \in Sides /\ i \in 1 .. Len(e) /\ k \in 1 .. Len(c)
        BY <1>2, <1>3
      <4> HIDE DEF slots, ids
      <4>3. e[i] = c[k] => t = s /\ q = p
        BY ONLY <4>1, <4>2, ThreadsApart
      <4> QED BY <1>3, <1>17, <4>3
    <3>3. slots[e[i]].id \in DOMAIN ids /\ ids[slots[e[i]].id] = e[i]
      BY <2>1 DEF Threaded, Rests
    <3> QED BY <1>9, <3>1, <3>2, <3>3
  <2>3. /\ Threaded(slots2, ids, t, q, e) /\ OrdersOn(slots2, e) = OrdersOn(slots, e)
        /\ LevelOf(slots2, e) = LevelOf(slots, e)
    <3> DEFINE cells == slots
               names == ids
    <3>1. Kept(cells, names) /\ Threaded(cells, names, t, q, e)
      BY <1>1, <2>1
    <3>2. DOMAIN cells \subseteq DOMAIN slots2
      BY <1>9
    <3>3. \A j \in 1 .. Len(e) :
             /\ slots2[e[j]] = cells[e[j]]
             /\ cells[e[j]].id \in DOMAIN names /\ names[cells[e[j]].id] = e[j]
      BY <2>2
    <3> HIDE DEF cells, names
    <3>4. /\ Threaded(slots2, names, t, q, e) /\ OrdersOn(slots2, e) = OrdersOn(cells, e)
          /\ LevelOf(slots2, e) = LevelOf(cells, e)
      BY ONLY <3>1, <3>2, <3>3, ThreadStays
    <3> QED BY <3>4 DEF cells, names
  <2>4. LevelAt(r.sides[t], Locate(q)) = LevelAt(b.sides[t], Locate(q))
    BY <1>12, <1>14, <1>17
  <2> QED BY <1>13, <2>1, <2>3, <2>4 DEF OnLevel, e
<1>18. /\ Listed(r) /\ ListOf(r, s, p) = c /\ Orders(r, s, p) = OrdersOn(slots2, c)
       /\ \A t \in Sides, q \in Int :
            t # s \/ q # p => /\ ListOf(r, t, q) = ListOf(b, t, q)
                              /\ Orders(r, t, q) = Orders(b, t, q)
  <2>1. \A t \in Sides, q \in Int :
           t # s \/ q # p =>
             /\ OnLevel(r, t, q, ListOf(b, t, q))
             /\ OrdersOn(r.slab.slots, ListOf(b, t, q)) = OrdersOn(b.slab.slots, ListOf(b, t, q))
    BY <1>13, <1>17
  <2>2. s \in Sides /\ p \in Int
    BY <1>2
  <2>3. /\ Listed(r) /\ ListOf(r, s, p) = c
        /\ Orders(r, s, p) = OrdersOn(r.slab.slots, c)
        /\ \A t \in Sides, q \in Int :
             t # s \/ q # p => /\ ListOf(r, t, q) = ListOf(b, t, q)
                               /\ Orders(r, t, q) = Orders(b, t, q)
    BY ONLY <1>1, <1>15, <1>16, <2>1, <2>2, Relisted
  <2> QED BY <1>13, <2>3
<1>19. \A t \in Sides, q \in Int : ListOf(r, t, q) = ListOf(b, t, q)
  BY <1>18 DEF c
<1>20. Named(r)
  <2>1. ASSUME NEW x \in DOMAIN ids PROVE NamedAt(r, x)
    <3> DEFINE cell == slots[ids[x]]
               t == SideOf(cell)
               q == AbsPx(cell)
    <3>1. /\ ids[x] \in DOMAIN slots /\ cell.id = x /\ t \in Sides /\ q \in ValidPrices
          /\ q \in Int /\ \E j \in 1 .. Len(ListOf(b, t, q)) : ListOf(b, t, q)[j] = ids[x]
      BY NamedFacts
    <3>2. SideOf(slots2[ids[x]]) = t /\ AbsPx(slots2[ids[x]]) = q /\ slots2[ids[x]].id = x
      BY <1>9, <3>1 DEF SideOf, AbsPx
    <3> HIDE DEF t, q, cell
    <3>3. \E j \in 1 .. Len(ListOf(r, t, q)) : ListOf(r, t, q)[j] = ids[x]
      BY <1>19, <3>1
    <3>4. ids[x] \in DOMAIN slots2 /\ r.slab.slots = slots2 /\ r.ids = ids
      BY <1>9, <1>13, <3>1
    <3> QED BY ONLY <3>1, <3>2, <3>3, <3>4 DEF NamedAt
  <2> QED BY <1>13, <2>1 DEF Named
<1>21. Freed(slots2, ids, head, F)
  <2>1. F \in Seq(DOMAIN slots) /\ Distinct(F) /\ LinkedOn(slots, F) /\ head = HeadOf(F)
        /\ \A i \in DOMAIN slots : Unused(ids, i) <=> \E j \in 1 .. Len(F) : F[j] = i
    BY <1>5 DEF Freed
  <2>2. \A j \in 1 .. Len(F) : F[j] \in DOMAIN slots
    BY <2>1, ListEnds
  <2>3. LinkedOn(slots2, F)
    BY <1>9, <2>1, <2>2 DEF LinkedOn
  <2> QED BY <1>9, <2>1, <2>3 DEF Freed
<1>22. Sound(r)
  BY <1>13, <1>15, <1>18, <1>20, <1>21 DEF Sound
<1>23. \A t \in Sides : /\ r.sides[t].hits = b.sides[t].hits
                        /\ r.sides[t].maxOffset = b.sides[t].maxOffset
  BY <1>12, <1>14
<1>24. Orders(r, s, p) = Reduced(Orders(b, s, p), k, left)
  BY <1>4, <1>10, <1>18
<1>25. \A x \in DOMAIN ids : /\ slots2[ids[x]].id = slots[ids[x]].id
                             /\ slots2[ids[x]].px = slots[ids[x]].px
  BY <1>1, <1>9
<1> QED BY <1>13, <1>18, <1>22, <1>23, <1>24, <1>25 DEF r, left, Lessened

-----------------------------------------------------------------------------
(* Counting an add.                                                        *)

LEMMA CountParts ==
  ASSUME NEW b, Shaped(b), NEW side \in Sides, NEW px
  PROVE  CountAdd(b, side, px)
           = BookOf([b.sides EXCEPT ![side] = NoteAdd(b.sides[side], Locate(px), px)],
                    b.slab.slots, b.slab.cap, b.slab.freeHead, b.slab.live, b.ids)
<1> DEFINE noted == NoteAdd(b.sides[side], Locate(px), px)
           sides2 == [b.sides EXCEPT ![side] = noted]
<1>1. b = BookOf(b.sides, b.slab.slots, b.slab.cap, b.slab.freeHead, b.slab.live, b.ids)
  BY DEF Shaped
<1>2. /\ b = [sides |-> b.sides, slab |-> b.slab, ids |-> b.ids]
      /\ b.slab = [slots |-> b.slab.slots, cap |-> b.slab.cap,
                   freeHead |-> b.slab.freeHead, live |-> b.slab.live]
  BY <1>1 DEF BookOf
<1>3. CountAdd(b, side, px) = [b EXCEPT !.sides[side] = noted]
  BY DEF CountAdd
<1> HIDE DEF noted
<1>4. [b EXCEPT !.sides[side] = noted] = [b EXCEPT !.sides = sides2]
  BY <1>2
<1> HIDE DEF sides2
<1>5. [b EXCEPT !.sides = sides2] = [sides |-> sides2, slab |-> b.slab, ids |-> b.ids]
  BY <1>2
<1> QED BY <1>2, <1>3, <1>4, <1>5 DEF BookOf, sides2, noted

\* The counters move, nothing else does.
LEMMA CountSound ==
  ASSUME NEW b, Sound(b), NEW side \in Sides, NEW px \in ValidPrices
  PROVE  LET r == CountAdd(b, side, px)
         IN  /\ Sound(r) /\ r.slab = b.slab /\ r.ids = b.ids
             /\ \A s, p : ListOf(r, s, p) = ListOf(b, s, p) /\ Orders(r, s, p) = Orders(b, s, p)
             /\ r.sides[side].hits
                  = IF Locate(px).grid THEN b.sides[side].hits ELSE b.sides[side].hits + 1
             /\ r.sides[side].maxOffset
                  = IF AbsOffset(px) > b.sides[side].maxOffset THEN AbsOffset(px)
                    ELSE b.sides[side].maxOffset
             /\ \A s \in Sides : s # side => r.sides[s] = b.sides[s]
<1> DEFINE noted == NoteAdd(b.sides[side], Locate(px), px)
           r == CountAdd(b, side, px)
<1>1. /\ Shaped(b) /\ Listed(b) /\ Named(b) /\ DOMAIN b.sides = Sides
      /\ Indexed(b.sides[side], Lvls, ValidPrices)
  BY DEF Sound, Shaped
<1>2. px \in Nat
  BY ValidIsPositive
<1>3. r = BookOf([b.sides EXCEPT ![side] = noted],
                 b.slab.slots, b.slab.cap, b.slab.freeHead, b.slab.live, b.ids)
  BY <1>1, CountParts
<1>4. /\ Indexed(noted, Lvls, ValidPrices)
      /\ noted.levels = b.sides[side].levels
      /\ noted.overflow = b.sides[side].overflow
      /\ noted.hits = IF Locate(px).grid THEN b.sides[side].hits ELSE b.sides[side].hits + 1
      /\ noted.maxOffset = IF AbsOffset(px) > b.sides[side].maxOffset THEN AbsOffset(px)
                           ELSE b.sides[side].maxOffset
  BY <1>1, <1>2, LevelsAre, NoteAddIndexed
<1> HIDE DEF r, noted
<1>5. /\ r.slab = b.slab /\ r.ids = b.ids
      /\ r = BookOf(r.sides, r.slab.slots, r.slab.cap, r.slab.freeHead, r.slab.live, r.ids)
  BY <1>1, <1>3 DEF BookOf, Shaped
<1>6. /\ DOMAIN r.sides = Sides /\ r.sides[side] = noted
      /\ \A s \in Sides : s # side => r.sides[s] = b.sides[s]
  <2>1. r.sides = [b.sides EXCEPT ![side] = noted]
    BY <1>3 DEF BookOf
  <2> QED BY <1>1, <2>1
<1>7. \A s, p : LevelAt(r.sides[s], Locate(p)) = LevelAt(b.sides[s], Locate(p))
  <2>1. r.sides = [b.sides EXCEPT ![side] = noted]
    BY <1>3 DEF BookOf
  <2>2. ASSUME NEW s, s # side PROVE r.sides[s] = b.sides[s]
    BY <1>1, <2>1, <2>2
  <2>3. \A p : LevelAt(noted, Locate(p)) = LevelAt(b.sides[side], Locate(p))
    BY <1>4 DEF LevelAt
  <2> QED BY <1>6, <2>2, <2>3
<1>8. \A s, p : ListOf(r, s, p) = ListOf(b, s, p)
  BY <1>5, <1>7 DEF ListOf
<1>9. \A s, p : Orders(r, s, p) = Orders(b, s, p)
  BY <1>5, <1>8 DEF Orders
<1>10. Shaped(r)
  <2>1. \A s \in Sides : Indexed(r.sides[s], Lvls, ValidPrices)
    BY <1>1, <1>4, <1>6 DEF Shaped
  <2> QED BY <1>1, <1>5, <1>6, <2>1 DEF Shaped, Indices
<1>11. Listed(r)
  BY <1>1, <1>5, <1>7, <1>8 DEF Listed, OnLevel
<1>12. Named(r)
  BY <1>1, <1>5, <1>8 DEF Named, NamedAt
<1>13. Sound(r)
  BY <1>5, <1>10, <1>11, <1>12 DEF Sound
<1> QED BY <1>4, <1>5, <1>6, <1>8, <1>9, <1>13 DEF r

\* alloc does not look at the counters, nor they at it.
LEMMA CountCommutes ==
  ASSUME NEW b, Shaped(b), NEW id, NEW side \in Sides, NEW px, NEW qty
  PROVE  AfterAdd(b, id, side, px, qty) = Insert(CountAdd(b, side, px), id, side, px, qty)
<1> DEFINE noted == NoteAdd(b.sides[side], Locate(px), px)
           sides2 == [b.sides EXCEPT ![side] = noted]
           slab2 == Alloc(b.slab, id, qty, SignedPx(side, px))
           ids2 == With(b.ids, id, AllocAt(b.slab))
           a == AllocOrder(b, id, side, px, qty)
           c == CountAdd(b, side, px)
<1>1. b = [sides |-> b.sides, slab |-> b.slab, ids |-> b.ids]
  BY DEF Shaped, BookOf
<1>2. c = [sides |-> sides2, slab |-> b.slab, ids |-> b.ids]
  BY <1>1, CountParts DEF BookOf, Shaped
<1> HIDE DEF noted, sides2, slab2, ids2, c
<1>3. a = [sides |-> b.sides, slab |-> slab2, ids |-> ids2]
  <2>1. a = [b EXCEPT !.slab = slab2, !.ids = ids2]
    BY DEF AllocOrder, slab2, ids2
  <2> HIDE DEF a
  <2> QED BY <1>1, <2>1
<1> HIDE DEF a
<1>4. CountAdd(a, side, px) = [sides |-> sides2, slab |-> slab2, ids |-> ids2]
  <2>1. CountAdd(a, side, px) = [a EXCEPT !.sides[side] = noted]
    BY <1>3 DEF CountAdd, noted
  <2>2. [a EXCEPT !.sides[side] = noted] = [a EXCEPT !.sides = sides2]
    BY <1>3 DEF sides2
  <2>3. [a EXCEPT !.sides = sides2] = [sides |-> sides2, slab |-> slab2, ids |-> ids2]
    BY <1>3
  <2> QED BY <2>1, <2>2, <2>3
<1>5. c.slab = b.slab /\ c.ids = b.ids
  BY <1>2
<1>6. AllocOrder(c, id, side, px, qty) = [sides |-> sides2, slab |-> slab2, ids |-> ids2]
  <2>1. AllocOrder(c, id, side, px, qty) = [c EXCEPT !.slab = slab2, !.ids = ids2]
    BY <1>5 DEF AllocOrder, slab2, ids2
  <2> QED BY <1>2, <2>1
<1>7. CountAdd(a, side, px) = AllocOrder(c, id, side, px, qty)
  BY <1>4, <1>6
<1> QED BY <1>5, <1>7 DEF AfterAdd, Insert, a, c

-----------------------------------------------------------------------------
(* The counters cover what rests.                                          *)

\* The orders of a side that rest off the grid or out of the window.
Outside(b, s) ==
  {id \in DOMAIN b.ids : /\ SideOf(b.slab.slots[b.ids[id]]) = s
                         /\ ~Locate(AbsPx(b.slab.slots[b.ids[id]])).grid}

Covered(b) ==
  \A s \in Sides :
    /\ \A id \in DOMAIN b.ids :
         SideOf(b.slab.slots[b.ids[id]]) = s =>
           AbsOffset(AbsPx(b.slab.slots[b.ids[id]])) <= b.sides[s].maxOffset
    /\ Cardinality(Outside(b, s)) <= b.sides[s].hits

\* The counters cover one more order at this side and price.
RoomFor(b, side, px) ==
  /\ AbsOffset(px) <= b.sides[side].maxOffset
  /\ ~Locate(px).grid => Cardinality(Outside(b, side)) + 1 <= b.sides[side].hits

LEMMA CounterFacts ==
  ASSUME NEW b, Shaped(b), NEW s \in Sides
  PROVE  /\ b.sides[s].hits \in Nat /\ b.sides[s].maxOffset \in Nat
         /\ IsFiniteSet(Outside(b, s)) /\ Cardinality(Outside(b, s)) \in Nat
<1>1. Indexed(b.sides[s], Lvls, ValidPrices) /\ IsFiniteSet(DOMAIN b.ids)
  BY DEF Shaped
<1>2. b.sides[s].hits \in Nat /\ b.sides[s].maxOffset \in Nat
  BY <1>1 DEF Indexed, SideOver
<1>3. Outside(b, s) \in SUBSET DOMAIN b.ids
  BY DEF Outside
<1>4. IsFiniteSet(Outside(b, s))
  BY <1>1, <1>3, FS_Subset
<1> QED BY <1>2, <1>4, FS_CardinalityType

\* Two books in which the same ids have the same prices.
SamePrices(r, b) ==
  \A x \in DOMAIN r.ids : r.slab.slots[r.ids[x]].px = b.slab.slots[b.ids[x]].px

LEMMA CountCovers ==
  ASSUME NEW b, Sound(b), Covered(b), NEW side \in Sides, NEW px \in ValidPrices
  PROVE  Covered(CountAdd(b, side, px)) /\ RoomFor(CountAdd(b, side, px), side, px)
<1> DEFINE r == CountAdd(b, side, px)
           off == AbsOffset(px)
<1>1. /\ r.slab = b.slab /\ r.ids = b.ids
      /\ r.sides[side].hits
           = IF Locate(px).grid THEN b.sides[side].hits ELSE b.sides[side].hits + 1
      /\ r.sides[side].maxOffset
           = IF AbsOffset(px) > b.sides[side].maxOffset THEN AbsOffset(px)
             ELSE b.sides[side].maxOffset
      /\ \A s \in Sides : s # side => r.sides[s] = b.sides[s]
  BY CountSound
<1> HIDE DEF r
<1>2. off \in Nat
  BY ValidIsPositive, OffsetIsNat
<1> HIDE DEF off
<1>3. \A s : Outside(r, s) = Outside(b, s)
  BY <1>1 DEF Outside
<1>4. ASSUME NEW s \in Sides
      PROVE  /\ b.sides[s].hits \in Nat /\ b.sides[s].maxOffset \in Nat
             /\ Cardinality(Outside(b, s)) \in Nat
             /\ b.sides[s].hits <= r.sides[s].hits
             /\ b.sides[s].maxOffset <= r.sides[s].maxOffset /\ r.sides[s].maxOffset \in Nat
             /\ r.sides[s].hits \in Nat
  <2>1. /\ b.sides[s].hits \in Nat /\ b.sides[s].maxOffset \in Nat
        /\ Cardinality(Outside(b, s)) \in Nat
    BY CounterFacts DEF Sound
  <2> QED BY <1>1, <1>2, <2>1 DEF off
<1>5. ASSUME NEW s \in Sides, NEW id \in DOMAIN r.ids, SideOf(r.slab.slots[r.ids[id]]) = s
      PROVE  AbsOffset(AbsPx(r.slab.slots[r.ids[id]])) <= r.sides[s].maxOffset
  <2> DEFINE o == AbsOffset(AbsPx(r.slab.slots[r.ids[id]]))
  <2>1. o <= b.sides[s].maxOffset
    BY <1>1, <1>5 DEF Covered
  <2>2. o \in Nat
    <3>1. AbsPx(b.slab.slots[b.ids[id]]) \in ValidPrices
      BY <1>1, NamedFacts
    <3> QED BY <1>1, <3>1, ValidIsPositive, OffsetIsNat
  <2> HIDE DEF o
  <2>3. o <= r.sides[s].maxOffset
    BY <1>4, <2>1, <2>2
  <2> QED BY <2>3 DEF o
<1>6. ASSUME NEW s \in Sides PROVE Cardinality(Outside(r, s)) <= r.sides[s].hits
  <2>1. Cardinality(Outside(b, s)) <= b.sides[s].hits
    BY DEF Covered
  <2> QED BY <1>3, <1>4, <2>1
<1>7. Covered(r)
  BY <1>5, <1>6 DEF Covered
<1>8. off <= r.sides[side].maxOffset
  BY <1>1, <1>2, <1>4 DEF off
<1>9. ~Locate(px).grid => Cardinality(Outside(r, side)) + 1 <= r.sides[side].hits
  <2>1. Cardinality(Outside(b, side)) <= b.sides[side].hits
    BY DEF Covered
  <2> QED BY <1>1, <1>3, <1>4, <2>1
<1> QED BY <1>7, <1>8, <1>9 DEF RoomFor, off, r

\* Ids may leave, or stay as they were.
LEMMA CoverShrinks ==
  ASSUME NEW b, NEW r, Sound(b), Covered(b), Sound(r),
         DOMAIN r.ids \subseteq DOMAIN b.ids, SamePrices(r, b),
         \A s \in Sides : /\ r.sides[s].hits = b.sides[s].hits
                          /\ r.sides[s].maxOffset = b.sides[s].maxOffset
  PROVE  /\ Covered(r)
         /\ \A side \in Sides, px \in ValidPrices : RoomFor(b, side, px) => RoomFor(r, side, px)
<1>1. \A x \in DOMAIN r.ids :
        /\ SideOf(r.slab.slots[r.ids[x]]) = SideOf(b.slab.slots[b.ids[x]])
        /\ AbsPx(r.slab.slots[r.ids[x]]) = AbsPx(b.slab.slots[b.ids[x]])
  BY DEF SamePrices, SideOf, AbsPx
<1>2. ASSUME NEW s \in Sides
      PROVE  /\ Cardinality(Outside(r, s)) <= Cardinality(Outside(b, s))
             /\ Cardinality(Outside(r, s)) \in Nat /\ Cardinality(Outside(b, s)) \in Nat
             /\ b.sides[s].hits \in Nat
  <2>1. Outside(r, s) \in SUBSET Outside(b, s)
    BY <1>1 DEF Outside
  <2>2. IsFiniteSet(Outside(b, s)) /\ Cardinality(Outside(b, s)) \in Nat
        /\ b.sides[s].hits \in Nat
    BY CounterFacts DEF Sound
  <2>3. Cardinality(Outside(r, s)) \in Nat
    BY CounterFacts DEF Sound
  <2> QED BY <2>1, <2>2, <2>3, FS_Subset
<1>3. ASSUME NEW s \in Sides PROVE Cardinality(Outside(r, s)) <= r.sides[s].hits
  <2>1. Cardinality(Outside(b, s)) <= b.sides[s].hits
    BY DEF Covered
  <2> QED BY <1>2, <2>1
<1>4. Covered(r)
  <2>1. ASSUME NEW s \in Sides, NEW id \in DOMAIN r.ids, SideOf(r.slab.slots[r.ids[id]]) = s
        PROVE  AbsOffset(AbsPx(r.slab.slots[r.ids[id]])) <= r.sides[s].maxOffset
    BY <1>1, <2>1 DEF Covered
  <2> QED BY <1>3, <2>1 DEF Covered
<1>5. ASSUME NEW side \in Sides, NEW px \in ValidPrices, RoomFor(b, side, px)
      PROVE  RoomFor(r, side, px)
  <2>1. ASSUME ~Locate(px).grid PROVE Cardinality(Outside(r, side)) + 1 <= r.sides[side].hits
    <3>1. Cardinality(Outside(b, side)) + 1 <= b.sides[side].hits
      BY <1>5, <2>1 DEF RoomFor
    <3> QED BY <1>2, <3>1
  <2> QED BY <1>5, <2>1 DEF RoomFor
<1> QED BY <1>4, <1>5

\* An id comes, at a side and price that there was room for.
LEMMA CoverGrows ==
  ASSUME NEW b, NEW r, Sound(b), Covered(b), Sound(r),
         NEW id \in Ids, NEW side \in Sides, NEW px \in ValidPrices, RoomFor(b, side, px),
         DOMAIN r.ids = DOMAIN b.ids \cup {id}, r.slab.slots[r.ids[id]].px = SignedPx(side, px),
         \A x \in DOMAIN b.ids : r.slab.slots[r.ids[x]].px = b.slab.slots[b.ids[x]].px,
         \A s \in Sides : /\ r.sides[s].hits = b.sides[s].hits
                          /\ r.sides[s].maxOffset = b.sides[s].maxOffset
  PROVE  Covered(r)
<1>1. \A x \in DOMAIN b.ids :
        /\ SideOf(r.slab.slots[r.ids[x]]) = SideOf(b.slab.slots[b.ids[x]])
        /\ AbsPx(r.slab.slots[r.ids[x]]) = AbsPx(b.slab.slots[b.ids[x]])
  BY DEF SideOf, AbsPx
<1>2. SideOf(r.slab.slots[r.ids[id]]) = side /\ AbsPx(r.slab.slots[r.ids[id]]) = px
  BY SignedBack
<1>3. ASSUME NEW s \in Sides, NEW x \in DOMAIN r.ids, SideOf(r.slab.slots[r.ids[x]]) = s
      PROVE  AbsOffset(AbsPx(r.slab.slots[r.ids[x]])) <= r.sides[s].maxOffset
  <2>1. CASE x = id
    BY <1>2, <1>3, <2>1 DEF RoomFor
  <2>2. CASE x # id
    BY <1>1, <1>3, <2>2 DEF Covered
  <2> QED BY <2>1, <2>2
<1>4. ASSUME NEW s \in Sides PROVE Cardinality(Outside(r, s)) <= r.sides[s].hits
  <2>1. /\ IsFiniteSet(Outside(b, s)) /\ Cardinality(Outside(b, s)) \in Nat
        /\ b.sides[s].hits \in Nat /\ Cardinality(Outside(b, s)) <= b.sides[s].hits
    BY CounterFacts DEF Sound, Covered
  <2>2. Cardinality(Outside(r, s)) \in Nat
    BY CounterFacts DEF Sound
  <2>3. CASE s = side /\ ~Locate(px).grid
    <3>1. Outside(r, s) \in SUBSET (Outside(b, s) \cup {id})
      BY <1>1 DEF Outside
    <3>2. /\ IsFiniteSet(Outside(b, s) \cup {id})
          /\ Cardinality(Outside(b, s) \cup {id}) <= Cardinality(Outside(b, s)) + 1
          /\ Cardinality(Outside(b, s) \cup {id}) \in Nat
      <4> DEFINE n == Cardinality(Outside(b, s))
                 m == Cardinality(Outside(b, s) \cup {id})
      <4>1. IsFiniteSet(Outside(b, s) \cup {id}) /\ (m = n \/ m = n + 1)
        BY <2>1, FS_AddElement
      <4>2. n \in Nat
        BY <2>1
      <4> HIDE DEF n, m
      <4>3. m \in Nat /\ m <= n + 1
        BY <4>1, <4>2
      <4> QED BY <4>1, <4>3 DEF n, m
    <3>3. Cardinality(Outside(r, s)) <= Cardinality(Outside(b, s) \cup {id})
      BY <3>1, <3>2, FS_Subset
    <3>4. Cardinality(Outside(b, s)) + 1 <= b.sides[s].hits
      BY <2>3 DEF RoomFor
    <3> QED BY <2>1, <2>2, <3>2, <3>3, <3>4
  <2>4. CASE ~(s = side /\ ~Locate(px).grid)
    <3>1. Outside(r, s) \in SUBSET Outside(b, s)
      BY <1>1, <1>2, <2>4 DEF Outside
    <3>2. Cardinality(Outside(r, s)) <= Cardinality(Outside(b, s))
      BY <2>1, <3>1, FS_Subset
    <3> QED BY <2>1, <2>2, <3>2
  <2> QED BY <2>3, <2>4
<1> QED BY <1>3, <1>4 DEF Covered

-----------------------------------------------------------------------------
(* Looking an order up.                                                    *)

\* The side, price, place and quantity of a live id.
Find(b, id) ==
  LET slot == b.slab.slots[b.ids[id]]
      side == SideOf(slot)
      px == AbsPx(slot)
  IN  [side |-> side, px |-> px, pos |-> PosOf(Orders(b, side, px), id), qty |-> slot.qty]

\* What a level keeps is what its orders come to.
LEMMA LevelTotals ==
  ASSUME NEW b, Sound(b), NEW s \in Sides, NEW p \in Int
  PROVE  LET lvl == LevelAt(b.sides[s], Locate(p))
             g == Orders(b, s, p)
         IN  /\ OnLevel(b, s, p, ListOf(b, s, p))
             /\ g \in Seq(OrdersOf(Ids, Lots)) /\ Len(g) = Len(ListOf(b, s, p))
             /\ lvl.qty = LevelQty(g) /\ lvl.count = Len(g)
             /\ LevelQty(g) \in 0 .. MaxQty
<1>1. Shaped(b) /\ OnLevel(b, s, p, ListOf(b, s, p))
  BY DEF Sound, Listed
<1> QED BY <1>1, LevelFacts

LEMMA LookedUp ==
  ASSUME NEW b, Sound(b), NEW id \in DOMAIN b.ids
  PROVE  LET f == Find(b, id)
             slot == b.slab.slots[b.ids[id]]
             list == ListOf(b, f.side, f.px)
             g == Orders(b, f.side, f.px)
         IN  /\ f = [side |-> f.side, px |-> f.px, pos |-> f.pos, qty |-> f.qty]
             /\ f.side = SideOf(slot) /\ f.px = AbsPx(slot) /\ f.qty = slot.qty /\ slot.id = id
             /\ f.side \in Sides /\ f.px \in ValidPrices /\ f.px \in Int
             /\ f.pos \in 1 .. Len(list) /\ list[f.pos] = b.ids[id]
             /\ f.pos = PosOf(g, id) /\ f.pos \in 1 .. Len(g)
             /\ g[f.pos] = Order(id, f.qty) /\ f.qty \in Lots
<1> DEFINE at == b.ids[id]
           slot == b.slab.slots[at]
           s == SideOf(slot)
           p == AbsPx(slot)
           c == ListOf(b, s, p)
           g == Orders(b, s, p)
           f == Find(b, id)
<1>1. /\ slot.id = id /\ slot.qty \in Lots /\ s \in Sides /\ p \in ValidPrices /\ p \in Int
      /\ OnLevel(b, s, p, c) /\ \E k \in 1 .. Len(c) : c[k] = at
  BY NamedFacts
<1>2. f = [side |-> s, px |-> p, pos |-> PosOf(g, id), qty |-> slot.qty]
  BY DEF Find
<1>3. Kept(b.slab.slots, b.ids) /\ g = OrdersOn(b.slab.slots, c)
  BY DEF Sound, Shaped, Orders
<1> HIDE DEF f, g, c, p, s
<1>4. PICK k \in 1 .. Len(c) : c[k] = at
  BY <1>1
<1>5. /\ Threaded(b.slab.slots, b.ids, s, p, c) /\ Distinct(c)
      /\ g \in Seq(OrdersOf(Ids, Lots)) /\ Len(g) = Len(c)
      /\ \A j \in 1 .. Len(c) : g[j] = Order(b.slab.slots[c[j]].id, b.slab.slots[c[j]].qty)
  BY <1>1, <1>3, ThreadFacts DEF OnLevel
<1>6. g[k] = Order(id, slot.qty)
  BY <1>1, <1>4, <1>5
<1>7. g[k].id = id
  BY <1>6 DEF Order
<1>8. ASSUME NEW j \in 1 .. Len(g), g[j].id = id PROVE j = k
  <2>1. j \in 1 .. Len(c)
    BY <1>5
  <2>2. b.slab.slots[c[j]].id = id
    <3>1. g[j] = Order(b.slab.slots[c[j]].id, b.slab.slots[c[j]].qty)
      BY <1>5, <2>1
    <3>2. Order(b.slab.slots[c[j]].id, b.slab.slots[c[j]].qty).id = b.slab.slots[c[j]].id
      BY DEF Order
    <3> QED BY <1>8, <3>1, <3>2
  <2>3. c[j] = at
    BY <1>5, <2>1, <2>2 DEF Threaded, Rests, at
  <2> QED BY <1>4, <1>5, <2>1, <2>3 DEF Distinct
<1>9. PosOf(g, id) = k
  <2>1. k \in 1 .. Len(g) /\ \A i \in 1 .. Len(g) : g[i].id = g[k].id => i = k
    BY <1>4, <1>5, <1>7, <1>8
  <2> QED BY <1>5, <1>7, <2>1, LotsAreNat, PosOfOnly
<1>10. f.side = s /\ f.px = p /\ f.pos = k /\ f.qty = slot.qty
       /\ f = [side |-> f.side, px |-> f.px, pos |-> f.pos, qty |-> f.qty]
  BY <1>2, <1>9
<1> QED BY <1>1, <1>4, <1>5, <1>6, <1>9, <1>10 DEF f, g, c, p, s

\* r is a sound book that differs from b in the orders h of one level at most.
Moved(b, r, side, px, h) ==
  /\ Sound(r) /\ Covered(r)
  /\ Orders(r, side, px) = h
  /\ \A s \in Sides, p \in Int : s # side \/ p # px => Orders(r, s, p) = Orders(b, s, p)

LEMMA RemoveMoves ==
  ASSUME NEW b, Sound(b), Covered(b), NEW id \in DOMAIN b.ids, NEW f, f = Find(b, id)
  PROVE  LET r == Removal(b, id, f.side, f.px, b.ids[id])
         IN  /\ Moved(b, r, f.side, f.px, RemoveAt(Orders(b, f.side, f.px), f.pos))
             /\ r.ids = Without(b.ids, id)
             /\ \A side \in Sides, px \in ValidPrices : RoomFor(b, side, px) => RoomFor(r, side, px)
<1> DEFINE at == b.ids[id]
           s == f.side
           p == f.px
           k == f.pos
           r == Removal(b, id, s, p, at)
<1>1. /\ s = SideOf(b.slab.slots[at]) /\ p = AbsPx(b.slab.slots[at])
      /\ k \in 1 .. Len(ListOf(b, s, p)) /\ ListOf(b, s, p)[k] = at
  BY LookedUp
<1>2. Removed(b, r, id, s, p, k)
  BY <1>1, RemoveSound
<1> HIDE DEF s, p, k, at, r
<1>3. DOMAIN r.ids \subseteq DOMAIN b.ids /\ \A x \in DOMAIN r.ids : r.ids[x] = b.ids[x]
  BY <1>2 DEF Removed, Without
<1>4. SamePrices(r, b)
  BY <1>2, <1>3 DEF SamePrices, SameOrder, Removed
<1>5. /\ Covered(r)
      /\ \A side \in Sides, px \in ValidPrices : RoomFor(b, side, px) => RoomFor(r, side, px)
  BY <1>2, <1>3, <1>4, CoverShrinks DEF Removed
<1> QED BY <1>2, <1>5 DEF Moved, Removed, r, at, s, p, k

LEMMA ReduceMoves ==
  ASSUME NEW b, Sound(b), Covered(b), NEW id \in DOMAIN b.ids, NEW f, f = Find(b, id),
         NEW by \in Nat, 0 < by, by < f.qty
  PROVE  Moved(b, Reduce(b, f.side, Locate(f.px), b.ids[id], by), f.side, f.px,
               Reduced(Orders(b, f.side, f.px), f.pos, f.qty - by))
<1> DEFINE at == b.ids[id]
           r == Reduce(b, f.side, Locate(f.px), at, by)
<1>1. /\ f.side = SideOf(b.slab.slots[at]) /\ f.px = AbsPx(b.slab.slots[at])
      /\ f.qty = b.slab.slots[at].qty
      /\ f.pos \in 1 .. Len(ListOf(b, f.side, f.px)) /\ ListOf(b, f.side, f.px)[f.pos] = at
  BY LookedUp
<1> DEFINE left == b.slab.slots[at].qty - by
<1>2. by < b.slab.slots[at].qty
  BY <1>1
<1>3. Lessened(b, r, f.side, f.px, f.pos, left)
  BY <1>1, <1>2, ReduceSound
<1> HIDE DEF r, left
<1>4. SamePrices(r, b)
  BY <1>3 DEF SamePrices, Lessened
<1>5. Covered(r)
  BY <1>3, <1>4, CoverShrinks DEF Lessened
<1>6. left = f.qty - by
  BY <1>1 DEF left
<1> QED BY <1>3, <1>5, <1>6 DEF Moved, r, Lessened

LEMMA InsertMoves ==
  ASSUME NEW b, Sound(b), Covered(b), NEW id \in Ids, id \notin DOMAIN b.ids,
         NEW side \in Sides, NEW px \in ValidPrices, RoomFor(b, side, px), NEW qty \in Lots,
         LevelQty(Orders(b, side, px)) + qty <= MaxQty
  PROVE  Moved(b, Insert(b, id, side, px, qty), side, px,
               Append(Orders(b, side, px), Order(id, qty)))
<1> DEFINE r == Insert(b, id, side, px, qty)
           at == AllocAt(b.slab)
<1>0. Inserted(b, r, id, at, side, px, qty)
  BY InsertSound
<1> HIDE DEF r, at
<1>1. /\ Sound(r)
      /\ Orders(r, side, px) = Append(Orders(b, side, px), Order(id, qty))
      /\ \A s \in Sides, p \in Int : s # side \/ p # px => Orders(r, s, p) = Orders(b, s, p)
      /\ r.ids = With(b.ids, id, at)
      /\ r.slab.slots[at].px = SignedPx(side, px)
      /\ \A x \in DOMAIN b.ids : SameOrder(r.slab.slots[b.ids[x]], b.slab.slots[b.ids[x]])
      /\ \A s \in Sides : /\ r.sides[s].hits = b.sides[s].hits
                          /\ r.sides[s].maxOffset = b.sides[s].maxOffset
  BY <1>0 DEF Inserted
<1>2. DOMAIN r.ids = DOMAIN b.ids \cup {id} /\ r.ids[id] = at
      /\ \A x \in DOMAIN b.ids : r.ids[x] = b.ids[x]
  BY <1>1 DEF With
<1>3. \A x \in DOMAIN b.ids : r.slab.slots[r.ids[x]].px = b.slab.slots[b.ids[x]].px
  BY <1>1, <1>2 DEF SameOrder
<1>4. r.slab.slots[r.ids[id]].px = SignedPx(side, px)
  BY <1>1, <1>2
<1>5. Covered(r)
  <2>1. DOMAIN r.ids = DOMAIN b.ids \cup {id}
    BY <1>2
  <2>2. \A s \in Sides : /\ r.sides[s].hits = b.sides[s].hits
                         /\ r.sides[s].maxOffset = b.sides[s].maxOffset
    BY <1>1
  <2>3. Sound(r)
    BY <1>1
  <2> QED BY <1>3, <1>4, <2>1, <2>2, <2>3, CoverGrows
<1> QED BY <1>1, <1>5 DEF Moved, r

-----------------------------------------------------------------------------
(* The calls.  One that returns no error meets what its change needs.      *)

LEMMA ErrorsDiffer ==
  /\ BadQty # NoError /\ BadPrice # NoError
  /\ \A kind, id : UnknownId(kind, id) # NoError
  /\ \A id : DuplicateId(id) # NoError
  /\ \A id, have, want : OverExecute(id, have, want) # NoError
<1> DEFINE Kind(e) == e.error
<1>1. /\ Kind(NoError) = "None" /\ Kind(BadQty) = "BadQty" /\ Kind(BadPrice) = "BadPrice"
      /\ \A kind, id : Kind(UnknownId(kind, id)) = "UnknownId"
      /\ \A id : Kind(DuplicateId(id)) = "DuplicateId"
      /\ \A id, have, want : Kind(OverExecute(id, have, want)) = "OverExecute"
  BY DEF NoError, BadQty, BadPrice, UnknownId, DuplicateId, OverExecute
<1> HIDE DEF Kind
<1> QED BY <1>1

LEMMA OutcomeOf ==
  ASSUME NEW before, NEW e, NEW after, NEW event
  PROVE  /\ e = NoError => /\ Outcome(before, e, after, event).book = after
                           /\ Outcome(before, e, after, event).result = Ok(event)
         /\ e # NoError => /\ Outcome(before, e, after, event).book = before
                           /\ Outcome(before, e, after, event).result = Err(e)
BY DEF Outcome

\* A price and a quantity that are not refused are ones an order may rest with.
LEMMA MayRest ==
  /\ \A px \in Prices : ~(px <= 0) => px \in ValidPrices
  /\ \A qty \in Qtys : qty # 0 => qty \in Lots /\ qty \in Nat
<1>1. \A px \in Prices : ~(px <= 0) => px \in ValidPrices
  BY ArgumentTypes DEF ValidPrices
<1>2. \A qty \in Qtys : qty # 0 => qty \in Lots /\ qty \in Nat
  BY ArgumentTypes DEF Lots
<1> QED BY <1>1, <1>2

\* What an added order finds.
LEMMA AddMay ==
  ASSUME NEW b, Sound(b), NEW id \in Ids, NEW side \in Sides, NEW px \in Prices,
         NEW qty \in Qtys, AddError(b, id, side, px, qty) = NoError
  PROVE  /\ id \notin DOMAIN b.ids /\ px \in ValidPrices /\ qty \in Lots
         /\ LevelQty(Orders(b, side, px)) + qty <= MaxQty
<1> DEFINE there == LevelAt(b.sides[side], Locate(px)).qty
           q == LevelQty(Orders(b, side, px))
<1>1. /\ qty # 0 /\ ~(px <= 0) /\ ~(there + qty > MaxQty)
      /\ id \notin DOMAIN b.ids
  BY ErrorsDiffer DEF AddError
<1>2. px \in ValidPrices /\ px \in Int /\ qty \in Lots /\ qty \in Nat
  BY <1>1, MayRest, ArgumentTypes
<1>3. there = q /\ q \in 0 .. MaxQty
  BY <1>2, LevelTotals
<1> HIDE DEF there, q
<1>4. q + qty <= MaxQty
  BY <1>1, <1>2, <1>3, ArgumentTypes
<1> QED BY <1>1, <1>2, <1>4 DEF q

LEMMA AddMoves ==
  ASSUME NEW b, Sound(b), Covered(b), NEW id \in Ids, NEW side \in Sides, NEW px \in Prices,
         NEW qty \in Qtys, AddError(b, id, side, px, qty) = NoError
  PROVE  Moved(b, AfterAdd(b, id, side, px, qty), side, px,
               Append(Orders(b, side, px), Order(id, qty)))
<1> DEFINE c == CountAdd(b, side, px)
           h == Append(Orders(b, side, px), Order(id, qty))
           r == Insert(c, id, side, px, qty)
<1>1. /\ id \notin DOMAIN b.ids /\ px \in ValidPrices /\ qty \in Lots
      /\ LevelQty(Orders(b, side, px)) + qty <= MaxQty
  BY AddMay
<1>2. /\ Sound(c) /\ c.ids = b.ids
      /\ \A s, p : Orders(c, s, p) = Orders(b, s, p)
  BY <1>1, CountSound
<1>3. Covered(c) /\ RoomFor(c, side, px)
  BY <1>1, CountCovers
<1>4. AfterAdd(b, id, side, px, qty) = r
  BY CountCommutes DEF Sound
<1> HIDE DEF c
<1>5. LevelQty(Orders(c, side, px)) + qty <= MaxQty /\ id \notin DOMAIN c.ids
  BY <1>1, <1>2
<1>6. Moved(c, r, side, px, Append(Orders(c, side, px), Order(id, qty)))
  BY <1>1, <1>2, <1>3, <1>5, InsertMoves
<1> HIDE DEF r
<1>7. Moved(b, r, side, px, h)
  BY <1>2, <1>6 DEF Moved
<1> QED BY <1>4, <1>7

\* What is left of a FIFO once `by' of the order at f is taken.
Left(g, f, by) ==
  IF by = f.qty THEN RemoveAt(g, f.pos) ELSE Reduced(g, f.pos, f.qty - by)

LEMMA TakeMoves ==
  ASSUME NEW b, Sound(b), Covered(b), NEW id \in DOMAIN b.ids, NEW f, f = Find(b, id),
         NEW by \in 1 .. f.qty
  PROVE  Moved(b, Take(b, b.ids[id], by), f.side, f.px, Left(Orders(b, f.side, f.px), f, by))
<1> DEFINE at == b.ids[id]
           slot == b.slab.slots[at]
           r == Take(b, at, by)
<1>1. /\ f.side = SideOf(slot) /\ f.px = AbsPx(slot) /\ f.qty = slot.qty /\ slot.id = id
      /\ f.qty \in Lots
  BY LookedUp
<1>2. CASE by = f.qty
  <2>1. r = Removal(b, id, f.side, f.px, at)
    BY <1>1, <1>2 DEF Take, Removal
  <2>2. Moved(b, Removal(b, id, f.side, f.px, at), f.side, f.px,
              RemoveAt(Orders(b, f.side, f.px), f.pos))
    BY RemoveMoves
  <2> QED BY <1>2, <2>1, <2>2 DEF Left
<1>3. CASE by # f.qty
  <2>1. r = Reduce(b, f.side, Locate(f.px), at, by)
    BY <1>1, <1>3 DEF Take
  <2>2. by \in Nat /\ 0 < by /\ by < f.qty
    <3>1. f.qty \in Nat
      BY <1>1, LotsAreNat
    <3> QED BY <1>3, <3>1
  <2>3. Moved(b, Reduce(b, f.side, Locate(f.px), at, by), f.side, f.px,
              Reduced(Orders(b, f.side, f.px), f.pos, f.qty - by))
    BY <2>2, ReduceMoves
  <2> QED BY <1>3, <2>1, <2>3 DEF Left
<1> QED BY <1>2, <1>3

-----------------------------------------------------------------------------
(* A replace: the old order leaves, then the new one comes.                *)

\* What the level of the new order will hold beside it.
Beside(b, f, px) ==
  LevelQty(Orders(b, f.side, px)) - (IF px = f.px THEN f.qty ELSE 0)

LEMMA BesideIs ==
  ASSUME NEW b, Sound(b), NEW id \in DOMAIN b.ids, NEW f, f = Find(b, id), NEW px \in ValidPrices
  PROVE  LET slot == b.slab.slots[b.ids[id]]
             there == LevelAt(b.sides[SideOf(slot)], Locate(px)).qty
         IN  /\ Beside(b, f, px)
                  = IF Locate(px) = Locate(AbsPx(slot)) THEN Wrap(there - slot.qty) ELSE there
             /\ Beside(b, f, px) \in Nat
<1> DEFINE slot == b.slab.slots[b.ids[id]]
           there == LevelAt(b.sides[SideOf(slot)], Locate(px)).qty
           g == Orders(b, f.side, px)
           q == LevelQty(g)
           n == f.qty
<1>1. /\ f.side = SideOf(slot) /\ f.px = AbsPx(slot) /\ n = slot.qty
      /\ f.side \in Sides /\ f.px \in Int /\ n \in Lots
      /\ f.pos \in 1 .. Len(Orders(b, f.side, f.px))
      /\ Orders(b, f.side, f.px)[f.pos] = Order(id, n)
  BY LookedUp
<1>2. px \in Int
  BY ValidIsPositive
<1>3. there = q /\ q \in 0 .. MaxQty /\ g \in Seq(OrdersOf(Ids, Lots))
  BY <1>1, <1>2, LevelTotals
<1>4. Locate(px) = Locate(AbsPx(slot)) <=> px = f.px
  BY <1>1, <1>2, LocateApart
<1>5. CASE px = f.px
  <2>1. g[f.pos].qty = n /\ f.pos \in 1 .. Len(g)
    BY <1>1, <1>5 DEF Order
  <2>2. g[f.pos].qty <= LevelQty(g)
    BY <1>3, <2>1, LotsAreNat, LevelQtyIsNat
  <2>3. n <= q
    BY <2>1, <2>2
  <2>4. Beside(b, f, px) = q - n
    BY <1>5 DEF Beside
  <2>5. Wrap(there - slot.qty) = Wrap(q - n)
    BY <1>1, <1>3
  <2>6. n \in Nat
    BY <1>1, LotsAreNat
  <2> HIDE DEF q, n, there, slot, g
  <2>7. q - n \in 0 .. MaxQty
    BY <1>3, <2>3, <2>6, LotsAreNat
  <2>8. Wrap(q - n) = q - n
    BY <2>7, WrapStays
  <2> QED BY <1>4, <1>5, <2>4, <2>5, <2>7, <2>8 DEF there, slot
<1>6. CASE px # f.px
  <2>1. Beside(b, f, px) = q - 0
    BY <1>6 DEF Beside
  <2> HIDE DEF q, n, there, slot, g
  <2>2. Beside(b, f, px) = q /\ q \in Nat
    BY <1>3, <2>1
  <2> QED BY <1>3, <1>4, <1>6, <2>2 DEF there, slot
<1> QED BY <1>5, <1>6

LEMMA ReplaceErrorIs ==
  ASSUME NEW b, Sound(b), NEW old \in DOMAIN b.ids, NEW f, f = Find(b, old), NEW new,
         NEW px \in ValidPrices, NEW qty
  PROVE  ReplaceError(b, old, new, px, qty)
           = IF new \in DOMAIN b.ids THEN DuplicateId(new)
             ELSE IF qty = 0 THEN BadQty
             ELSE IF Beside(b, f, px) + qty > MaxQty THEN BadQty
             ELSE NoError
<1> DEFINE slot == b.slab.slots[b.ids[old]]
           there == LevelAt(b.sides[SideOf(slot)], Locate(px)).qty
           existing == IF Locate(px) = Locate(AbsPx(slot)) THEN Wrap(there - slot.qty) ELSE there
<1>1. existing = Beside(b, f, px)
  BY BesideIs
<1>2. ~(px <= 0)
  BY ValidIsPositive
<1>3. ReplaceError(b, old, new, px, qty)
        = IF old \notin DOMAIN b.ids THEN UnknownId("Replace", old)
          ELSE IF new \in DOMAIN b.ids THEN DuplicateId(new)
          ELSE IF qty = 0 THEN BadQty
          ELSE IF px <= 0 THEN BadPrice
          ELSE IF existing + qty > MaxQty THEN BadQty
          ELSE NoError
  BY DEF ReplaceError
<1> HIDE DEF existing
<1> QED BY <1>1, <1>2, <1>3

\* The book between the two halves of a replace: the add is counted, the old order
\* is gone.
Between(b, old, f, px) ==
  Removal(CountAdd(b, f.side, px), old, f.side, f.px, b.ids[old])

LEMMA ReplaceMoves ==
  ASSUME NEW b, Sound(b), Covered(b), NEW old \in Ids, NEW new \in Ids, NEW px \in Prices,
         NEW qty \in Qtys, ReplaceError(b, old, new, px, qty) = NoError
  PROVE  LET f == Find(b, old)
             c == Between(b, old, f, px)
         IN  /\ old \in DOMAIN b.ids
             /\ Moved(b, c, f.side, f.px, RemoveAt(Orders(b, f.side, f.px), f.pos))
             /\ Moved(c, AfterReplace(b, old, new, px, qty), f.side, px,
                      Append(Orders(c, f.side, px), Order(new, qty)))
             /\ px \in ValidPrices
<1> DEFINE f == Find(b, old)
           a == CountAdd(b, f.side, px)
           c == Between(b, old, f, px)
           r == AfterReplace(b, old, new, px, qty)
           g == Orders(b, f.side, f.px)
<1>1. /\ old \in DOMAIN b.ids /\ new \notin DOMAIN b.ids /\ qty # 0 /\ ~(px <= 0)
  BY ErrorsDiffer DEF ReplaceError
<1>2. px \in ValidPrices /\ px \in Int /\ qty \in Lots /\ qty \in Nat
  BY <1>1, MayRest, ArgumentTypes
<1>3. /\ f.side \in Sides /\ f.px \in ValidPrices /\ f.px \in Int
      /\ f.side = SideOf(b.slab.slots[b.ids[old]]) /\ f.px = AbsPx(b.slab.slots[b.ids[old]])
      /\ f.pos \in 1 .. Len(g) /\ g[f.pos] = Order(old, f.qty) /\ f.qty \in Lots
      /\ b.slab.slots[b.ids[old]].id = old
  BY <1>1, LookedUp
<1>4. ~(Beside(b, f, px) + qty > MaxQty)
  <2>1. ReplaceError(b, old, new, px, qty)
          = IF new \in DOMAIN b.ids THEN DuplicateId(new)
            ELSE IF qty = 0 THEN BadQty
            ELSE IF Beside(b, f, px) + qty > MaxQty THEN BadQty
            ELSE NoError
    BY <1>1, <1>2, ReplaceErrorIs
  <2> HIDE DEF f
  <2> QED BY <1>1, <2>1, ErrorsDiffer
<1>5. /\ Sound(a) /\ a.slab = b.slab /\ a.ids = b.ids
      /\ \A s, p : Orders(a, s, p) = Orders(b, s, p)
  BY <1>2, <1>3, CountSound
<1>6. Covered(a) /\ RoomFor(a, f.side, px)
  BY <1>2, <1>3, CountCovers
<1>7. Find(a, old) = f
  BY <1>5 DEF Find
<1>8. c = Removal(a, old, f.side, f.px, a.ids[old])
  BY <1>5 DEF Between
<1> HIDE DEF a, c
<1>9. /\ Moved(a, c, f.side, f.px, RemoveAt(Orders(a, f.side, f.px), f.pos))
      /\ c.ids = Without(a.ids, old)
      /\ RoomFor(c, f.side, px)
  BY <1>1, <1>2, <1>3, <1>5, <1>6, <1>7, <1>8, RemoveMoves
<1>10. Moved(b, c, f.side, f.px, RemoveAt(g, f.pos))
  BY <1>5, <1>9 DEF Moved
<1>11. r = Insert(c, new, f.side, px, qty)
  <2>1. c = Unlink([a EXCEPT !.ids = Without(@, old)], f.side, Locate(f.px), b.ids[old])
    BY <1>5, <1>8 DEF Removal
  <2> QED BY <1>3, <2>1 DEF AfterReplace, Insert, a
<1>12. LevelQty(Orders(c, f.side, px)) = Beside(b, f, px)
  <2>1. CASE px = f.px
    <3>1. Orders(c, f.side, px) = RemoveAt(g, f.pos)
      BY <1>10, <2>1 DEF Moved
    <3>2. g \in Seq(OrdersOf(Ids, Lots))
      BY <1>3, LevelTotals
    <3>3. LevelQty(RemoveAt(g, f.pos)) = LevelQty(g) - g[f.pos].qty
      BY <1>3, <3>2, LotsAreNat, RemovedFifo
    <3>4. g[f.pos].qty = f.qty
      BY <1>3 DEF Order
    <3>5. Beside(b, f, px) = LevelQty(g) - f.qty
      BY <2>1 DEF Beside
    <3> HIDE DEF f, g
    <3> QED BY <3>1, <3>3, <3>4, <3>5
  <2>2. CASE px # f.px
    <3>1. Orders(c, f.side, px) = Orders(b, f.side, px)
      BY <1>2, <1>3, <1>10, <2>2 DEF Moved
    <3>2. LevelQty(Orders(b, f.side, px)) \in 0 .. MaxQty
      BY <1>2, <1>3, LevelTotals
    <3>3. Beside(b, f, px) = LevelQty(Orders(b, f.side, px)) - 0
      BY <2>2 DEF Beside
    <3> DEFINE q == LevelQty(Orders(b, f.side, px))
    <3>4. q - 0 = q
      <4> HIDE DEF q
      <4> QED BY <3>2 DEF q
    <3> QED BY <3>1, <3>3, <3>4
  <2> QED BY <2>1, <2>2
<1>13. LevelQty(Orders(c, f.side, px)) + qty <= MaxQty
  <2> DEFINE n == Beside(b, f, px)
  <2>1. n \in Nat
    BY <1>1, <1>2, BesideIs
  <2>2. ~(n + qty > MaxQty)
    BY <1>4
  <2> HIDE DEF n
  <2>3. n + qty <= MaxQty
    BY <1>2, <2>1, <2>2, LotsAreNat
  <2> QED BY <1>12, <2>3 DEF n
<1>14. new \notin DOMAIN c.ids
  BY <1>1, <1>5, <1>9 DEF Without
<1>15. Sound(c) /\ Covered(c)
  BY <1>9 DEF Moved
<1> HIDE DEF f, r, g
<1>16. Moved(c, r, f.side, px, Append(Orders(c, f.side, px), Order(new, qty)))
  <2>1. Moved(c, Insert(c, new, f.side, px, qty), f.side, px,
              Append(Orders(c, f.side, px), Order(new, qty)))
    BY <1>2, <1>3, <1>9, <1>13, <1>14, <1>15, InsertMoves
  <2> QED BY <1>11, <2>1
<1> QED BY <1>1, <1>2, <1>10, <1>16 DEF f, r, g, c

-----------------------------------------------------------------------------
(* The links, the levels, the index, the slab, the id map and the counters *)
(* never drift apart.                                                      *)

IInv == Sound(book) /\ Covered(book)

\* A call keeps a book sound when its change does.
LEMMA OutcomeKeeps ==
  ASSUME NEW b, Sound(b), Covered(b), NEW e, NEW after, NEW event,
         e = NoError => Sound(after) /\ Covered(after)
  PROVE  LET r == Outcome(b, e, after, event).book IN Sound(r) /\ Covered(r)
BY OutcomeOf

LEMMA AddedIsSound ==
  ASSUME NEW b, Sound(b), Covered(b), NEW id \in Ids, NEW side \in Sides, NEW px \in Prices,
         NEW qty \in Qtys
  PROVE  LET r == Added(b, AddOp(id, side, px, qty)).book IN Sound(r) /\ Covered(r)
<1> DEFINE e == AddError(b, id, side, px, qty)
           c == AfterAdd(b, id, side, px, qty)
           event == AddEvent(id, side, px, qty)
<1>1. Added(b, AddOp(id, side, px, qty)) = Outcome(b, e, c, event)
  BY DEF Added, AddOp
<1>2. e = NoError => Sound(c) /\ Covered(c)
  BY AddMoves DEF Moved
<1> HIDE DEF e, c, event
<1> QED BY <1>1, <1>2, OutcomeKeeps

\* What a cancel, a delete and an execute that return no error take.
LEMMA TakesWhat ==
  ASSUME NEW b, Sound(b), NEW id \in Ids, NEW qty \in Qtys
  PROVE  LET f == Find(b, id)
             removed == IF qty < f.qty THEN qty ELSE f.qty
         IN  /\ CancelError(b, id, qty) = NoError =>
                  id \in DOMAIN b.ids /\ removed \in 1 .. f.qty /\ removed <= f.qty
             /\ ExecuteError(b, id, qty) = NoError => id \in DOMAIN b.ids /\ qty \in 1 .. f.qty
             /\ DeleteError(b, id) = NoError => id \in DOMAIN b.ids
             /\ id \in DOMAIN b.ids => f.qty \in 1 .. f.qty
<1> DEFINE f == Find(b, id)
           removed == IF qty < f.qty THEN qty ELSE f.qty
<1>1. id \in DOMAIN b.ids => f.qty \in Nat /\ f.qty > 0 /\ f.qty = b.slab.slots[b.ids[id]].qty
  BY LookedUp, LotsAreNat DEF Lots
<1>2. qty \in Nat
  BY ArgumentTypes
<1>3. CancelError(b, id, qty) = NoError => id \in DOMAIN b.ids /\ qty # 0
  BY ErrorsDiffer DEF CancelError
<1>4. ExecuteError(b, id, qty) = NoError =>
        id \in DOMAIN b.ids /\ qty # 0 /\ ~(qty > b.slab.slots[b.ids[id]].qty)
  BY ErrorsDiffer DEF ExecuteError
<1>5. DeleteError(b, id) = NoError => id \in DOMAIN b.ids
  BY ErrorsDiffer DEF DeleteError
<1> HIDE DEF f
<1>6. CancelError(b, id, qty) = NoError =>
        id \in DOMAIN b.ids /\ removed \in 1 .. f.qty /\ removed <= f.qty
  BY <1>1, <1>2, <1>3
<1>7. ExecuteError(b, id, qty) = NoError => id \in DOMAIN b.ids /\ qty \in 1 .. f.qty
  BY <1>1, <1>2, <1>4
<1> QED BY <1>1, <1>5, <1>6, <1>7 DEF f

LEMMA CancelledIsSound ==
  ASSUME NEW b, Sound(b), Covered(b), NEW id \in Ids, NEW qty \in Qtys
  PROVE  LET r == Cancelled(b, CancelOp(id, qty)).book IN Sound(r) /\ Covered(r)
<1> DEFINE at == b.ids[id]
           slot == b.slab.slots[at]
           f == Find(b, id)
           removed == IF qty < slot.qty THEN qty ELSE slot.qty
           e == CancelError(b, id, qty)
           c == Take(b, at, removed)
           event == CancelEvent(id, SideOf(slot), AbsPx(slot), removed, Wrap(slot.qty - removed))
<1>1. Cancelled(b, CancelOp(id, qty)) = Outcome(b, e, c, event)
  BY DEF Cancelled, CancelOp
<1>2. ASSUME e = NoError PROVE Sound(c) /\ Covered(c)
  <2>1. id \in DOMAIN b.ids /\ (IF qty < f.qty THEN qty ELSE f.qty) \in 1 .. f.qty
    BY <1>2, TakesWhat
  <2>2. f.qty = slot.qty
    BY <2>1, LookedUp
  <2>3. removed \in 1 .. f.qty
    BY <2>1, <2>2
  <2> HIDE DEF removed
  <2> QED BY <2>1, <2>3, TakeMoves DEF Moved
<1> HIDE DEF e, c, event
<1> QED BY <1>1, <1>2, OutcomeKeeps

LEMMA DeletedIsSound ==
  ASSUME NEW b, Sound(b), Covered(b), NEW id \in Ids
  PROVE  LET r == Deleted(b, DeleteOp(id)).book IN Sound(r) /\ Covered(r)
<1> DEFINE at == b.ids[id]
           slot == b.slab.slots[at]
           f == Find(b, id)
           e == DeleteError(b, id)
           c == Take(b, at, slot.qty)
           event == DeleteEvent(id, SideOf(slot), AbsPx(slot), slot.qty)
<1>1. Deleted(b, DeleteOp(id)) = Outcome(b, e, c, event)
  BY DEF Deleted, DeleteOp
<1>2. ASSUME e = NoError PROVE Sound(c) /\ Covered(c)
  <2>1. id \in DOMAIN b.ids
    BY <1>2, ErrorsDiffer DEF DeleteError
  <2>2. f.qty = slot.qty /\ f.qty \in Nat /\ f.qty > 0
    BY <2>1, LookedUp, LotsAreNat DEF Lots
  <2>3. slot.qty \in 1 .. f.qty
    <3> HIDE DEF f, slot
    <3> QED BY <2>2
  <2> QED BY <2>1, <2>3, TakeMoves DEF Moved
<1> HIDE DEF e, c, event
<1> QED BY <1>1, <1>2, OutcomeKeeps

LEMMA ExecutedIsSound ==
  ASSUME NEW b, Sound(b), Covered(b), NEW id \in Ids, NEW qty \in Qtys
  PROVE  LET r == Executed(b, ExecuteOp(id, qty)).book IN Sound(r) /\ Covered(r)
<1> DEFINE at == b.ids[id]
           slot == b.slab.slots[at]
           f == Find(b, id)
           e == ExecuteError(b, id, qty)
           c == Take(b, at, qty)
           event == ExecEvent(id, SideOf(slot), AbsPx(slot), qty, Wrap(slot.qty - qty))
<1>1. Executed(b, ExecuteOp(id, qty)) = Outcome(b, e, c, event)
  BY DEF Executed, ExecuteOp
<1>2. ASSUME e = NoError PROVE Sound(c) /\ Covered(c)
  <2>1. id \in DOMAIN b.ids /\ qty \in 1 .. f.qty
    BY <1>2, TakesWhat
  <2> QED BY <2>1, TakeMoves DEF Moved
<1> HIDE DEF e, c, event
<1> QED BY <1>1, <1>2, OutcomeKeeps

LEMMA ReplacedIsSound ==
  ASSUME NEW b, Sound(b), Covered(b), NEW old \in Ids, NEW new \in Ids, NEW px \in Prices,
         NEW qty \in Qtys
  PROVE  LET r == Replaced(b, ReplaceOp(old, new, px, qty)).book IN Sound(r) /\ Covered(r)
<1> DEFINE e == ReplaceError(b, old, new, px, qty)
           c == AfterReplace(b, old, new, px, qty)
           event == ReplaceEvent(old, new, SideOf(b.slab.slots[b.ids[old]]), px, qty)
<1>1. Replaced(b, ReplaceOp(old, new, px, qty)) = Outcome(b, e, c, event)
  BY DEF Replaced, ReplaceOp
<1>2. e = NoError => Sound(c) /\ Covered(c)
  BY ReplaceMoves DEF Moved
<1> HIDE DEF e, c, event
<1> QED BY <1>1, <1>2, OutcomeKeeps

LEMMA EmptyLists ==
  ASSUME NEW s \in Sides, NEW p \in Int
  PROVE  OnLevel(EmptyArrayBook, s, p, <<>>)
<1>1. LevelAt(EmptyArrayBook.sides[s], Locate(p)) = EmptyLevel
  <2>1. EmptyArrayBook.sides[s] = EmptySide
    BY DEF EmptyArrayBook
  <2>2. LevelAt(EmptySide, Locate(p)) = EmptyLevel
    <3>1. CASE \E i \in LevelIndices : Locate(p) = InRange(i)
      BY <3>1 DEF LevelAt, EmptySide, InRange
    <3>2. CASE Locate(p) = Overflow(p)
      BY <3>2 DEF LevelAt, EmptySide, Overflow, EmptyMap
    <3> QED BY <3>1, <3>2, LocateCases
  <2> QED BY <2>1, <2>2
<1> QED BY <1>1, EmptyThread DEF OnLevel

LEMMA EmptyIsSound == Sound(EmptyArrayBook) /\ Covered(EmptyArrayBook)
<1> DEFINE b == EmptyArrayBook
<1>1. /\ b.sides = [s \in Sides |-> EmptySide] /\ b.ids = EmptyMap
      /\ b.slab.slots = EmptyMap /\ b.slab.cap = 0 /\ b.slab.freeHead = Nil /\ b.slab.live = 0
      /\ b = BookOf(b.sides, b.slab.slots, b.slab.cap, b.slab.freeHead, b.slab.live, b.ids)
  BY DEF EmptyArrayBook, EmptySlab, BookOf
<1> HIDE DEF b
<1>2. DOMAIN b.ids = {} /\ DOMAIN b.slab.slots = {} /\ Indices(b.slab) = {}
  BY <1>1 DEF EmptyMap, Indices
<1>3. Shaped(b)
  <2>1. Kept(b.slab.slots, b.ids)
    <3>1. EmptyMap \in [{} -> SlotSet]
      BY DEF EmptyMap
    <3> QED BY <1>1, <1>2, <3>1 DEF Kept, BackIn
  <2>2. DOMAIN b.sides = Sides /\ \A s \in Sides : b.sides[s] = EmptySide
    BY <1>1
  <2>3. Indexed(EmptySide, Lvls, ValidPrices)
    BY EmptyIndexed, LevelsAre
  <2>4. IsFiniteSet(DOMAIN b.ids) /\ b.slab.live = Cardinality(DOMAIN b.ids)
    BY <1>1, <1>2, FS_EmptySet
  <2> QED BY <1>1, <1>2, <2>1, <2>2, <2>3, <2>4 DEF Shaped
<1>4. \A s \in Sides, p \in Int : OnLevel(b, s, p, <<>>)
  BY EmptyLists DEF b
<1>5. Listed(b)
  BY <1>3, <1>4, ListIs DEF Listed
<1>6. Named(b)
  BY <1>2 DEF Named
<1>7. Freed(b.slab.slots, b.ids, b.slab.freeHead, <<>>)
  <2>1. <<>> \in Seq(DOMAIN b.slab.slots) /\ Len(<<>>) = 0
    BY EmptySeq
  <2> QED BY <1>1, <1>2, <2>1 DEF Freed, Distinct, LinkedOn, HeadOf
<1>8. Sound(b)
  BY <1>3, <1>5, <1>6, <1>7 DEF Sound
<1>9. Covered(b)
  <2>1. ASSUME NEW s \in Sides PROVE Cardinality(Outside(b, s)) <= b.sides[s].hits
    <3>1. Outside(b, s) = {}
      BY <1>2 DEF Outside
    <3>2. b.sides[s].hits = 0
      BY <1>1 DEF EmptySide
    <3> QED BY <3>1, <3>2, FS_EmptySet
  <2> QED BY <1>2, <2>1 DEF Covered
<1> QED BY <1>8, <1>9 DEF b

\* The call an action makes, by its kind.
LEMMA CalledKinds ==
  /\ \A b, id, side, px, qty :
       Called(b, AddOp(id, side, px, qty)) = Added(b, AddOp(id, side, px, qty))
  /\ \A b, id, qty : Called(b, CancelOp(id, qty)) = Cancelled(b, CancelOp(id, qty))
  /\ \A b, id : Called(b, DeleteOp(id)) = Deleted(b, DeleteOp(id))
  /\ \A b, id, qty : Called(b, ExecuteOp(id, qty)) = Executed(b, ExecuteOp(id, qty))
  /\ \A b, old, new, px, qty :
       Called(b, ReplaceOp(old, new, px, qty)) = Replaced(b, ReplaceOp(old, new, px, qty))
<1>1. /\ \A id, side, px, qty : AddOp(id, side, px, qty).kind = "Add"
      /\ \A id, qty : CancelOp(id, qty).kind = "Cancel"
      /\ \A id : DeleteOp(id).kind = "Delete"
      /\ \A id, qty : ExecuteOp(id, qty).kind = "Exec"
      /\ \A old, new, px, qty : ReplaceOp(old, new, px, qty).kind = "Replace"
  BY DEF AddOp, CancelOp, DeleteOp, ExecuteOp, ReplaceOp
<1> QED BY <1>1 DEF Called

\* The operation an action records, and the call it makes.
LEMMA DoneIs ==
  ASSUME NEW o, Do(o)
  PROVE  op' = o /\ book' = Called(book, o).book /\ result' = Called(book, o).result
BY DEF Do

LEMMA StepIsSound == IInv /\ [Next]_vars => IInv'
<1> SUFFICES ASSUME IInv, [Next]_vars PROVE IInv'
  OBVIOUS
<1>1. Sound(book) /\ Covered(book)
  BY DEF IInv
<1> DEFINE Good(b) == Sound(b) /\ Covered(b)
<1>2. ASSUME NEW id \in Ids, NEW side \in Sides, NEW px \in Prices, NEW qty \in Qtys,
             Add(id, side, px, qty)
      PROVE  Good(book')
  <2>1. book' = Added(book, AddOp(id, side, px, qty)).book
    BY <1>2, DoneIs, CalledKinds DEF Add
  <2> QED BY <1>1, <2>1, AddedIsSound
<1>3. ASSUME NEW id \in Ids, NEW qty \in Qtys, Cancel(id, qty) PROVE Good(book')
  <2>1. book' = Cancelled(book, CancelOp(id, qty)).book
    BY <1>3, DoneIs, CalledKinds DEF Cancel
  <2> QED BY <1>1, <2>1, CancelledIsSound
<1>4. ASSUME NEW id \in Ids, Delete(id) PROVE Good(book')
  <2>1. book' = Deleted(book, DeleteOp(id)).book
    BY <1>4, DoneIs, CalledKinds DEF Delete
  <2> QED BY <1>1, <2>1, DeletedIsSound
<1>5. ASSUME NEW id \in Ids, NEW qty \in Qtys, Execute(id, qty) PROVE Good(book')
  <2>1. book' = Executed(book, ExecuteOp(id, qty)).book
    BY <1>5, DoneIs, CalledKinds DEF Execute
  <2> QED BY <1>1, <2>1, ExecutedIsSound
<1>6. ASSUME NEW old \in Ids, NEW new \in Ids, NEW px \in Prices, NEW qty \in Qtys,
             Replace(old, new, px, qty)
      PROVE  Good(book')
  <2>1. book' = Replaced(book, ReplaceOp(old, new, px, qty)).book
    BY <1>6, DoneIs, CalledKinds DEF Replace
  <2> QED BY <1>1, <2>1, ReplacedIsSound
<1>7. ASSUME UNCHANGED vars PROVE Good(book')
  BY <1>1, <1>7 DEF vars
<1> HIDE DEF Good
<1>8. Good(book')
  BY <1>2, <1>3, <1>4, <1>5, <1>6, <1>7 DEF Next
<1> QED BY <1>8 DEF IInv, Good

LEMMA InitIsSound == Init => IInv
BY EmptyIsSound DEF Init, IInv

\* However the calls are mixed: every level's list is linked both ways, counted and
\* summed, the bitmap names the levels that have orders, every slot is on the free
\* list or of one live id, and the counters cover what rests.
THEOREM SpecIsSound == Spec => []IInv
<1> QED BY InitIsSound, StepIsSound, PTL DEF Spec

-----------------------------------------------------------------------------
(* The book that is promised.  The vocabulary is the same on both sides.   *)

Q(b) == [s \in Sides |-> [p \in ValidPrices |-> Orders(b, s, p)]]

LEMMA QueueIs == Queue = Q(book) /\ Queue' = Q(book')
BY DEF Queue, Q, Orders, OrdersOn, ListOf, Fifo

LEMMA SameVocabulary ==
  /\ Promise!Sides = Sides /\ Promise!ValidPrices = ValidPrices
  /\ Promise!NoOp = NoOp /\ Promise!NoResult = NoResult
  /\ Promise!NoError = NoError /\ Promise!BadQty = BadQty /\ Promise!BadPrice = BadPrice
  /\ \A kind, id : Promise!UnknownId(kind, id) = UnknownId(kind, id)
  /\ \A id : Promise!DuplicateId(id) = DuplicateId(id)
  /\ \A id, have, want : Promise!OverExecute(id, have, want) = OverExecute(id, have, want)
  /\ \A x : Promise!Ok(x) = Ok(x) /\ Promise!Err(x) = Err(x)
  /\ \A id, qty : Promise!Order(id, qty) = Order(id, qty)
BY DEF Sides, Promise!Sides, ValidPrices, Promise!ValidPrices, NoOp, Promise!NoOp,
       NoResult, Promise!NoResult, NoError, Promise!NoError, BadQty, Promise!BadQty,
       BadPrice, Promise!BadPrice, UnknownId, Promise!UnknownId, DuplicateId,
       Promise!DuplicateId, OverExecute, Promise!OverExecute, Ok, Promise!Ok,
       Err, Promise!Err, Order, Promise!Order

LEMMA SameOps ==
  /\ \A id, side, px, qty : Promise!AddOp(id, side, px, qty) = AddOp(id, side, px, qty)
  /\ \A id, qty : Promise!CancelOp(id, qty) = CancelOp(id, qty)
  /\ \A id : Promise!DeleteOp(id) = DeleteOp(id)
  /\ \A id, qty : Promise!ExecuteOp(id, qty) = ExecuteOp(id, qty)
  /\ \A old, new, px, qty : Promise!ReplaceOp(old, new, px, qty) = ReplaceOp(old, new, px, qty)
BY DEF AddOp, Promise!AddOp, CancelOp, Promise!CancelOp, DeleteOp, Promise!DeleteOp,
       ExecuteOp, Promise!ExecuteOp, ReplaceOp, Promise!ReplaceOp

LEMMA SameEvents ==
  /\ \A id, side, px, qty : Promise!AddEvent(id, side, px, qty) = AddEvent(id, side, px, qty)
  /\ \A id, side, px, x, y : Promise!CancelEvent(id, side, px, x, y) = CancelEvent(id, side, px, x, y)
  /\ \A id, side, px, x : Promise!DeleteEvent(id, side, px, x) = DeleteEvent(id, side, px, x)
  /\ \A id, side, px, x, y : Promise!ExecEvent(id, side, px, x, y) = ExecEvent(id, side, px, x, y)
  /\ \A old, new, side, px, qty :
       Promise!ReplaceEvent(old, new, side, px, qty) = ReplaceEvent(old, new, side, px, qty)
BY DEF AddEvent, Promise!AddEvent, CancelEvent, Promise!CancelEvent, DeleteEvent,
       Promise!DeleteEvent, ExecEvent, Promise!ExecEvent, ReplaceEvent, Promise!ReplaceEvent,
       Event, Promise!Event, SideCode, Promise!SideCode

LEMMA SameFifos ==
  ASSUME NEW f, NEW id
  PROVE  /\ Promise!PosOf(f, id) = PosOf(f, id)
         /\ Promise!LevelQty(f) = LevelQty(f)
         /\ Promise!IdsOf(f) = IdsOf(f)
<1>1. Promise!PosOf(f, id) = PosOf(f, id)
  BY DEF PosOf, Promise!PosOf, SelectInSeq, Promise!SelectInSeq, Min, Promise!Min
<1>2. Promise!LevelQty(f) = LevelQty(f)
  BY DEF LevelQty, Promise!LevelQty, QtyOfFirst, Promise!QtyOfFirst
<1>3. Promise!IdsOf(f) = IdsOf(f)
  BY DEF IdsOf, Promise!IdsOf
<1> QED BY <1>1, <1>2, <1>3

-----------------------------------------------------------------------------
(* Looking up finds the same, and the changes are the same                 *)

LEMMA RestsAt ==
  ASSUME NEW b, Sound(b), NEW s \in Sides, NEW p \in ValidPrices, NEW id
  PROVE  id \in IdsOf(Orders(b, s, p)) <=>
           id \in DOMAIN b.ids /\ Find(b, id).side = s /\ Find(b, id).px = p
<1> DEFINE g == Orders(b, s, p)
           c == ListOf(b, s, p)
<1>1. p \in Int /\ Kept(b.slab.slots, b.ids) /\ g = OrdersOn(b.slab.slots, c)
  BY ValidIsPositive DEF Sound, Shaped, Orders
<1>2. OnLevel(b, s, p, c) /\ Threaded(b.slab.slots, b.ids, s, p, c)
  BY <1>1, LevelTotals DEF OnLevel
<1>3. /\ g \in Seq(OrdersOf(Ids, Lots)) /\ Len(g) = Len(c)
      /\ \A k \in 1 .. Len(c) : g[k] = Order(b.slab.slots[c[k]].id, b.slab.slots[c[k]].qty)
  BY <1>1, <1>2, ThreadFacts
<1> HIDE DEF g, c
<1>4. id \in IdsOf(g) <=> \E k \in 1 .. Len(g) : g[k].id = id
  <2>1. DOMAIN g = 1 .. Len(g)
    BY <1>3
  <2> QED BY <2>1 DEF IdsOf
<1>5. ASSUME NEW k \in 1 .. Len(g), g[k].id = id
      PROVE  id \in DOMAIN b.ids /\ Find(b, id).side = s /\ Find(b, id).px = p
  <2> DEFINE slot == b.slab.slots[c[k]]
  <2>1. k \in 1 .. Len(c) /\ g[k] = Order(slot.id, slot.qty)
    BY <1>3
  <2>2. slot.id = id
    BY <1>5, <2>1 DEF Order
  <2>3. slot.px = SignedPx(s, p) /\ id \in DOMAIN b.ids /\ b.ids[id] = c[k]
    BY <1>2, <2>1, <2>2 DEF Threaded, Rests
  <2>4. SideOf(slot) = s /\ AbsPx(slot) = p
    BY <2>3, SignedBack
  <2>5. Find(b, id).side = SideOf(slot) /\ Find(b, id).px = AbsPx(slot)
    BY <2>3, LookedUp
  <2> QED BY <2>3, <2>4, <2>5
<1>6. ASSUME id \in DOMAIN b.ids, Find(b, id).side = s, Find(b, id).px = p
      PROVE  \E k \in 1 .. Len(g) : g[k].id = id
  <2> DEFINE f == Find(b, id)
  <2>1. /\ f.pos \in 1 .. Len(Orders(b, f.side, f.px))
        /\ Orders(b, f.side, f.px)[f.pos] = Order(id, f.qty)
    BY <1>6, LookedUp
  <2> HIDE DEF f
  <2>2. f.pos \in 1 .. Len(g) /\ g[f.pos] = Order(id, f.qty)
    BY <1>6, <2>1 DEF f, g
  <2>3. g[f.pos].id = id
    BY <2>2 DEF Order
  <2> QED BY <2>2, <2>3
<1> QED BY <1>4, <1>5, <1>6 DEF g

LEMMA SameLive ==
  ASSUME NEW b, Sound(b)
  PROVE  Promise!LiveIds(Q(b)) = DOMAIN b.ids
<1>1. ASSUME NEW id
      PROVE  id \in Promise!LiveIds(Q(b)) <=>
               \E s \in Sides, p \in ValidPrices : id \in IdsOf(Orders(b, s, p))
  BY SameVocabulary, SameFifos DEF Promise!LiveIds, Q
<1>2. ASSUME NEW id \in DOMAIN b.ids
      PROVE  \E s \in Sides, p \in ValidPrices : id \in IdsOf(Orders(b, s, p))
  <2>1. Find(b, id).side \in Sides /\ Find(b, id).px \in ValidPrices
    BY LookedUp
  <2> QED BY <2>1, RestsAt
<1> QED BY <1>1, <1>2, RestsAt

LEMMA SameFind ==
  ASSUME NEW b, Sound(b), NEW id \in DOMAIN b.ids
  PROVE  Promise!Find(Q(b), id) = Find(b, id)
<1> DEFINE f == Find(b, id)
           Here(at) == id \in Promise!IdsOf(Q(b)[at[1]][at[2]])
           at == CHOOSE at \in Promise!Sides \X Promise!ValidPrices : Here(at)
<1>1. /\ f.side \in Sides /\ f.px \in ValidPrices
      /\ f.pos = PosOf(Orders(b, f.side, f.px), id)
      /\ Orders(b, f.side, f.px)[f.pos] = Order(id, f.qty)
      /\ f = [side |-> f.side, px |-> f.px, pos |-> f.pos, qty |-> f.qty]
  BY LookedUp
<1> HIDE DEF f
<1>2. ASSUME NEW s \in Sides, NEW p \in ValidPrices
      PROVE  Here(<<s, p>>) <=> s = f.side /\ p = f.px
  <2>1. Here(<<s, p>>) <=> id \in IdsOf(Orders(b, s, p))
    BY SameFifos DEF Q
  <2>2. id \in IdsOf(Orders(b, s, p)) <=> f.side = s /\ f.px = p
    BY RestsAt DEF f
  <2> HIDE DEF Here
  <2> QED BY <2>1, <2>2
<1> HIDE DEF Here
<1>3. at = <<f.side, f.px>>
  <2>1. Promise!Sides \X Promise!ValidPrices = Sides \X ValidPrices
    BY SameVocabulary
  <2>2. <<f.side, f.px>> \in Sides \X ValidPrices /\ Here(<<f.side, f.px>>)
    BY <1>1, <1>2
  <2>3. at \in Sides \X ValidPrices /\ Here(at)
    BY <2>1, <2>2
  <2> HIDE DEF at
  <2>4. at = <<at[1], at[2]>> /\ at[1] \in Sides /\ at[2] \in ValidPrices
    BY <2>3
  <2>5. at[1] = f.side /\ at[2] = f.px
    BY <1>2, <2>3, <2>4
  <2> QED BY <2>4, <2>5
<1> DEFINE fifo == Q(b)[at[1]][at[2]]
           pos == Promise!PosOf(fifo, id)
<1>4. Promise!Find(Q(b), id) = [side |-> at[1], px |-> at[2], pos |-> pos, qty |-> fifo[pos].qty]
  BY DEF Promise!Find, Here
<1> HIDE DEF at
<1>5. fifo = Orders(b, f.side, f.px) /\ at[1] = f.side /\ at[2] = f.px
  BY <1>1, <1>3 DEF Q
<1> HIDE DEF fifo
<1>6. pos = f.pos
  BY <1>1, <1>5, SameFifos
<1> HIDE DEF pos
<1>7. fifo[pos].qty = f.qty
  BY <1>1, <1>5, <1>6 DEF Order
<1> QED BY <1>1, <1>4, <1>5, <1>6, <1>7 DEF f

\* A book that moved in the orders of one level.
Changed(q, side, px, h) == [q EXCEPT ![side][px] = h]

LEMMA SameChange ==
  ASSUME NEW b, NEW r, NEW side \in Sides, NEW px \in ValidPrices, NEW h,
         Moved(b, r, side, px, h)
  PROVE  Changed(Q(b), side, px, h) = Q(r)
<1>1. ASSUME NEW s \in Sides, NEW p \in ValidPrices
      PROVE  Orders(r, s, p) = IF s = side /\ p = px THEN h ELSE Orders(b, s, p)
  BY ValidIsPositive DEF Moved
<1> QED BY <1>1 DEF Q, Changed

LEMMA SamePush ==
  ASSUME NEW b, NEW r, NEW id, NEW side \in Sides, NEW px \in ValidPrices, NEW qty,
         Moved(b, r, side, px, Append(Orders(b, side, px), Order(id, qty)))
  PROVE  Promise!PushTail(Q(b), side, px, Order(id, qty)) = Q(r)
<1> DEFINE h == Append(Orders(b, side, px), Order(id, qty))
<1>1. Promise!PushTail(Q(b), side, px, Order(id, qty)) = Changed(Q(b), side, px, h)
  BY DEF Promise!PushTail, Q, Changed
<1> HIDE DEF h
<1>2. Changed(Q(b), side, px, h) = Q(r)
  BY SameChange DEF h
<1> QED BY <1>1, <1>2

LEMMA SameTake ==
  ASSUME NEW b, NEW r, NEW f, f.side \in Sides, f.px \in ValidPrices, NEW by,
         Moved(b, r, f.side, f.px, Left(Orders(b, f.side, f.px), f, by))
  PROVE  Promise!TakeFrom(Q(b), f, by) = Q(r)
<1> DEFINE h == Left(Orders(b, f.side, f.px), f, by)
<1>1. Promise!TakeFrom(Q(b), f, by) = Changed(Q(b), f.side, f.px, h)
  BY DEF Changed, Promise!TakeFrom, Q, Left, Reduced, RemoveAt, Promise!RemoveAt
<1> HIDE DEF h
<1>2. Changed(Q(b), f.side, f.px, h) = Q(r)
  BY SameChange DEF h
<1> QED BY <1>1, <1>2

-----------------------------------------------------------------------------
(* The first error of each call is the promised one.                       *)

LEMMA SameAddError ==
  ASSUME NEW b, Sound(b), NEW id, NEW side \in Sides, NEW px \in Prices, NEW qty \in Qtys
  PROVE  Promise!AddError(Q(b), id, side, px, qty) = AddError(b, id, side, px, qty)
<1>1. CASE qty = 0 \/ px <= 0
  BY <1>1, SameVocabulary DEF AddError, Promise!AddError
<1>2. CASE ~(qty = 0) /\ ~(px <= 0)
  <2>1. px \in ValidPrices /\ px \in Int
    BY <1>2, MayRest, ArgumentTypes
  <2>2. Promise!LevelQty(Q(b)[side][px]) = LevelQty(Orders(b, side, px))
    BY <2>1, SameFifos DEF Q
  <2>3. LevelAt(b.sides[side], Locate(px)).qty = LevelQty(Orders(b, side, px))
    BY <2>1, LevelTotals
  <2>4. id \in Promise!LiveIds(Q(b)) <=> id \in DOMAIN b.ids
    BY SameLive
  <2>5. AddError(b, id, side, px, qty) =
          IF LevelAt(b.sides[side], Locate(px)).qty + qty > MaxQty THEN BadQty
          ELSE IF id \in DOMAIN b.ids THEN DuplicateId(id) ELSE NoError
    BY <1>2 DEF AddError
  <2>6. Promise!AddError(Q(b), id, side, px, qty) =
          IF Promise!LevelQty(Q(b)[side][px]) + qty > MaxQty THEN BadQty
          ELSE IF id \in Promise!LiveIds(Q(b)) THEN DuplicateId(id) ELSE NoError
    BY <1>2, SameVocabulary DEF Promise!AddError
  <2> QED BY <2>2, <2>3, <2>4, <2>5, <2>6
<1> QED BY <1>1, <1>2

LEMMA SameCancelError ==
  ASSUME NEW b, Sound(b), NEW id, NEW qty
  PROVE  Promise!CancelError(Q(b), id, qty) = CancelError(b, id, qty)
BY SameLive, SameVocabulary DEF CancelError, Promise!CancelError

LEMMA SameDeleteError ==
  ASSUME NEW b, Sound(b), NEW id
  PROVE  Promise!DeleteError(Q(b), id) = DeleteError(b, id)
BY SameLive, SameVocabulary DEF DeleteError, Promise!DeleteError

LEMMA SameExecuteError ==
  ASSUME NEW b, Sound(b), NEW id, NEW qty
  PROVE  Promise!ExecuteError(Q(b), id, qty) = ExecuteError(b, id, qty)
<1>1. id \in Promise!LiveIds(Q(b)) <=> id \in DOMAIN b.ids
  BY SameLive
<1>2. CASE id \notin DOMAIN b.ids
  BY <1>1, <1>2, SameVocabulary DEF ExecuteError, Promise!ExecuteError
<1>3. CASE id \in DOMAIN b.ids
  <2>1. Promise!Find(Q(b), id).qty = b.slab.slots[b.ids[id]].qty
    BY <1>3, SameFind, LookedUp
  <2> QED BY <1>1, <1>3, <2>1, SameVocabulary DEF ExecuteError, Promise!ExecuteError
<1> QED BY <1>2, <1>3

LEMMA SameReplaceError ==
  ASSUME NEW b, Sound(b), NEW old, NEW new, NEW px \in Prices, NEW qty
  PROVE  Promise!ReplaceError(Q(b), old, new, px, qty) = ReplaceError(b, old, new, px, qty)
<1>1. /\ old \in Promise!LiveIds(Q(b)) <=> old \in DOMAIN b.ids
      /\ new \in Promise!LiveIds(Q(b)) <=> new \in DOMAIN b.ids
  BY SameLive
<1>2. CASE old \notin DOMAIN b.ids \/ new \in DOMAIN b.ids \/ qty = 0 \/ px <= 0
  BY <1>1, <1>2, SameVocabulary DEF ReplaceError, Promise!ReplaceError
<1>3. CASE old \in DOMAIN b.ids /\ new \notin DOMAIN b.ids /\ ~(qty = 0) /\ ~(px <= 0)
  <2> DEFINE f == Find(b, old)
             minus == IF px = f.px THEN f.qty ELSE 0
  <2>1. px \in ValidPrices
    BY <1>3, MayRest
  <2>2. Promise!Find(Q(b), old) = f /\ f.side \in Sides
    BY <1>3, SameFind, LookedUp
  <2>3. Promise!LevelQty(Q(b)[f.side][px]) = LevelQty(Orders(b, f.side, px))
    BY <2>1, <2>2, SameFifos DEF Q
  <2>4. ReplaceError(b, old, new, px, qty) =
          IF Beside(b, f, px) + qty > MaxQty THEN BadQty ELSE NoError
    <3>1. old \in DOMAIN b.ids /\ f = Find(b, old)
      BY <1>3
    <3> HIDE DEF f
    <3>2. ReplaceError(b, old, new, px, qty)
            = IF new \in DOMAIN b.ids THEN DuplicateId(new)
              ELSE IF qty = 0 THEN BadQty
              ELSE IF Beside(b, f, px) + qty > MaxQty THEN BadQty
              ELSE NoError
      BY <2>1, <3>1, ReplaceErrorIs
    <3> QED BY <1>3, <3>2
  <2>5. Promise!ReplaceError(Q(b), old, new, px, qty) =
          IF Promise!LevelQty(Q(b)[f.side][px]) - minus + qty > MaxQty THEN BadQty ELSE NoError
    BY <1>1, <1>3, <2>2, SameVocabulary DEF Promise!ReplaceError
  <2>6. Beside(b, f, px) = LevelQty(Orders(b, f.side, px)) - minus
    BY DEF Beside
  <2> HIDE DEF f, minus
  <2> QED BY <2>3, <2>4, <2>5, <2>6
<1> QED BY <1>2, <1>3

-----------------------------------------------------------------------------
(* Call by call, the array book gives what is promised: the orders after   *)
(* it, and the result.                                                     *)

\* The book and the result that are promised of each call.
PromisedAdd(q, id, side, px, qty) ==
  Promise!Outcome(q, Promise!AddError(q, id, side, px, qty),
                  Promise!PushTail(q, side, px, Promise!Order(id, qty)),
                  Promise!AddEvent(id, side, px, qty))

PromisedCancel(q, id, qty) ==
  LET f == Promise!Find(q, id)
      removed == IF qty < f.qty THEN qty ELSE f.qty
  IN  Promise!Outcome(q, Promise!CancelError(q, id, qty),
                      Promise!TakeFrom(q, f, removed),
                      Promise!CancelEvent(id, f.side, f.px, removed, f.qty - removed))

PromisedDelete(q, id) ==
  LET f == Promise!Find(q, id)
  IN  Promise!Outcome(q, Promise!DeleteError(q, id),
                      Promise!TakeFrom(q, f, f.qty),
                      Promise!DeleteEvent(id, f.side, f.px, f.qty))

PromisedExecute(q, id, qty) ==
  LET f == Promise!Find(q, id)
  IN  Promise!Outcome(q, Promise!ExecuteError(q, id, qty),
                      Promise!TakeFrom(q, f, qty),
                      Promise!ExecEvent(id, f.side, f.px, qty, f.qty - qty))

PromisedReplace(q, old, new, px, qty) ==
  LET f == Promise!Find(q, old)
      without == Promise!TakeFrom(q, f, f.qty)
  IN  Promise!Outcome(q, Promise!ReplaceError(q, old, new, px, qty),
                      Promise!PushTail(without, f.side, px, Promise!Order(new, qty)),
                      Promise!ReplaceEvent(old, new, f.side, px, qty))

Promised(q, o) ==
  CASE o.kind = "Add"     -> PromisedAdd(q, o.id, o.side, o.px, o.qty)
    [] o.kind = "Cancel"  -> PromisedCancel(q, o.id, o.qty)
    [] o.kind = "Delete"  -> PromisedDelete(q, o.id)
    [] o.kind = "Exec"    -> PromisedExecute(q, o.id, o.qty)
    [] o.kind = "Replace" -> PromisedReplace(q, o.id, o.new, o.px, o.qty)

\* What a call leaves and returns is what is promised.
Gives(r, p) == Q(r.book) = p.book /\ r.result = p.result

\* A call whose error is the promised one, and whose change and event are too.
LEMMA OutcomeGives ==
  ASSUME NEW b, NEW e, NEW c, NEW event, NEW pe, NEW after, NEW pevent, pe = e,
         e = NoError => after = Q(c) /\ pevent = event
  PROVE  Gives(Outcome(b, e, c, event), Promise!Outcome(Q(b), pe, after, pevent))
<1>1. CASE e = NoError
  <2>1. Promise!Outcome(Q(b), pe, after, pevent) = [book |-> after, result |-> Ok(pevent)]
    BY <1>1, SameVocabulary DEF Promise!Outcome
  <2> QED BY <1>1, <2>1, OutcomeOf DEF Gives
<1>2. CASE e # NoError
  <2>1. Promise!Outcome(Q(b), pe, after, pevent) = [book |-> Q(b), result |-> Err(e)]
    BY <1>2, SameVocabulary DEF Promise!Outcome
  <2> QED BY <1>2, <2>1, OutcomeOf DEF Gives
<1> QED BY <1>1, <1>2

LEMMA AddGives ==
  ASSUME NEW b, Sound(b), Covered(b), NEW id \in Ids, NEW side \in Sides,
         NEW px \in Prices, NEW qty \in Qtys
  PROVE  Gives(Added(b, AddOp(id, side, px, qty)), PromisedAdd(Q(b), id, side, px, qty))
<1> DEFINE e == AddError(b, id, side, px, qty)
           c == AfterAdd(b, id, side, px, qty)
           event == AddEvent(id, side, px, qty)
           pe == Promise!AddError(Q(b), id, side, px, qty)
           after == Promise!PushTail(Q(b), side, px, Promise!Order(id, qty))
           pevent == Promise!AddEvent(id, side, px, qty)
<1>1. Added(b, AddOp(id, side, px, qty)) = Outcome(b, e, c, event)
  BY DEF Added, AddOp
<1>2. pe = e
  BY SameAddError
<1>3. ASSUME e = NoError PROVE after = Q(c) /\ pevent = event
  <2>1. px \in ValidPrices
    BY <1>3, AddMay
  <2>2. Moved(b, c, side, px, Append(Orders(b, side, px), Order(id, qty)))
    BY <1>3, AddMoves
  <2> HIDE DEF c
  <2>3. Promise!PushTail(Q(b), side, px, Order(id, qty)) = Q(c)
    BY <2>1, <2>2, SamePush
  <2> QED BY <2>3, SameEvents, SameVocabulary
<1> HIDE DEF e, c, event
<1>4. PromisedAdd(Q(b), id, side, px, qty) = Promise!Outcome(Q(b), pe, after, pevent)
  BY DEF PromisedAdd
<1> HIDE DEF pe, after, pevent
<1> QED BY <1>1, <1>2, <1>3, <1>4, OutcomeGives

LEMMA CancelGives ==
  ASSUME NEW b, Sound(b), Covered(b), NEW id \in Ids, NEW qty \in Qtys
  PROVE  Gives(Cancelled(b, CancelOp(id, qty)), PromisedCancel(Q(b), id, qty))
<1> DEFINE at == b.ids[id]
           slot == b.slab.slots[at]
           removed == IF qty < slot.qty THEN qty ELSE slot.qty
           e == CancelError(b, id, qty)
           c == Take(b, at, removed)
           event == CancelEvent(id, SideOf(slot), AbsPx(slot), removed, Wrap(slot.qty - removed))
           f == Find(b, id)
           pf == Promise!Find(Q(b), id)
           premoved == IF qty < pf.qty THEN qty ELSE pf.qty
           pe == Promise!CancelError(Q(b), id, qty)
           after == Promise!TakeFrom(Q(b), pf, premoved)
           pevent == Promise!CancelEvent(id, pf.side, pf.px, premoved, pf.qty - premoved)
<1>1. Cancelled(b, CancelOp(id, qty)) = Outcome(b, e, c, event)
  BY DEF Cancelled, CancelOp
<1>2. pe = e
  BY SameCancelError
<1>3. ASSUME e = NoError PROVE after = Q(c) /\ pevent = event
  <2>1. id \in DOMAIN b.ids /\ (IF qty < f.qty THEN qty ELSE f.qty) \in 1 .. f.qty
    BY <1>3, TakesWhat
  <2>2. /\ pf = f /\ f.side = SideOf(slot) /\ f.px = AbsPx(slot) /\ f.qty = slot.qty
        /\ f.side \in Sides /\ f.px \in ValidPrices /\ f.qty \in Lots
    BY <2>1, SameFind, LookedUp
  <2>3. removed \in 1 .. f.qty /\ premoved = removed
    BY <2>1, <2>2
  <2> HIDE DEF removed, premoved, f, pf, slot
  <2>4. Moved(b, c, f.side, f.px, Left(Orders(b, f.side, f.px), f, removed))
    BY <2>1, <2>3, TakeMoves DEF f
  <2>5. Promise!TakeFrom(Q(b), f, removed) = Q(c)
    <3> HIDE DEF c
    <3> QED BY <2>2, <2>4, SameTake
  <2>6. Wrap(slot.qty - removed) = f.qty - removed
    <3>1. f.qty - removed \in 0 .. MaxQty
      BY <2>2, <2>3, LotsAreNat DEF Lots
    <3> QED BY <2>2, <3>1, WrapStays
  <2> QED BY <2>2, <2>3, <2>5, <2>6, SameEvents
<1> HIDE DEF e, c, event
<1>4. PromisedCancel(Q(b), id, qty) = Promise!Outcome(Q(b), pe, after, pevent)
  BY DEF PromisedCancel
<1> HIDE DEF pe, after, pevent
<1> QED BY <1>1, <1>2, <1>3, <1>4, OutcomeGives

LEMMA DeleteGives ==
  ASSUME NEW b, Sound(b), Covered(b), NEW id \in Ids
  PROVE  Gives(Deleted(b, DeleteOp(id)), PromisedDelete(Q(b), id))
<1> DEFINE at == b.ids[id]
           slot == b.slab.slots[at]
           e == DeleteError(b, id)
           c == Take(b, at, slot.qty)
           event == DeleteEvent(id, SideOf(slot), AbsPx(slot), slot.qty)
           f == Find(b, id)
           pf == Promise!Find(Q(b), id)
           pe == Promise!DeleteError(Q(b), id)
           after == Promise!TakeFrom(Q(b), pf, pf.qty)
           pevent == Promise!DeleteEvent(id, pf.side, pf.px, pf.qty)
<1>1. Deleted(b, DeleteOp(id)) = Outcome(b, e, c, event)
  BY DEF Deleted, DeleteOp
<1>2. pe = e
  BY SameDeleteError
<1>3. ASSUME e = NoError PROVE after = Q(c) /\ pevent = event
  <2>1. id \in DOMAIN b.ids
    BY <1>3, ErrorsDiffer DEF DeleteError
  <2>2. /\ pf = f /\ f.side = SideOf(slot) /\ f.px = AbsPx(slot) /\ f.qty = slot.qty
        /\ f.side \in Sides /\ f.px \in ValidPrices /\ f.qty \in Lots
    BY <2>1, SameFind, LookedUp
  <2> HIDE DEF f, pf, slot
  <2>3. slot.qty \in 1 .. f.qty
    BY <2>2, LotsAreNat DEF Lots
  <2>4. Moved(b, c, f.side, f.px, Left(Orders(b, f.side, f.px), f, slot.qty))
    BY <2>1, <2>3, TakeMoves DEF f
  <2>5. Promise!TakeFrom(Q(b), f, slot.qty) = Q(c)
    <3> HIDE DEF c
    <3> QED BY <2>2, <2>4, SameTake
  <2> QED BY <2>2, <2>5, SameEvents
<1> HIDE DEF e, c, event
<1>4. PromisedDelete(Q(b), id) = Promise!Outcome(Q(b), pe, after, pevent)
  BY DEF PromisedDelete
<1> HIDE DEF pe, after, pevent
<1> QED BY <1>1, <1>2, <1>3, <1>4, OutcomeGives

LEMMA ExecuteGives ==
  ASSUME NEW b, Sound(b), Covered(b), NEW id \in Ids, NEW qty \in Qtys
  PROVE  Gives(Executed(b, ExecuteOp(id, qty)), PromisedExecute(Q(b), id, qty))
<1> DEFINE at == b.ids[id]
           slot == b.slab.slots[at]
           e == ExecuteError(b, id, qty)
           c == Take(b, at, qty)
           event == ExecEvent(id, SideOf(slot), AbsPx(slot), qty, Wrap(slot.qty - qty))
           f == Find(b, id)
           pf == Promise!Find(Q(b), id)
           pe == Promise!ExecuteError(Q(b), id, qty)
           after == Promise!TakeFrom(Q(b), pf, qty)
           pevent == Promise!ExecEvent(id, pf.side, pf.px, qty, pf.qty - qty)
<1>1. Executed(b, ExecuteOp(id, qty)) = Outcome(b, e, c, event)
  BY DEF Executed, ExecuteOp
<1>2. pe = e
  BY SameExecuteError
<1>3. ASSUME e = NoError PROVE after = Q(c) /\ pevent = event
  <2>1. id \in DOMAIN b.ids /\ qty \in 1 .. f.qty
    BY <1>3, TakesWhat
  <2>2. /\ pf = f /\ f.side = SideOf(slot) /\ f.px = AbsPx(slot) /\ f.qty = slot.qty
        /\ f.side \in Sides /\ f.px \in ValidPrices /\ f.qty \in Lots
    BY <2>1, SameFind, LookedUp
  <2> HIDE DEF f, pf, slot
  <2>4. Moved(b, c, f.side, f.px, Left(Orders(b, f.side, f.px), f, qty))
    BY <2>1, TakeMoves DEF f
  <2>5. Promise!TakeFrom(Q(b), f, qty) = Q(c)
    <3> HIDE DEF c
    <3> QED BY <2>2, <2>4, SameTake
  <2>6. Wrap(slot.qty - qty) = f.qty - qty
    <3>1. f.qty - qty \in 0 .. MaxQty
      BY <2>1, <2>2, LotsAreNat DEF Lots
    <3> QED BY <2>2, <3>1, WrapStays
  <2> QED BY <2>2, <2>5, <2>6, SameEvents
<1> HIDE DEF e, c, event
<1>4. PromisedExecute(Q(b), id, qty) = Promise!Outcome(Q(b), pe, after, pevent)
  BY DEF PromisedExecute
<1> HIDE DEF pe, after, pevent
<1> QED BY <1>1, <1>2, <1>3, <1>4, OutcomeGives

LEMMA ReplaceGives ==
  ASSUME NEW b, Sound(b), Covered(b), NEW old \in Ids, NEW new \in Ids,
         NEW px \in Prices, NEW qty \in Qtys
  PROVE  Gives(Replaced(b, ReplaceOp(old, new, px, qty)), PromisedReplace(Q(b), old, new, px, qty))
<1> DEFINE slot == b.slab.slots[b.ids[old]]
           e == ReplaceError(b, old, new, px, qty)
           c == AfterReplace(b, old, new, px, qty)
           event == ReplaceEvent(old, new, SideOf(slot), px, qty)
           f == Find(b, old)
           mid == Between(b, old, f, px)
           pf == Promise!Find(Q(b), old)
           pe == Promise!ReplaceError(Q(b), old, new, px, qty)
           pmid == Promise!TakeFrom(Q(b), pf, pf.qty)
           after == Promise!PushTail(pmid, pf.side, px, Promise!Order(new, qty))
           pevent == Promise!ReplaceEvent(old, new, pf.side, px, qty)
<1>1. Replaced(b, ReplaceOp(old, new, px, qty)) = Outcome(b, e, c, event)
  BY DEF Replaced, ReplaceOp
<1>2. pe = e
  BY SameReplaceError
<1>3. ASSUME e = NoError PROVE after = Q(c) /\ pevent = event
  <2>1. /\ old \in DOMAIN b.ids
        /\ Moved(b, mid, f.side, f.px, RemoveAt(Orders(b, f.side, f.px), f.pos))
        /\ Moved(mid, c, f.side, px, Append(Orders(mid, f.side, px), Order(new, qty)))
        /\ px \in ValidPrices
    BY <1>3, ReplaceMoves
  <2>2. /\ pf = f /\ f.side = SideOf(slot) /\ f.side \in Sides /\ f.px \in ValidPrices
    BY <2>1, SameFind, LookedUp
  <2> HIDE DEF f, pf, slot, mid, c
  <2>3. Promise!TakeFrom(Q(b), f, f.qty) = Q(mid)
    <3>1. Moved(b, mid, f.side, f.px, Left(Orders(b, f.side, f.px), f, f.qty))
      BY <2>1 DEF Left
    <3> QED BY <2>2, <3>1, SameTake
  <2>4. Promise!PushTail(Q(mid), f.side, px, Order(new, qty)) = Q(c)
    BY <2>1, <2>2, SamePush
  <2> QED BY <2>2, <2>3, <2>4, SameEvents, SameVocabulary
<1> HIDE DEF e, c, event
<1>4. PromisedReplace(Q(b), old, new, px, qty) = Promise!Outcome(Q(b), pe, after, pevent)
  BY DEF PromisedReplace
<1> HIDE DEF pe, after, pevent
<1> QED BY <1>1, <1>2, <1>3, <1>4, OutcomeGives

\* Every call keeps the book sound and gives what is promised.
LEMMA CalledGives ==
  ASSUME NEW b, Sound(b), Covered(b), NEW o \in Ops
  PROVE  LET r == Called(b, o)
         IN  Sound(r.book) /\ Covered(r.book) /\ Gives(r, Promised(Q(b), o))
<1> DEFINE Good(r, p) == Sound(r.book) /\ Covered(r.book) /\ Gives(r, p)
<1>1. ASSUME NEW id \in Ids, NEW side \in Sides, NEW px \in Prices, NEW qty \in Qtys,
             o = AddOp(id, side, px, qty)
      PROVE  Good(Called(b, o), Promised(Q(b), o))
  <2>1. o.kind = "Add" /\ o.id = id /\ o.side = side /\ o.px = px /\ o.qty = qty
    BY <1>1 DEF AddOp
  <2>2. Called(b, o) = Added(b, AddOp(id, side, px, qty))
    BY <1>1, CalledKinds
  <2>3. Promised(Q(b), o) = PromisedAdd(Q(b), id, side, px, qty)
    BY <2>1 DEF Promised
  <2> QED BY <2>2, <2>3, AddedIsSound, AddGives
<1>2. ASSUME NEW id \in Ids, NEW qty \in Qtys,
             o = CancelOp(id, qty)
      PROVE  Good(Called(b, o), Promised(Q(b), o))
  <2>1. o.kind = "Cancel" /\ o.id = id /\ o.qty = qty
    BY <1>2 DEF CancelOp
  <2>2. Called(b, o) = Cancelled(b, CancelOp(id, qty))
    BY <1>2, CalledKinds
  <2>3. Promised(Q(b), o) = PromisedCancel(Q(b), id, qty)
    BY <2>1 DEF Promised
  <2> QED BY <2>2, <2>3, CancelledIsSound, CancelGives
<1>3. ASSUME NEW id \in Ids,
             o = DeleteOp(id)
      PROVE  Good(Called(b, o), Promised(Q(b), o))
  <2>1. o.kind = "Delete" /\ o.id = id
    BY <1>3 DEF DeleteOp
  <2>2. Called(b, o) = Deleted(b, DeleteOp(id))
    BY <1>3, CalledKinds
  <2>3. Promised(Q(b), o) = PromisedDelete(Q(b), id)
    BY <2>1 DEF Promised
  <2> QED BY <2>2, <2>3, DeletedIsSound, DeleteGives
<1>4. ASSUME NEW id \in Ids, NEW qty \in Qtys,
             o = ExecuteOp(id, qty)
      PROVE  Good(Called(b, o), Promised(Q(b), o))
  <2>1. o.kind = "Exec" /\ o.id = id /\ o.qty = qty
    BY <1>4 DEF ExecuteOp
  <2>2. Called(b, o) = Executed(b, ExecuteOp(id, qty))
    BY <1>4, CalledKinds
  <2>3. Promised(Q(b), o) = PromisedExecute(Q(b), id, qty)
    BY <2>1 DEF Promised
  <2> QED BY <2>2, <2>3, ExecutedIsSound, ExecuteGives
<1>5. ASSUME NEW old \in Ids, NEW new \in Ids, NEW px \in Prices, NEW qty \in Qtys,
             o = ReplaceOp(old, new, px, qty)
      PROVE  Good(Called(b, o), Promised(Q(b), o))
  <2>1. o.kind = "Replace" /\ o.id = old /\ o.new = new /\ o.px = px /\ o.qty = qty
    BY <1>5 DEF ReplaceOp
  <2>2. Called(b, o) = Replaced(b, ReplaceOp(old, new, px, qty))
    BY <1>5, CalledKinds
  <2>3. Promised(Q(b), o) = PromisedReplace(Q(b), old, new, px, qty)
    BY <2>1 DEF Promised
  <2> QED BY <2>2, <2>3, ReplacedIsSound, ReplaceGives
<1> HIDE DEF Good
<1>6. Good(Called(b, o), Promised(Q(b), o))
  BY <1>1, <1>2, <1>3, <1>4, <1>5 DEF Ops
<1> QED BY <1>6 DEF Good

\* A step that does so is the promised one.
LEMMA AnswersAs ==
  ASSUME NEW r, NEW e, NEW after, NEW event, book' = r.book, result' = r.result,
         Gives(r, Promise!Outcome(Q(book), e, after, event))
  PROVE  Promise!Answer(e, after, event)
<1>1. Queue' = Q(r.book) /\ Queue = Q(book)
  BY QueueIs
<1> QED BY <1>1 DEF Gives, Promise!Outcome, Promise!Answer

LEMMA AddKeeps ==
  ASSUME IInv, NEW id \in Ids, NEW side \in Sides, NEW px \in Prices, NEW qty \in Qtys,
         Add(id, side, px, qty)
  PROVE  Promise!Add(id, side, px, qty)
<1> DEFINE r == Added(book, AddOp(id, side, px, qty))
<1>1. Gives(r, PromisedAdd(Q(book), id, side, px, qty))
  BY AddGives DEF IInv
<1>2. op' = Promise!AddOp(id, side, px, qty) /\ book' = r.book /\ result' = r.result
  BY DoneIs, CalledKinds, SameOps DEF Add
<1> HIDE DEF r
<1> QED BY <1>1, <1>2, AnswersAs, QueueIs DEF Promise!Add, PromisedAdd

LEMMA CancelKeeps ==
  ASSUME IInv, NEW id \in Ids, NEW qty \in Qtys, Cancel(id, qty)
  PROVE  Promise!Cancel(id, qty)
<1> DEFINE r == Cancelled(book, CancelOp(id, qty))
<1>1. Gives(r, PromisedCancel(Q(book), id, qty))
  BY CancelGives DEF IInv
<1>2. op' = Promise!CancelOp(id, qty) /\ book' = r.book /\ result' = r.result
  BY DoneIs, CalledKinds, SameOps DEF Cancel
<1> HIDE DEF r
<1> QED BY <1>1, <1>2, AnswersAs, QueueIs DEF Promise!Cancel, PromisedCancel

LEMMA DeleteKeeps ==
  ASSUME IInv, NEW id \in Ids, Delete(id)
  PROVE  Promise!Delete(id)
<1> DEFINE r == Deleted(book, DeleteOp(id))
<1>1. Gives(r, PromisedDelete(Q(book), id))
  BY DeleteGives DEF IInv
<1>2. op' = Promise!DeleteOp(id) /\ book' = r.book /\ result' = r.result
  BY DoneIs, CalledKinds, SameOps DEF Delete
<1> HIDE DEF r
<1> QED BY <1>1, <1>2, AnswersAs, QueueIs DEF Promise!Delete, PromisedDelete

LEMMA ExecuteKeeps ==
  ASSUME IInv, NEW id \in Ids, NEW qty \in Qtys, Execute(id, qty)
  PROVE  Promise!Execute(id, qty)
<1> DEFINE r == Executed(book, ExecuteOp(id, qty))
<1>1. Gives(r, PromisedExecute(Q(book), id, qty))
  BY ExecuteGives DEF IInv
<1>2. op' = Promise!ExecuteOp(id, qty) /\ book' = r.book /\ result' = r.result
  BY DoneIs, CalledKinds, SameOps DEF Execute
<1> HIDE DEF r
<1> QED BY <1>1, <1>2, AnswersAs, QueueIs DEF Promise!Execute, PromisedExecute

LEMMA ReplaceKeeps ==
  ASSUME IInv, NEW old \in Ids, NEW new \in Ids, NEW px \in Prices, NEW qty \in Qtys,
         Replace(old, new, px, qty)
  PROVE  Promise!Replace(old, new, px, qty)
<1> DEFINE r == Replaced(book, ReplaceOp(old, new, px, qty))
<1>1. Gives(r, PromisedReplace(Q(book), old, new, px, qty))
  BY ReplaceGives DEF IInv
<1>2. op' = Promise!ReplaceOp(old, new, px, qty) /\ book' = r.book /\ result' = r.result
  BY DoneIs, CalledKinds, SameOps DEF Replace
<1> HIDE DEF r
<1> QED BY <1>1, <1>2, AnswersAs, QueueIs DEF Promise!Replace, PromisedReplace

-----------------------------------------------------------------------------
(* The array book implements the book of the trait.                        *)

LEMMA EmptyIsPromised == Q(EmptyArrayBook) = Promise!EmptyBook
<1> DEFINE b == EmptyArrayBook
<1>1. ASSUME NEW s \in Sides, NEW p \in ValidPrices PROVE Orders(b, s, p) = <<>>
  <2>1. p \in Int /\ OnLevel(b, s, p, <<>>)
    BY ValidIsPositive, EmptyLists
  <2>2. Shaped(b)
    BY EmptyIsSound DEF Sound
  <2>3. ListOf(b, s, p) = <<>>
    BY <2>1, <2>2, ListIs
  <2> QED BY <2>3 DEF Orders, OrdersOn
<1> HIDE DEF b
<1>2. Q(b) = Promise!EmptyBook
  BY <1>1, SameVocabulary DEF Q, Promise!EmptyBook
<1> QED BY <1>2 DEF b

LEMMA InitKeepsPromise == Init => Promise!Init
BY EmptyIsPromised, QueueIs, SameVocabulary DEF Init, Promise!Init

\* The promised call is one a caller may make.
LEMMA PromisedCalls ==
  /\ \A id \in Ids, side \in Sides, px \in Prices, qty \in Qtys :
       Promise!Add(id, side, px, qty) => Promise!Next
  /\ \A id \in Ids, qty \in Qtys : Promise!Cancel(id, qty) => Promise!Next
  /\ \A id \in Ids : Promise!Delete(id) => Promise!Next
  /\ \A id \in Ids, qty \in Qtys : Promise!Execute(id, qty) => Promise!Next
  /\ \A old, new \in Ids, px \in Prices, qty \in Qtys :
       Promise!Replace(old, new, px, qty) => Promise!Next
<1>1. ASSUME NEW id \in Ids, NEW side \in Sides, NEW px \in Prices, NEW qty \in Qtys,
             Promise!Add(id, side, px, qty)
      PROVE  Promise!Next
  <2>1. op' = Promise!AddOp(id, side, px, qty)
    BY <1>1 DEF Promise!Add
  <2>2. op' \in Promise!Ops
    BY <2>1, SameVocabulary DEF Promise!Ops
  <2>3. op'.kind = "Add" /\ op'.id = id /\ op'.side = side /\ op'.px = px /\ op'.qty = qty
    BY <2>1 DEF Promise!AddOp
  <2>4. Promise!Call(op')
    BY <1>1, <2>3 DEF Promise!Call
  <2> QED BY <2>2, <2>4 DEF Promise!Next
<1>2. ASSUME NEW id \in Ids, NEW qty \in Qtys, Promise!Cancel(id, qty)
      PROVE  Promise!Next
  <2>1. op' = Promise!CancelOp(id, qty)
    BY <1>2 DEF Promise!Cancel
  <2>2. op' \in Promise!Ops
    BY <2>1 DEF Promise!Ops
  <2>3. op'.kind = "Cancel" /\ op'.id = id /\ op'.qty = qty
    BY <2>1 DEF Promise!CancelOp
  <2>4. Promise!Call(op')
    BY <1>2, <2>3 DEF Promise!Call
  <2> QED BY <2>2, <2>4 DEF Promise!Next
<1>3. ASSUME NEW id \in Ids, Promise!Delete(id)
      PROVE  Promise!Next
  <2>1. op' = Promise!DeleteOp(id)
    BY <1>3 DEF Promise!Delete
  <2>2. op' \in Promise!Ops
    BY <2>1 DEF Promise!Ops
  <2>3. op'.kind = "Delete" /\ op'.id = id
    BY <2>1 DEF Promise!DeleteOp
  <2>4. Promise!Call(op')
    BY <1>3, <2>3 DEF Promise!Call
  <2> QED BY <2>2, <2>4 DEF Promise!Next
<1>4. ASSUME NEW id \in Ids, NEW qty \in Qtys, Promise!Execute(id, qty)
      PROVE  Promise!Next
  <2>1. op' = Promise!ExecuteOp(id, qty)
    BY <1>4 DEF Promise!Execute
  <2>2. op' \in Promise!Ops
    BY <2>1 DEF Promise!Ops
  <2>3. op'.kind = "Exec" /\ op'.id = id /\ op'.qty = qty
    BY <2>1 DEF Promise!ExecuteOp
  <2>4. Promise!Call(op')
    BY <1>4, <2>3 DEF Promise!Call
  <2> QED BY <2>2, <2>4 DEF Promise!Next
<1>5. ASSUME NEW old \in Ids, NEW new \in Ids, NEW px \in Prices, NEW qty \in Qtys,
             Promise!Replace(old, new, px, qty)
      PROVE  Promise!Next
  <2>1. op' = Promise!ReplaceOp(old, new, px, qty)
    BY <1>5 DEF Promise!Replace
  <2>2. op' \in Promise!Ops
    BY <2>1 DEF Promise!Ops
  <2>3. op'.kind = "Replace" /\ op'.id = old /\ op'.new = new /\ op'.px = px /\ op'.qty = qty
    BY <2>1 DEF Promise!ReplaceOp
  <2>4. Promise!Call(op')
    BY <1>5, <2>3 DEF Promise!Call
  <2> QED BY <2>2, <2>4 DEF Promise!Next
<1> QED BY <1>1, <1>2, <1>3, <1>4, <1>5

LEMMA StepKeepsPromise == IInv /\ [Next]_vars => [Promise!Next]_(Promise!vars)
<1> SUFFICES ASSUME IInv, [Next]_vars PROVE [Promise!Next]_(Promise!vars)
  OBVIOUS
<1>1. CASE UNCHANGED vars
  BY <1>1, QueueIs DEF vars, Promise!vars
<1>2. ASSUME NEW id \in Ids, NEW side \in Sides, NEW px \in Prices, NEW qty \in Qtys,
             Add(id, side, px, qty)
      PROVE  Promise!Next
  BY <1>2, AddKeeps, PromisedCalls
<1>3. ASSUME NEW id \in Ids, NEW qty \in Qtys, Cancel(id, qty) PROVE Promise!Next
  BY <1>3, CancelKeeps, PromisedCalls
<1>4. ASSUME NEW id \in Ids, Delete(id) PROVE Promise!Next
  BY <1>4, DeleteKeeps, PromisedCalls
<1>5. ASSUME NEW id \in Ids, NEW qty \in Qtys, Execute(id, qty) PROVE Promise!Next
  BY <1>5, ExecuteKeeps, PromisedCalls
<1>6. ASSUME NEW old \in Ids, NEW new \in Ids, NEW px \in Prices, NEW qty \in Qtys,
             Replace(old, new, px, qty)
      PROVE  Promise!Next
  BY <1>6, ReplaceKeeps, PromisedCalls
<1> QED BY <1>1, <1>2, <1>3, <1>4, <1>5, <1>6 DEF Next

\* Whatever is called, the array book has the FIFOs the trait promises and returns
\* the promised event, or the promised first error and no change.
THEOREM SpecKeepsPromise == Spec => KeepsPromise
<1>1. IInv /\ [Next]_vars => [Promise!Next]_(Promise!vars)
  BY StepKeepsPromise
<1>2. Init => Promise!Init
  BY InitKeepsPromise
<1> QED BY <1>1, <1>2, SpecIsSound, PTL DEF Spec, KeepsPromise, Promise!Spec

-----------------------------------------------------------------------------
(* What the book's own check() looks at.                                   *)

\* A level's locus is that of its price.
LEMMA LocusPrice ==
  ASSUME NEW sl, Indexed(sl, Lvls, ValidPrices), NEW locus \in Loci(sl)
  PROVE  PriceOf(locus) \in Int /\ Locate(PriceOf(locus)) = locus
<1>1. CASE \E i \in LevelIndices : locus = InRange(i)
  <2>1. PICK i \in LevelIndices : locus = InRange(i)
    BY <1>1
  <2>2. PriceOf(locus) = PxOf(i)
    BY <2>1 DEF PriceOf, InRange
  <2> QED BY <2>1, <2>2, LocateOfPx
<1>2. CASE \E p \in DOMAIN sl.overflow : locus = Overflow(p)
  <2>1. PICK p \in DOMAIN sl.overflow : locus = Overflow(p)
    BY <1>2
  <2>2. PriceOf(locus) = p
    BY <2>1 DEF PriceOf, Overflow
  <2>3. DOMAIN sl.overflow \subseteq ValidPrices
    BY DEF Indexed, SideOver
  <2>4. Locate(p) = Overflow(p)
    BY DEF Indexed
  <2> QED BY <2>1, <2>2, <2>3, <2>4, ValidIsPositive
<1> QED BY <1>1, <1>2 DEF Loci

\* The list of a locus is the one of its price.
LEMMA LocusList ==
  ASSUME NEW b, Sound(b), NEW s \in Sides, NEW locus \in Loci(b.sides[s])
  PROVE  LET p == PriceOf(locus)
             c == ListOf(b, s, p)
             lvl == LevelAt(b.sides[s], locus)
         IN  /\ p \in Int /\ OnLevel(b, s, p, c)
             /\ Chain(b.slab, lvl.head) = c
             /\ Threaded(b.slab.slots, b.ids, s, p, c)
             /\ lvl = LevelOf(b.slab.slots, c)
<1>1. PriceOf(locus) \in Int /\ Locate(PriceOf(locus)) = locus
  BY LocusPrice DEF Sound, Shaped
<1> QED BY <1>1 DEF Sound, Listed, OnLevel, ListOf

\* Whole slots, sides and levels.
LEMMA LevelTyped ==
  ASSUME NEW b, Sound(b), NEW s \in Sides, NEW p \in Int,
         NEW T, T = [head  : {Nil} \cup Indices(b.slab), tail : {Nil} \cup Indices(b.slab),
                     qty   : 0 .. MaxQty, count : Nat]
  PROVE  LevelAt(b.sides[s], Locate(p)) \in T
<1> DEFINE c == ListOf(b, s, p)
           lvl == LevelAt(b.sides[s], Locate(p))
<1>1. Shaped(b) /\ OnLevel(b, s, p, c) /\ DOMAIN b.slab.slots = Indices(b.slab)
  BY DEF Sound, Listed, Shaped
<1>2. lvl \in Lvls /\ lvl.head = HeadOf(c) /\ lvl.tail = TailOf(c)
  BY <1>1, LevelFacts
<1>3. c \in Seq(Indices(b.slab))
  BY <1>1 DEF OnLevel, Threaded
<1> HIDE DEF c, lvl
<1>4. HeadOf(c) \in {Nil} \cup Indices(b.slab) /\ TailOf(c) \in {Nil} \cup Indices(b.slab)
  <2>1. Len(c) \in Nat /\ \A k \in 1 .. Len(c) : c[k] \in Indices(b.slab)
    BY <1>3, ListEnds
  <2>2. /\ HeadOf(c) = IF Len(c) = 0 THEN Nil ELSE c[1]
        /\ TailOf(c) = IF Len(c) = 0 THEN Nil ELSE c[Len(c)]
    BY <1>3, ListEnds
  <2>3. Len(c) # 0 => 1 \in 1 .. Len(c) /\ Len(c) \in 1 .. Len(c)
    BY <2>1
  <2> QED BY <2>1, <2>2, <2>3
<1> QED BY <1>2, <1>4 DEF Lvls, lvl

LEMMA SoundSide ==
  ASSUME Sound(book), NEW s \in Sides
  PROVE  SideTypeOK(book.sides[s])
<1> DEFINE sl == book.sides[s]
<1>1. Indexed(sl, Lvls, ValidPrices)
  BY DEF Sound, Shaped
<1>2. \A p \in Int : LevelAt(sl, Locate(p)) \in LevelType
  BY LevelTyped DEF LevelType, SlotIndices
<1> HIDE DEF sl
<1>3. /\ sl \in SideOver(Lvls, ValidPrices)
      /\ \A p \in DOMAIN sl.overflow : Locate(p) = Overflow(p)
  BY <1>1 DEF Indexed
<1>4. /\ sl = [levels |-> sl.levels, bitmap |-> sl.bitmap, overflow |-> sl.overflow,
               hits |-> sl.hits, maxOffset |-> sl.maxOffset]
      /\ sl.levels \in [LevelIndices -> Lvls]
      /\ sl.hits \in Nat /\ sl.maxOffset \in Nat
  BY <1>3 DEF SideOver
<1>5. PICK D \in SUBSET ValidPrices : sl.overflow \in [D -> Lvls]
  BY <1>3 DEF SideOver
<1>6. PICK S : sl.bitmap = BitmapOf(S)
  BY <1>3 DEF SideOver
<1>7. sl.levels \in [LevelIndices -> LevelType]
  <2>1. ASSUME NEW i \in LevelIndices PROVE sl.levels[i] \in LevelType
    <3>1. LevelAt(sl, Locate(PxOf(i))) = sl.levels[i] /\ PxOf(i) \in Int
      BY LocateOfPx DEF LevelAt, InRange
    <3> QED BY <1>2, <3>1
  <2> QED BY <1>4, <2>1
<1>8. ASSUME NEW p \in DOMAIN sl.overflow PROVE sl.overflow[p] \in LevelType
  <2>1. p \in Int
    BY <1>5, ValidIsPositive
  <2>2. LevelAt(sl, Locate(p)) = sl.overflow[p]
    BY <1>3 DEF LevelAt, Overflow
  <2> QED BY <1>2, <2>1, <2>2
<1>9. /\ DOMAIN sl.bitmap = {"words", "summary"}
      /\ sl.bitmap.words \in [WordIndices -> SUBSET (0 .. WordBits - 1)]
      /\ sl.bitmap.summary \subseteq WordIndices
  BY <1>6 DEF BitmapOf, BitsIn
<1>10. DOMAIN sl = {"levels", "bitmap", "overflow", "hits", "maxOffset"}
  <2>1. \A l, m, o, h, x :
          DOMAIN [levels |-> l, bitmap |-> m, overflow |-> o, hits |-> h, maxOffset |-> x]
            = {"levels", "bitmap", "overflow", "hits", "maxOffset"}
    OBVIOUS
  <2> QED BY <1>4, <2>1
<1> QED BY <1>4, <1>5, <1>7, <1>8, <1>9, <1>10 DEF SideTypeOK, sl

LEMMA SoundSlots ==
  ASSUME Sound(book)
  PROVE  /\ book.slab.slots \in [SlotIndices -> SlotType]
         /\ book.slab.freeHead \in {Nil} \cup SlotIndices
<1> DEFINE slots == book.slab.slots
           ids == book.ids
<1>1. /\ Shaped(book) /\ Kept(slots, ids) /\ DOMAIN slots = SlotIndices
      /\ slots \in [SlotIndices -> SlotSet] /\ BackIn(slots)
  BY DEF Sound, Shaped, Kept, SlotIndices
<1>2. PICK F : Freed(slots, ids, book.slab.freeHead, F)
  BY DEF Sound
<1>3. /\ F \in Seq(SlotIndices) /\ LinkedOn(slots, F) /\ book.slab.freeHead = HeadOf(F)
      /\ \A i \in SlotIndices : Unused(ids, i) <=> \E k \in 1 .. Len(F) : F[k] = i
  BY <1>1, <1>2 DEF Freed
<1>4. ASSUME NEW S, NEW c \in Seq(S)
      PROVE  /\ Len(c) \in Nat
             /\ \A k \in 1 .. Len(c) : c[k] \in S /\ NextIn(c, k) \in {Nil} \cup S
             /\ HeadOf(c) \in {Nil} \cup S
  <2>1. Len(c) \in Nat /\ \A k \in 1 .. Len(c) : c[k] \in S
    BY ListEnds
  <2>2. HeadOf(c) = IF Len(c) = 0 THEN Nil ELSE c[1]
    BY ListEnds
  <2>3. Len(c) # 0 => 1 \in 1 .. Len(c)
    BY <2>1
  <2>4. \A k \in 1 .. Len(c) : k # Len(c) => k + 1 \in 1 .. Len(c)
    BY <2>1
  <2> QED BY <2>1, <2>2, <2>3, <2>4 DEF NextIn
<1>5. ASSUME NEW i \in SlotIndices PROVE slots[i].next \in {Nil} \cup SlotIndices
  <2>1. CASE Unused(ids, i)
    <3>1. PICK k \in 1 .. Len(F) : F[k] = i
      BY <1>3, <2>1
    <3>2. slots[F[k]].next = NextIn(F, k)
      BY <1>3 DEF LinkedOn
    <3> QED BY <1>3, <1>4, <3>1, <3>2
  <2>2. CASE ~Unused(ids, i)
    <3>1. PICK id \in DOMAIN ids : ids[id] = i
      BY <2>2 DEF Unused
    <3> DEFINE s == SideOf(slots[i])
               p == AbsPx(slots[i])
               c == ListOf(book, s, p)
    <3>2. OnLevel(book, s, p, c) /\ \E k \in 1 .. Len(c) : c[k] = i
      BY <3>1, NamedFacts
    <3> HIDE DEF s, p, c
    <3>3. PICK k \in 1 .. Len(c) : c[k] = i
      BY <3>2
    <3>4. c \in Seq(SlotIndices) /\ slots[c[k]].next = NextIn(c, k)
      BY <1>1, <3>2 DEF OnLevel, Threaded, Rests
    <3> QED BY <1>4, <3>3, <3>4
  <2> QED BY <2>1, <2>2
<1>6. ASSUME NEW i \in SlotIndices PROVE slots[i] \in SlotType
  <2>1. slots[i] \in SlotSet /\ slots[i].prev \in {Nil} \cup SlotIndices
    BY <1>1 DEF BackIn
  <2>2. slots[i].next \in {Nil} \cup SlotIndices
    BY <1>5
  <2> HIDE DEF slots
  <2> QED BY <2>1, <2>2 DEF SlotSet, SlotType
<1>7. book.slab.freeHead \in {Nil} \cup SlotIndices
  BY <1>3, <1>4
<1> QED BY <1>1, <1>6, <1>7

LEMMA SoundTyped == Sound(book) => TypeOK
<1> SUFFICES ASSUME Sound(book) PROVE TypeOK
  OBVIOUS
<1>1. /\ book = BookOf(book.sides, book.slab.slots, book.slab.cap, book.slab.freeHead,
                       book.slab.live, book.ids)
      /\ book.slab.cap \in Nat /\ DOMAIN book.sides = Sides
      /\ IsFiniteSet(DOMAIN book.ids) /\ book.slab.live = Cardinality(DOMAIN book.ids)
      /\ DOMAIN book.slab.slots = SlotIndices
  BY DEF Sound, Shaped, SlotIndices
<1>2. DOMAIN book = {"sides", "slab", "ids"}
      /\ DOMAIN book.slab = {"slots", "cap", "freeHead", "live"}
  <2>1. \A a, x, c, h, l, i :
          /\ DOMAIN BookOf(a, x, c, h, l, i) = {"sides", "slab", "ids"}
          /\ DOMAIN BookOf(a, x, c, h, l, i).slab = {"slots", "cap", "freeHead", "live"}
    BY DEF BookOf
  <2> QED BY <1>1, <2>1
<1>3. book.slab.live \in Nat
  BY <1>1, FS_CardinalityType
<1>4. \A id \in DOMAIN book.ids : id \in Ids /\ book.ids[id] \in SlotIndices
  BY <1>1, NamedFacts
<1> QED BY <1>1, <1>2, <1>3, <1>4, SoundSide, SoundSlots DEF TypeOK

LEMMA SoundLinks == Sound(book) => FifosLinked /\ LevelSums
<1> SUFFICES ASSUME Sound(book) PROVE FifosLinked /\ LevelSums
  OBVIOUS
<1>1. ASSUME NEW s \in Sides, NEW locus \in Loci(book.sides[s])
      PROVE  LET lvl == LevelAt(book.sides[s], locus)
                 chain == Chain(book.slab, lvl.head)
                 n == Len(chain)
             IN  /\ n = lvl.count
                 /\ lvl.tail = IF n = 0 THEN Nil ELSE chain[n]
                 /\ \A k \in 1 .. n :
                      LET slot == book.slab.slots[chain[k]]
                      IN  /\ slot.prev = (IF k = 1 THEN Nil ELSE chain[k-1])
                          /\ slot.next = (IF k = n THEN Nil ELSE chain[k+1])
                          /\ slot.px = SignedPx(s, PriceOf(locus))
                          /\ slot.qty > 0
                          /\ slot.id \in DOMAIN book.ids
                          /\ book.ids[slot.id] = chain[k]
                 /\ lvl.qty = LevelQty(Fifo(book, lvl))
  <2> DEFINE p == PriceOf(locus)
             c == ListOf(book, s, p)
             lvl == LevelAt(book.sides[s], locus)
  <2>1. /\ Chain(book.slab, lvl.head) = c
        /\ Threaded(book.slab.slots, book.ids, s, p, c)
        /\ lvl = LevelOf(book.slab.slots, c)
    BY LocusList
  <2> HIDE DEF c, lvl, p
  <2>2. /\ lvl.tail = TailOf(c) /\ lvl.count = Len(c)
        /\ lvl.qty = LevelQty(OrdersOn(book.slab.slots, c))
    BY <2>1 DEF LevelOf
  <2>3. Fifo(book, lvl) = OrdersOn(book.slab.slots, c)
    BY <2>1 DEF Fifo, OrdersOn
  <2>4. TailOf(c) = IF Len(c) = 0 THEN Nil ELSE c[Len(c)]
    BY <2>1, ListEnds DEF Threaded
  <2>5. \A k \in 1 .. Len(c) :
          LET slot == book.slab.slots[c[k]]
          IN  /\ slot.prev = (IF k = 1 THEN Nil ELSE c[k-1])
              /\ slot.next = (IF k = Len(c) THEN Nil ELSE c[k+1])
              /\ slot.px = SignedPx(s, p) /\ slot.qty > 0
              /\ slot.id \in DOMAIN book.ids /\ book.ids[slot.id] = c[k]
    BY <2>1 DEF Threaded, Rests, PrevIn, NextIn
  <2> QED BY <2>1, <2>2, <2>3, <2>4, <2>5 DEF lvl, p
<1>2. FifosLinked
  <2> SUFFICES ASSUME NEW s \in Sides, NEW locus \in Loci(book.sides[s])
               PROVE  LET lvl == LevelAt(book.sides[s], locus)
                          chain == Chain(book.slab, lvl.head)
                          n == Len(chain)
                      IN  /\ n = lvl.count
                          /\ lvl.tail = IF n = 0 THEN Nil ELSE chain[n]
                          /\ \A k \in 1 .. n :
                               LET slot == book.slab.slots[chain[k]]
                               IN  /\ slot.prev = (IF k = 1 THEN Nil ELSE chain[k-1])
                                   /\ slot.next = (IF k = n THEN Nil ELSE chain[k+1])
                                   /\ slot.px = SignedPx(s, PriceOf(locus))
                                   /\ slot.qty > 0
                                   /\ slot.id \in DOMAIN book.ids
                                   /\ book.ids[slot.id] = chain[k]
    BY DEF FifosLinked
  <2> QED BY <1>1
<1>3. LevelSums
  BY <1>1 DEF LevelSums
<1> QED BY <1>2, <1>3

LEMMA SoundIndex == Sound(book) => LevelsIndexed
<1> SUFFICES ASSUME Sound(book), NEW s \in Sides PROVE BitmapExact(book.sides[s])
  BY DEF LevelsIndexed
<1> DEFINE sl == book.sides[s]
<1>1. Indexed(sl, Lvls, ValidPrices)
  BY DEF Sound, Shaped
<1> HIDE DEF sl
<1>2. \A i \in LevelIndices : IsSet(sl.bitmap, i) <=> sl.levels[i].count > 0
  BY <1>1, IsSetIsMember DEF Indexed, NonEmpty
<1>3. \A w \in WordIndices : w \in sl.bitmap.summary <=> sl.bitmap.words[w] # {}
  BY <1>1 DEF Indexed, BitmapOf
<1>4. BitmapExact(sl)
  BY <1>1, <1>2, <1>3 DEF BitmapExact, Indexed
<1> QED BY <1>4 DEF sl

LEMMA SoundSlab == Sound(book) => SlabPartitioned
<1> SUFFICES ASSUME Sound(book) PROVE SlabPartitioned
  OBVIOUS
<1> DEFINE ids == book.ids
           slots == book.slab.slots
           live == book.slab.live
           used == {ids[id] : id \in DOMAIN ids}
<1>1. /\ DOMAIN slots = SlotIndices /\ book.slab.cap \in Nat
      /\ IsFiniteSet(DOMAIN ids) /\ live = Cardinality(DOMAIN ids)
  BY DEF Sound, Shaped, SlotIndices
<1>2. PICK F : Freed(slots, ids, book.slab.freeHead, F)
  BY DEF Sound
<1>3. /\ F \in Seq(SlotIndices) /\ Distinct(F) /\ LinkedOn(slots, F)
      /\ book.slab.freeHead = HeadOf(F)
      /\ \A i \in SlotIndices : Unused(ids, i) <=> \E k \in 1 .. Len(F) : F[k] = i
  BY <1>1, <1>2 DEF Freed
<1>4. FreeChain = F
  BY <1>1, <1>3, ChainFollows DEF FreeChain, SlotIndices
<1>5. \A id \in DOMAIN ids : ids[id] \in SlotIndices /\ slots[ids[id]].id = id
  BY <1>1, NamedFacts
<1> DEFINE free == {F[k] : k \in DOMAIN F}
<1>6. /\ Len(F) \in Nat /\ DOMAIN F = 1 .. Len(F)
      /\ \A k \in 1 .. Len(F) : F[k] \in SlotIndices
  BY <1>3, ListEnds
<1>7. free = {i \in SlotIndices : Unused(ids, i)}
  BY <1>3, <1>6
<1>8. used = {i \in SlotIndices : ~Unused(ids, i)}
  BY <1>5 DEF Unused
<1>9. free \cap used = {} /\ free \cup used = SlotIndices
  BY <1>7, <1>8
<1>10. Cardinality(free) = Len(F)
  <2>1. F \in Surjection(1 .. Len(F), free)
    <3>1. F \in [1 .. Len(F) -> free]
      BY <1>3, <1>6, LenProperties
    <3> QED BY <1>6, <3>1 DEF Surjection
  <2>2. F \in Injection(1 .. Len(F), free)
    BY <1>3, <2>1 DEF Injection, IsInjective, Surjection, Distinct
  <2>3. IsFiniteSet(1 .. Len(F)) /\ Cardinality(1 .. Len(F)) = Len(F)
    <3>1. IsFiniteSet(1 .. Len(F))
          /\ Cardinality(1 .. Len(F)) = IF 1 > Len(F) THEN 0 ELSE Len(F) - 1 + 1
      BY <1>6, FS_Interval
    <3> QED BY <1>6, <3>1
  <2> HIDE DEF free
  <2> QED BY <2>1, <2>2, <2>3, FS_Surjection
<1>11. Cardinality(used) = Cardinality(DOMAIN ids)
  <2> DEFINE g == [id \in DOMAIN ids |-> ids[id]]
  <2>1. g \in Surjection(DOMAIN ids, used)
    BY DEF Surjection
  <2>2. g \in Injection(DOMAIN ids, used)
    BY <1>5, <2>1 DEF Injection, IsInjective, Surjection
  <2> HIDE DEF g, used
  <2> QED BY <1>1, <2>1, <2>2, FS_Surjection
<1> HIDE DEF free, used
<1> QED BY <1>1, <1>4, <1>5, <1>9, <1>10, <1>11 DEF SlabPartitioned, free, used

LEMMA CoveredCounts == Covered(book) => CountersCover
<1> SUFFICES ASSUME Covered(book), NEW s \in Sides
             PROVE  LET sl == book.sides[s]
                        resting == {id \in DOMAIN book.ids :
                                      SideOf(book.slab.slots[book.ids[id]]) = s}
                        outside == {id \in resting :
                                      ~Locate(AbsPx(book.slab.slots[book.ids[id]])).grid}
                    IN  /\ \A id \in resting :
                             AbsOffset(AbsPx(book.slab.slots[book.ids[id]])) <= sl.maxOffset
                        /\ Cardinality(outside) <= sl.hits
  BY DEF CountersCover
<1> DEFINE resting == {id \in DOMAIN book.ids : SideOf(book.slab.slots[book.ids[id]]) = s}
           outside == {id \in resting : ~Locate(AbsPx(book.slab.slots[book.ids[id]])).grid}
<1>1. outside = Outside(book, s)
  BY DEF Outside
<1> QED BY <1>1 DEF Covered

\* What the book's own check() asserts never fails, whatever is called, for every
\* window and any number of orders; nor do the counters understate what rests.
THEOREM SpecPassesCheck == Spec => []CheckPasses
<1>1. IInv => CheckPasses
  BY SoundTyped, SoundLinks, SoundIndex, SoundSlab, CoveredCounts DEF IInv, CheckPasses
<1> QED BY <1>1, SpecIsSound, PTL

-----------------------------------------------------------------------------
(* The queries: what is read off the index, the totals and the links is    *)
(* what the promised FIFOs say.                                            *)

LEMMA SameReading ==
  /\ \A f, n : Promise!QtyOfFirst(f, n) = QtyOfFirst(f, n)
  /\ \A p, f : Promise!LevelTuple(p, f) = LevelTuple(p, f)
  /\ \A p, f : Promise!HashRecords(p, f) = HashRecords(p, f)
  /\ \A S : Promise!Max(S) = Max(S) /\ Promise!Min(S) = Min(S)
  /\ \A S, side : Promise!InPriority(S, side) = InPriority(S, side)
  /\ \A S : Promise!Ascending(S) = Ascending(S)
<1>1. \A f, n : Promise!QtyOfFirst(f, n) = QtyOfFirst(f, n)
  BY DEF QtyOfFirst, Promise!QtyOfFirst
<1>2. \A f : Promise!LevelQty(f) = LevelQty(f)
  BY <1>1 DEF LevelQty, Promise!LevelQty
<1>3. \A p, f : Promise!LevelTuple(p, f) = LevelTuple(p, f)
  BY <1>2 DEF LevelTuple, Promise!LevelTuple
<1>4. \A p, f : Promise!HashRecords(p, f) = HashRecords(p, f)
  BY DEF HashRecords, Promise!HashRecords
<1>5. \A S : Promise!Max(S) = Max(S) /\ Promise!Min(S) = Min(S)
  BY DEF Max, Promise!Max, Min, Promise!Min
<1>6. \A S, side : Promise!InPriority(S, side) = InPriority(S, side)
  <2>1. \A S : Promise!Cardinality(S) = Cardinality(S)
    BY DEF Cardinality, Promise!Cardinality
  <2>2. \A side, p, q : Promise!Better(side, p, q) = Better(side, p, q)
    BY DEF Better, Promise!Better
  <2> DEFINE PromisedAhead(S, side, p) ==
               Promise!Cardinality({q \in S : Promise!Better(side, q, p)})
  <2>3. ASSUME NEW S, NEW side, NEW p PROVE PromisedAhead(S, side, p) = Ahead(S, side, p)
    <3>1. {q \in S : Promise!Better(side, q, p)} = {q \in S : Better(side, q, p)}
      BY <2>2
    <3> QED BY <2>1, <3>1 DEF Ahead
  <2>4. ASSUME NEW S, NEW side PROVE Promise!InPriority(S, side) = InPriority(S, side)
    <3>1. Promise!InPriority(S, side)
            = [k \in 1 .. Promise!Cardinality(S) |->
                 CHOOSE p \in S : PromisedAhead(S, side, p) = k - 1]
      BY DEF Promise!InPriority
    <3>2. InPriority(S, side)
            = [k \in 1 .. Cardinality(S) |-> CHOOSE p \in S : Ahead(S, side, p) = k - 1]
      BY DEF InPriority, Ahead
    <3> HIDE DEF PromisedAhead
    <3> QED BY <2>1, <2>3, <3>1, <3>2
  <2> QED BY <2>4
<1>7. \A S : Promise!Ascending(S) = Ascending(S)
  BY <1>6 DEF Ascending, Promise!Ascending
<1> QED BY <1>1, <1>3, <1>4, <1>5, <1>6, <1>7

\* The prices one side has orders at.
At(b, s) == Held(b.sides[s], NonEmpty(b.sides[s]))

LEMMA BookWalkable ==
  ASSUME NEW b, Sound(b), NEW s \in Sides
  PROVE  /\ s \in {"Bid", "Ask"} /\ Walkable(b.sides[s], NonEmpty(b.sides[s]))
         /\ At(b, s) \in SUBSET Int /\ IsFiniteSet(At(b, s))
<1> DEFINE sl == b.sides[s]
           S == NonEmpty(sl)
<1>1. Indexed(sl, Lvls, ValidPrices)
  BY DEF Sound, Shaped
<1>2. DOMAIN sl.overflow \subseteq ValidPrices
  BY <1>1 DEF Indexed, SideOver
<1>3. DOMAIN sl.overflow \subseteq Int
  BY <1>2, ValidIsPositive
<1>4. S \in SUBSET LevelIndices /\ sl.bitmap = BitmapOf(S)
  BY <1>1 DEF NonEmpty, Indexed
<1>5. Walkable(sl, S)
  BY <1>1, <1>3, <1>4 DEF Walkable, Indexed
<1>6. s \in {"Bid", "Ask"}
  BY DEF Sides
<1> HIDE DEF sl, S
<1>7. Held(sl, S) \in SUBSET Int /\ IsFiniteSet(Held(sl, S))
  BY <1>5, HeldFinite
<1> QED BY <1>5, <1>6, <1>7 DEF sl, S, At

\* These are the prices with a list that is not empty.
LEMMA AtIs ==
  ASSUME NEW b, Sound(b), NEW s \in Sides, NEW p \in Int
  PROVE  /\ p \in At(b, s) <=> Orders(b, s, p) # <<>>
         /\ p \in At(b, s) => p \in ValidPrices
<1> DEFINE sl == b.sides[s]
           g == Orders(b, s, p)
           c == ListOf(b, s, p)
           lvl == LevelAt(sl, Locate(p))
<1>1. /\ Indexed(sl, Lvls, ValidPrices)
      /\ Threaded(b.slab.slots, b.ids, s, p, c)
      /\ g \in Seq(OrdersOf(Ids, Lots)) /\ Len(g) = Len(c) /\ lvl.count = Len(g)
  BY LevelTotals DEF Sound, Shaped, OnLevel
<1>2. c \in Seq(DOMAIN b.slab.slots) /\ (c # <<>> => p \in ValidPrices)
  BY <1>1 DEF Threaded
<1> HIDE DEF g, c
<1>3. g # <<>> <=> lvl.count > 0
  BY <1>1
<1>4. g # <<>> => p \in ValidPrices
  BY <1>1, <1>2
<1>5. /\ \A q \in DOMAIN sl.overflow : sl.overflow[q].count > 0 /\ Locate(q) = Overflow(q)
      /\ DOMAIN sl.overflow \subseteq ValidPrices
  BY <1>1 DEF Indexed, SideOver
<1>6. At(b, s) = {PxOf(i) : i \in NonEmpty(sl)} \cup DOMAIN sl.overflow
  BY DEF At, Held
<1>7. CASE \E i \in LevelIndices : Locate(p) = InRange(i) /\ p = PxOf(i)
  <2>1. PICK i \in LevelIndices : Locate(p) = InRange(i) /\ p = PxOf(i)
    BY <1>7
  <2>2. lvl = sl.levels[i]
    BY <2>1 DEF LevelAt, InRange
  <2>3. p \notin DOMAIN sl.overflow
    BY <1>5, <2>1 DEF InRange, Overflow
  <2>4. ASSUME NEW j \in LevelIndices, PxOf(j) = p PROVE j = i
    <3>1. InRange(j) = InRange(i)
      BY <2>1, <2>4, LocateOfPx
    <3> QED BY <3>1 DEF InRange
  <2>5. p \in At(b, s) <=> i \in NonEmpty(sl)
    BY <1>6, <2>1, <2>3, <2>4 DEF NonEmpty
  <2>6. i \in NonEmpty(sl) <=> lvl.count > 0
    BY <2>2 DEF NonEmpty
  <2> QED BY <1>3, <1>4, <2>5, <2>6 DEF g
<1>8. CASE Locate(p) = Overflow(p)
  <2>1. ~\E i \in LevelIndices : p = PxOf(i)
    BY <1>8, LocateOfPx DEF InRange, Overflow
  <2>2. p \in At(b, s) <=> p \in DOMAIN sl.overflow
    BY <1>6, <2>1 DEF NonEmpty
  <2>3. lvl = IF p \in DOMAIN sl.overflow THEN sl.overflow[p] ELSE EmptyLevel
    BY <1>8 DEF LevelAt, Overflow
  <2>4. lvl.count > 0 <=> p \in DOMAIN sl.overflow
    BY <1>5, <2>3 DEF EmptyLevel
  <2> QED BY <1>3, <1>4, <2>2, <2>4 DEF g
<1> QED BY <1>7, <1>8, LocateCases

\* So they are the prices promised as occupied.
LEMMA OccupiedIsAt ==
  ASSUME NEW b, Sound(b), NEW s \in Sides
  PROVE  Promise!Occupied(Q(b), s) = At(b, s)
<1>1. Promise!Occupied(Q(b), s) = {p \in ValidPrices : Orders(b, s, p) # <<>>}
  <2>1. Promise!Occupied(Q(b), s) = {p \in ValidPrices : Q(b)[s][p] # <<>>}
    BY SameVocabulary DEF Promise!Occupied
  <2>2. \A p \in ValidPrices : Q(b)[s][p] = Orders(b, s, p)
    BY DEF Q
  <2> QED BY <2>1, <2>2
<1>2. \A p \in ValidPrices : p \in Int
  BY ValidIsPositive
<1>3. \A p \in At(b, s) : p \in Int
  BY BookWalkable
<1> QED BY <1>1, <1>2, <1>3, AtIs

\* What is read off the level of a price it has orders at.
LEMMA LevelReads ==
  ASSUME NEW b, Sound(b), NEW s \in Sides, NEW p \in At(b, s)
  PROVE  LET lvl == LevelAt(b.sides[s], Locate(p))
         IN  /\ p \in ValidPrices
             /\ Fifo(b, lvl) = Q(b)[s][p]
             /\ <<p, lvl.qty, lvl.count>> = LevelTuple(p, Q(b)[s][p])
<1>1. p \in Int
  BY BookWalkable
<1>2. p \in ValidPrices
  BY <1>1, AtIs
<1>3. Q(b)[s][p] = Orders(b, s, p)
  BY <1>2 DEF Q
<1>4. Fifo(b, LevelAt(b.sides[s], Locate(p))) = Orders(b, s, p)
  BY DEF Fifo, Orders, OrdersOn, ListOf
<1>5. /\ LevelAt(b.sides[s], Locate(p)).qty = LevelQty(Orders(b, s, p))
      /\ LevelAt(b.sides[s], Locate(p)).count = Len(Orders(b, s, p))
  BY <1>1, LevelTotals
<1> QED BY <1>2, <1>3, <1>4, <1>5 DEF LevelTuple

\* The walk of the book, each place of which is such a price.
LEMMA WalkOfBook ==
  ASSUME NEW b, Sound(b), NEW s \in Sides
  PROVE  LET pxs == BestFirst(b.sides[s], s)
         IN  /\ pxs = InPriority(At(b, s), s)
             /\ Len(pxs) \in Nat /\ DOMAIN pxs = 1 .. Len(pxs)
             /\ \A k \in 1 .. Len(pxs) : pxs[k] \in At(b, s)
<1> DEFINE pxs == InPriority(At(b, s), s)
<1>1. pxs \in Seq(At(b, s))
  BY BookWalkable, InPriorityLists
<1>2. BestFirst(b.sides[s], s) = pxs
  BY BookWalkable, BestFirstIsInPriority DEF At
<1> HIDE DEF pxs
<1>3. /\ Len(pxs) \in Nat /\ DOMAIN pxs = 1 .. Len(pxs)
      /\ \A k \in 1 .. Len(pxs) : pxs[k] \in At(b, s)
  BY <1>1
<1> QED BY <1>2, <1>3 DEF pxs

LEMMA SameBest ==
  ASSUME NEW b, Sound(b), NEW s \in Sides
  PROVE  Promise!Best(Q(b), s) = Best(b, s)
<1> DEFINE P == At(b, s)
           sl == b.sides[s]
           m == IF s = "Bid" THEN Max(P) ELSE Min(P)
           locus == BestLocus(sl, s)
           best == IF locus.grid THEN PxOf(locus.at) ELSE locus.at
<1>1. /\ s \in {"Bid", "Ask"} /\ Walkable(sl, NonEmpty(sl))
      /\ P \in SUBSET Int /\ IsFiniteSet(P)
  BY BookWalkable
<1>2. IF P = {} THEN locus = InRange(NoIndex)
      ELSE /\ locus # InRange(NoIndex) /\ locus = Locate(best)
           /\ best \in P /\ \A p \in P : p = best \/ Better(s, best, p)
  BY <1>1, BestLocusIsBest DEF At
<1>3. Promise!Best(Q(b), s) = IF P = {} THEN <<>> ELSE LevelTuple(m, Q(b)[s][m])
  BY OccupiedIsAt, SameReading DEF Promise!Best
<1>4. Best(b, s) = IF locus = InRange(NoIndex) THEN <<>>
                   ELSE <<best, LevelAt(sl, locus).qty, LevelAt(sl, locus).count>>
  BY DEF Best
<1>5. P # {} => /\ m \in P /\ (s = "Bid" => \A p \in P : p <= m)
                /\ (s = "Ask" => \A p \in P : m <= p)
  BY <1>1, MaxIsGreatest, MinIsLeast
<1>6. \A p \in P : <<p, LevelAt(sl, Locate(p)).qty, LevelAt(sl, Locate(p)).count>>
                     = LevelTuple(p, Q(b)[s][p])
  BY LevelReads
<1> HIDE DEF P, sl, m, locus, best
<1>7. CASE P = {}
  BY <1>2, <1>3, <1>4, <1>7
<1>8. CASE P # {}
  <2>1. m = best
    <3>1. m \in Int /\ best \in Int /\ best \in P /\ m \in P
      BY <1>1, <1>2, <1>5, <1>8
    <3>2. m = best \/ Better(s, best, m)
      BY <1>2, <1>8, <3>1
    <3>3. (s = "Bid" => best <= m) /\ (s = "Ask" => m <= best)
      BY <1>5, <1>8, <3>1
    <3> QED BY <1>1, <3>1, <3>2, <3>3 DEF Better
  <2>2. locus # InRange(NoIndex) /\ locus = Locate(best) /\ best \in P
    BY <1>2, <1>8
  <2>3. <<best, LevelAt(sl, Locate(best)).qty, LevelAt(sl, Locate(best)).count>>
          = LevelTuple(best, Q(b)[s][best])
    BY <1>6, <2>2
  <2> QED BY <1>3, <1>4, <1>8, <2>1, <2>2, <2>3
<1> QED BY <1>7, <1>8

LEMMA SameL2 ==
  ASSUME NEW b, Sound(b), NEW s \in Sides, NEW depth \in Nat
  PROVE  Promise!L2(Q(b), s, depth) = L2(b, s, depth)
<1> DEFINE pxs == BestFirst(b.sides[s], s)
           n == IF depth < Len(pxs) THEN depth ELSE Len(pxs)
           read(p) == <<p, LevelAt(b.sides[s], Locate(p)).qty,
                        LevelAt(b.sides[s], Locate(p)).count>>
<1>1. /\ pxs = InPriority(At(b, s), s) /\ Len(pxs) \in Nat
      /\ \A k \in 1 .. Len(pxs) : pxs[k] \in At(b, s)
  BY WalkOfBook
<1>2. L2(b, s, depth) = [k \in 1 .. n |-> read(pxs[k])]
  BY DEF L2
<1>3. Promise!L2(Q(b), s, depth) = [k \in 1 .. n |-> LevelTuple(pxs[k], Q(b)[s][pxs[k]])]
  BY <1>1, OccupiedIsAt, SameReading DEF Promise!L2
<1>4. \A p \in At(b, s) : read(p) = LevelTuple(p, Q(b)[s][p])
  BY LevelReads
<1> HIDE DEF pxs, read
<1>5. \A k \in 1 .. n : read(pxs[k]) = LevelTuple(pxs[k], Q(b)[s][pxs[k]])
  BY <1>1, <1>4
<1> HIDE DEF n
<1> QED BY <1>2, <1>3, <1>5

LEMMA SameSnapshot ==
  ASSUME NEW b, Sound(b), NEW s \in Sides
  PROVE  Promise!Snapshot(Q(b), s) = Snapshot(b, s)
<1> DEFINE pxs == BestFirst(b.sides[s], s)
           read(p) == Fifo(b, LevelAt(b.sides[s], Locate(p)))
<1>1. /\ pxs = InPriority(At(b, s), s)
      /\ DOMAIN pxs = 1 .. Len(pxs) /\ \A k \in 1 .. Len(pxs) : pxs[k] \in At(b, s)
  BY WalkOfBook
<1>2. Snapshot(b, s) = [k \in DOMAIN pxs |-> [px |-> pxs[k], fifo |-> read(pxs[k])]]
  BY DEF Snapshot
<1>3. Promise!Snapshot(Q(b), s)
        = [k \in DOMAIN pxs |-> [px |-> pxs[k], fifo |-> Q(b)[s][pxs[k]]]]
  BY <1>1, OccupiedIsAt, SameReading DEF Promise!Snapshot
<1>4. \A p \in At(b, s) : read(p) = Q(b)[s][p]
  BY LevelReads
<1> HIDE DEF pxs, read
<1> QED BY <1>1, <1>2, <1>3, <1>4

LEMMA SameFlat == \A s : Promise!FlattenSeq(s) = FlattenSeq(s)
BY DEF FlattenSeq, Promise!FlattenSeq

LEMMA SameHashInput ==
  ASSUME NEW b, Sound(b)
  PROVE  Promise!HashInput(Q(b)) = HashInput(b)
<1> DEFINE walk(s) == BestFirst(b.sides[s], s)
           pxs(s) == IF s = "Bid" THEN Reverse(walk(s)) ELSE walk(s)
           read(s, p) == HashRecords(p, Fifo(b, LevelAt(b.sides[s], Locate(p))))
           of(s) == FlattenSeq([k \in DOMAIN pxs(s) |-> read(s, pxs(s)[k])])
           keys(s) == Promise!Ascending(Promise!Occupied(Q(b), s))
           promised(s) == Promise!FlattenSeq([k \in DOMAIN keys(s) |->
                            Promise!HashRecords(keys(s)[k], Q(b)[s][keys(s)[k]])])
<1>1. HashInput(b) = of("Bid") \o of("Ask")
  BY DEF HashInput
<1>2. Promise!HashInput(Q(b)) = promised("Bid") \o promised("Ask")
  BY DEF Promise!HashInput
<1>3. ASSUME NEW s \in Sides PROVE promised(s) = of(s)
  <2>1. keys(s) = Ascending(At(b, s))
    BY OccupiedIsAt, SameReading
  <2>2. pxs(s) = keys(s)
    <3>1. s = "Bid" \/ s = "Ask"
      BY DEF Sides
    <3>2. walk(s) = InPriority(At(b, s), s)
      BY WalkOfBook
    <3>3. Reverse(InPriority(At(b, s), "Bid")) = Ascending(At(b, s))
      BY BookWalkable, AscendingIsTurned
    <3> HIDE DEF walk, keys
    <3> QED BY <2>1, <3>1, <3>2, <3>3 DEF Ascending
  <2>3. \A k \in DOMAIN keys(s) : keys(s)[k] \in At(b, s)
    <3>1. Ascending(At(b, s)) \in Seq(At(b, s))
      BY BookWalkable, InPriorityLists DEF Ascending
    <3> HIDE DEF keys
    <3> QED BY <2>1, <3>1
  <2>4. \A p \in At(b, s) : Promise!HashRecords(p, Q(b)[s][p]) = read(s, p)
    BY LevelReads, SameReading
  <2> HIDE DEF pxs, keys, read
  <2>5. [k \in DOMAIN keys(s) |-> Promise!HashRecords(keys(s)[k], Q(b)[s][keys(s)[k]])]
          = [k \in DOMAIN keys(s) |-> read(s, keys(s)[k])]
    BY <2>3, <2>4
  <2> QED BY <2>2, <2>5, SameFlat
<1>4. "Bid" \in Sides /\ "Ask" \in Sides
  BY DEF Sides
<1> HIDE DEF of, promised
<1> QED BY <1>1, <1>2, <1>3, <1>4

\* The walk along the links meets the order's slot where its FIFO has its id.
LEMMA SameQueueAhead ==
  ASSUME NEW b, Sound(b), NEW id \in DOMAIN b.ids
  PROVE  Promise!QueueAhead(Q(b), id) = QueueAhead(b, id)
<1> DEFINE f == Find(b, id)
           at == b.ids[id]
           c == ListOf(b, f.side, f.px)
           g == Orders(b, f.side, f.px)
<1>1. /\ f.side = SideOf(b.slab.slots[at]) /\ f.px = AbsPx(b.slab.slots[at])
      /\ f.side \in Sides /\ f.px \in ValidPrices /\ f.px \in Int
      /\ f.pos \in 1 .. Len(c) /\ c[f.pos] = at
  BY LookedUp
<1>2. Promise!Find(Q(b), id) = f /\ Q(b)[f.side][f.px] = g
  BY <1>1, SameFind DEF Q
<1>3. Promise!QueueAhead(Q(b), id) = QtyOfFirst(g, f.pos - 1)
  BY <1>2, SameReading DEF Promise!QueueAhead
<1>4. QueueAhead(b, id) = QtyOfFirst(g, SelectInSeq(c, LAMBDA i : i = at) - 1)
  BY <1>1 DEF QueueAhead, Fifo, Orders, OrdersOn, ListOf
<1>5. c \in Seq(DOMAIN b.slab.slots) /\ Distinct(c)
  BY <1>1, LevelTotals DEF OnLevel, Threaded
<1> HIDE DEF f, at, c, g
<1>6. SelectInSeq(c, LAMBDA i : i = at) = f.pos
  <2> DEFINE I == {i \in 1 .. Len(c) : c[i] = at}
  <2>1. Len(c) \in Nat
    BY <1>5
  <2>2. I = {f.pos}
    BY <1>1, <1>5, <2>1 DEF Distinct
  <2>3. SelectInSeq(c, LAMBDA i : i = at) = IF I # {} THEN Min(I) ELSE 0
    BY DEF SelectInSeq
  <2>4. f.pos \in Int
    BY <1>1, <2>1
  <2>5. Min({f.pos}) = f.pos
    BY <2>4 DEF Min
  <2> HIDE DEF I
  <2> QED BY <2>2, <2>3, <2>5
<1> QED BY <1>3, <1>4, <1>6

LEMMA SoundAnswers == IInv => QueriesAgree
<1> SUFFICES ASSUME IInv PROVE QueriesAgree
  OBVIOUS
<1>1. Sound(book)
  BY DEF IInv
<1>2. ASSUME NEW s \in Sides
      PROVE  /\ Best(book, s) = Promise!Best(Q(book), s)
             /\ Snapshot(book, s) = Promise!Snapshot(Q(book), s)
             /\ L2(book, s, 2) = Promise!L2(Q(book), s, 2)
  BY <1>1, SameBest, SameSnapshot, SameL2
<1>3. HashInput(book) = Promise!HashInput(Q(book))
  BY <1>1, SameHashInput
<1>4. \A id \in DOMAIN book.ids : QueueAhead(book, id) = Promise!QueueAhead(Q(book), id)
  BY <1>1, SameQueueAhead
<1>5. book.slab.live = Cardinality(Promise!LiveIds(Q(book)))
  BY <1>1, SameLive DEF Sound, Shaped
<1>6. Queue = Q(book)
  BY QueueIs
<1> QED BY <1>2, <1>3, <1>4, <1>5, <1>6 DEF QueriesAgree

\* After any sequence of calls every query of the array book (best level, depth,
\* snapshot, hash input, queue position, live ids), answered from the bitmap, the
\* overflow map, the levels' totals and the links, is what the promised book says.
THEOREM SpecAnswers == Spec => []QueriesAgree
<1> QED BY SpecIsSound, SoundAnswers, PTL
=============================================================================
