---------------------------- MODULE LevelsProofs ----------------------------
(***************************************************************************)
(* Facts about the operators of Levels, for every window, tick and word    *)
(* size: what the bitmap represents, and that its two-level searches find  *)
(* the extreme and the neighbouring indices.  Then SideLevels: after any   *)
(* sequence of orders coming and going the bitmap and the overflow map are *)
(* exactly the index of the non-empty levels of a side, and the searches   *)
(* over them find what a scan of all levels would.                         *)
(***************************************************************************)
EXTENDS SideLevels, DataProofs

-----------------------------------------------------------------------------
(* Indices, words and bits                                                 *)

LEMMA DivMod ==
  ASSUME NEW W \in Nat \ {0}, NEW i \in Nat
  PROVE  /\ i \div W \in Nat
         /\ i % W \in 0 .. W - 1
         /\ i = (i \div W) * W + (i % W)
OBVIOUS

LEMMA DivModUnique ==
  ASSUME NEW W \in Nat \ {0}, NEW w \in Nat, NEW bit \in 0 .. W - 1
  PROVE  /\ (w * W + bit) \div W = w
         /\ (w * W + bit) % W = bit
OBVIOUS

LEMMA DivMonotone ==
  ASSUME NEW W \in Nat \ {0}, NEW i \in Nat, NEW j \in Nat, i <= j
  PROVE  i \div W <= j \div W
OBVIOUS

\* An index of the window splits into a word and a bit, and back.
LEMMA SplitIndex ==
  ASSUME NEW i \in LevelIndices
  PROVE  /\ WordOf(i) \in WordIndices
         /\ BitOf(i) \in 0 .. WordBits - 1
         /\ IndexOf(WordOf(i), BitOf(i)) = i
<1>1. WordBits \in Nat \ {0} /\ NLevels \in Nat /\ NLevels - 1 \in Nat
      /\ i \in Nat /\ i <= NLevels - 1
  BY GridIsValid DEF LevelIndices
<1>2. WordOf(i) \in Nat /\ WordOf(NLevels - 1) \in Nat
  BY <1>1, DivMod DEF WordOf
<1>3. WordOf(i) <= WordOf(NLevels - 1)
  BY <1>1, DivMonotone DEF WordOf
<1> QED
  BY <1>1, <1>2, <1>3, DivMod DEF WordOf, BitOf, IndexOf, WordIndices

\* Different bits are different indices.
LEMMA JoinIndex ==
  ASSUME NEW w \in WordIndices, NEW bit \in 0 .. WordBits - 1
  PROVE  /\ w \in Nat
         /\ IndexOf(w, bit) \in Nat
         /\ WordOf(IndexOf(w, bit)) = w
         /\ BitOf(IndexOf(w, bit)) = bit
<1>1. WordBits \in Nat \ {0} /\ w \in Nat
  BY GridIsValid, DivMod DEF WordIndices, WordOf
<1>2. w * WordBits \in Nat
  BY <1>1
<1> QED BY <1>1, <1>2, DivModUnique DEF WordOf, BitOf, IndexOf

\* The order of indices is the order of words, then of bits.
LEMMA IndexOrder ==
  ASSUME NEW v \in WordIndices, NEW w \in WordIndices,
         NEW c \in 0 .. WordBits - 1, NEW d \in 0 .. WordBits - 1
  PROVE  IndexOf(v, c) < IndexOf(w, d) <=> v < w \/ (v = w /\ c < d)
<1>1. WordBits \in Nat \ {0} /\ v \in Nat /\ w \in Nat
  BY GridIsValid, JoinIndex
<1>2. ASSUME NEW x \in Nat, NEW y \in Nat, x < y
      PROVE  x * WordBits + WordBits <= y * WordBits
  <2>1. x + 1 <= y
    BY <1>2
  <2>2. (x + 1) * WordBits <= y * WordBits
    BY <2>1, <1>1
  <2> QED BY <2>2, <1>1
<1>3. v * WordBits \in Nat /\ w * WordBits \in Nat
  BY <1>1
<1>4. CASE v < w
  BY <1>1, <1>2, <1>3, <1>4 DEF IndexOf
<1>5. CASE v = w
  BY <1>1, <1>3, <1>5 DEF IndexOf
<1>6. CASE w < v
  <2>1. w * WordBits + WordBits <= v * WordBits
    BY <1>1, <1>2, <1>6
  <2> QED BY <1>1, <1>3, <1>6, <2>1 DEF IndexOf
<1> QED BY <1>1, <1>4, <1>5, <1>6

-----------------------------------------------------------------------------
(* What a bitmap represents                                                *)

\* The one bitmap whose set indices are S.
BitsIn(S, w) == {bit \in 0 .. WordBits - 1 : IndexOf(w, bit) \in S}

BitmapOf(S) == [words   |-> [w \in WordIndices |-> BitsIn(S, w)],
                summary |-> {w \in WordIndices : BitsIn(S, w) # {}}]

LEMMA EmptyBitmapIsEmpty == EmptyBitmap = BitmapOf({})
BY DEF EmptyBitmap, BitmapOf, BitsIn

\* The index sits in its own word only.
LEMMA BitsOfMember ==
  ASSUME NEW S, NEW i \in LevelIndices
  PROVE  BitOf(i) \in BitsIn(S, WordOf(i)) <=> i \in S
BY SplitIndex DEF BitsIn

\* is_set reads what the bitmap represents.
LEMMA IsSetIsMember ==
  ASSUME NEW S, NEW i \in LevelIndices
  PROVE  IsSet(BitmapOf(S), i) <=> i \in S
BY BitsOfMember, SplitIndex DEF IsSet, BitmapOf

\* Adding an index adds its bit to its word, and touches no other word.
LEMMA BitsWith ==
  ASSUME NEW S, NEW i \in LevelIndices, NEW w \in WordIndices
  PROVE  BitsIn(S \cup {i}, w) =
           IF w = WordOf(i) THEN BitsIn(S, w) \cup {BitOf(i)} ELSE BitsIn(S, w)
<1>1. \A bit \in 0 .. WordBits - 1 :
        IndexOf(w, bit) = i <=> w = WordOf(i) /\ bit = BitOf(i)
  BY SplitIndex, JoinIndex
<1>2. BitOf(i) \in 0 .. WordBits - 1
  BY SplitIndex
<1> QED BY <1>1, <1>2 DEF BitsIn

LEMMA BitsWithout ==
  ASSUME NEW S, NEW i \in LevelIndices, NEW w \in WordIndices
  PROVE  BitsIn(S \ {i}, w) =
           IF w = WordOf(i) THEN BitsIn(S, w) \ {BitOf(i)} ELSE BitsIn(S, w)
<1>1. \A bit \in 0 .. WordBits - 1 :
        IndexOf(w, bit) = i <=> w = WordOf(i) /\ bit = BitOf(i)
  BY SplitIndex, JoinIndex
<1> QED BY <1>1 DEF BitsIn

\* set: the representation of S becomes that of S with i.
LEMMA SetBitAdds ==
  ASSUME NEW S, NEW i \in LevelIndices
  PROVE  SetBit(BitmapOf(S), i) = BitmapOf(S \cup {i})
<1> DEFINE T == S \cup {i}
           bm == BitmapOf(S)
           words == [bm.words EXCEPT ![WordOf(i)] = @ \cup {BitOf(i)}]
<1>1. WordOf(i) \in WordIndices
  BY SplitIndex
<1>2. /\ bm.words = [w \in WordIndices |-> BitsIn(S, w)]
      /\ bm.summary = {w \in WordIndices : BitsIn(S, w) # {}}
  BY DEF BitmapOf
<1>3. \A w \in WordIndices :
        BitsIn(T, w) = IF w = WordOf(i) THEN BitsIn(S, w) \cup {BitOf(i)}
                                        ELSE BitsIn(S, w)
  BY BitsWith
<1>4. BitmapOf(T) = [words   |-> [w \in WordIndices |-> BitsIn(T, w)],
                     summary |-> {w \in WordIndices : BitsIn(T, w) # {}}]
  BY DEF BitmapOf
<1>5. SetBit(bm, i) = [words |-> words, summary |-> bm.summary \cup {WordOf(i)}]
  BY DEF SetBit
<1> HIDE DEF T, bm
<1>6. words = [w \in WordIndices |-> BitsIn(T, w)]
  BY <1>1, <1>2, <1>3
<1>7. bm.summary \cup {WordOf(i)} = {w \in WordIndices : BitsIn(T, w) # {}}
  BY <1>1, <1>2, <1>3
<1>8. SetBit(bm, i) = BitmapOf(T)
  BY <1>4, <1>5, <1>6, <1>7
<1> QED BY <1>8 DEF T, bm

\* clear: the representation of S becomes that of S without i; the summary bit
\* goes exactly when the word empties.
LEMMA ClearBitRemoves ==
  ASSUME NEW S, NEW i \in LevelIndices
  PROVE  ClearBit(BitmapOf(S), i) = BitmapOf(S \ {i})
<1> DEFINE T == S \ {i}
           bm == BitmapOf(S)
           words == [bm.words EXCEPT ![WordOf(i)] = @ \ {BitOf(i)}]
           summary == IF words[WordOf(i)] = {} THEN bm.summary \ {WordOf(i)}
                                               ELSE bm.summary
<1>1. WordOf(i) \in WordIndices
  BY SplitIndex
<1>2. /\ bm.words = [w \in WordIndices |-> BitsIn(S, w)]
      /\ bm.summary = {w \in WordIndices : BitsIn(S, w) # {}}
  BY DEF BitmapOf
<1>3. \A w \in WordIndices :
        BitsIn(T, w) = IF w = WordOf(i) THEN BitsIn(S, w) \ {BitOf(i)}
                                        ELSE BitsIn(S, w)
  BY BitsWithout
<1>4. BitmapOf(T) = [words   |-> [w \in WordIndices |-> BitsIn(T, w)],
                     summary |-> {w \in WordIndices : BitsIn(T, w) # {}}]
  BY DEF BitmapOf
<1>5. ClearBit(bm, i) = [words |-> words, summary |-> summary]
  BY DEF ClearBit
<1> HIDE DEF T, bm
<1>6. words = [w \in WordIndices |-> BitsIn(T, w)]
  BY <1>1, <1>2, <1>3
<1>7. words[WordOf(i)] = BitsIn(T, WordOf(i))
  BY <1>1, <1>6
<1> HIDE DEF words
<1>8. summary = {w \in WordIndices : BitsIn(T, w) # {}}
  <2>1. CASE BitsIn(T, WordOf(i)) = {}
    BY <2>1, <1>1, <1>2, <1>3, <1>7
  <2>2. CASE BitsIn(T, WordOf(i)) # {}
    BY <2>2, <1>1, <1>2, <1>3, <1>7
  <2> QED BY <2>1, <2>2
<1>9. ClearBit(bm, i) = BitmapOf(T)
  BY <1>4, <1>5, <1>6, <1>8
<1> QED BY <1>9 DEF T, bm

-----------------------------------------------------------------------------
(* The searches.  An extreme index is the extreme bit of the extreme word. *)

LEMMA WordsFinite ==
  /\ IsFiniteSet(WordIndices) /\ WordIndices \subseteq Int
  /\ \A S, w : IsFiniteSet(BitsIn(S, w)) /\ BitsIn(S, w) \subseteq Int
<1>1. WordBits \in Nat \ {0} /\ WordOf(NLevels - 1) \in Int
  BY GridIsValid DEF WordOf
<1>2. IsFiniteSet(WordIndices) /\ WordIndices \subseteq Int
  BY <1>1, FS_Interval DEF WordIndices
<1>3. IsFiniteSet(0 .. WordBits - 1)
  BY <1>1, FS_Interval
<1>4. ASSUME NEW S, NEW w
      PROVE  IsFiniteSet(BitsIn(S, w)) /\ BitsIn(S, w) \subseteq Int
  <2>1. BitsIn(S, w) \subseteq 0 .. WordBits - 1
    BY DEF BitsIn
  <2> QED BY <2>1, <1>1, <1>3, FS_Subset
<1> QED BY <1>2, <1>4

\* A set of window indices, bit by bit.
LEMMA MembersAreBits ==
  ASSUME NEW T \in SUBSET LevelIndices
  PROVE  /\ \A j \in T : /\ WordOf(j) \in WordIndices
                         /\ BitOf(j) \in BitsIn(T, WordOf(j))
                         /\ j = IndexOf(WordOf(j), BitOf(j))
         /\ \A w \in WordIndices : \A bit \in BitsIn(T, w) :
              bit \in 0 .. WordBits - 1 /\ IndexOf(w, bit) \in T
BY SplitIndex DEF BitsIn

LEMMA MaxIs ==
  ASSUME NEW S \in SUBSET Int, NEW m \in S, \A y \in S : y <= m
  PROVE  Max(S) = m
<1>1. Max(S) \in S /\ \A y \in S : Max(S) >= y
  BY DEF Max
<1>2. Max(S) \in Int /\ m \in Int /\ Max(S) >= m /\ Max(S) <= m
  BY <1>1
<1> QED BY <1>2

LEMMA MinIs ==
  ASSUME NEW S \in SUBSET Int, NEW m \in S, \A y \in S : m <= y
  PROVE  Min(S) = m
<1>1. Min(S) \in S /\ \A y \in S : Min(S) <= y
  BY DEF Min
<1>2. Min(S) \in Int /\ m \in Int /\ m >= Min(S) /\ m <= Min(S)
  BY <1>1
<1> QED BY <1>2

LEMMA HighestOfHighest ==
  ASSUME NEW T \in SUBSET LevelIndices, NEW w \in WordIndices, NEW bit \in BitsIn(T, w),
         \A v \in WordIndices : BitsIn(T, v) # {} => v <= w,
         \A c \in BitsIn(T, w) : c <= bit
  PROVE  IndexOf(w, bit) = Max(T)
<1>1. IndexOf(w, bit) \in T /\ bit \in 0 .. WordBits - 1
  BY MembersAreBits
<1>2. T \subseteq Int
  BY DEF LevelIndices
<1>3. \A j \in T : j <= IndexOf(w, bit)
  <2> TAKE j \in T
  <2> DEFINE v == WordOf(j)
             c == BitOf(j)
  <2>1. v \in WordIndices /\ c \in BitsIn(T, v) /\ j = IndexOf(v, c)
        /\ c \in 0 .. WordBits - 1
    BY MembersAreBits
  <2> HIDE DEF v, c
  <2>2. ~(w < v) /\ (w = v => ~(bit < c))
    <3>1. v <= w /\ (v = w => c <= bit)
      BY <2>1
    <3>2. v \in Int /\ w \in Int
      BY <2>1, WordsFinite
    <3> QED BY <3>1, <3>2, <1>1, <2>1
  <2>3. ~(IndexOf(w, bit) < IndexOf(v, c))
    BY <2>1, <2>2, <1>1, IndexOrder
  <2>4. IndexOf(w, bit) \in Int /\ IndexOf(v, c) \in Int
    BY <2>1, <1>1, <1>2
  <2> QED BY <2>1, <2>3, <2>4
<1> QED BY <1>1, <1>2, <1>3, MaxIs

LEMMA LowestOfLowest ==
  ASSUME NEW T \in SUBSET LevelIndices, NEW w \in WordIndices, NEW bit \in BitsIn(T, w),
         \A v \in WordIndices : BitsIn(T, v) # {} => w <= v,
         \A c \in BitsIn(T, w) : bit <= c
  PROVE  IndexOf(w, bit) = Min(T)
<1>1. IndexOf(w, bit) \in T /\ bit \in 0 .. WordBits - 1
  BY MembersAreBits
<1>2. T \subseteq Int
  BY DEF LevelIndices
<1>3. \A j \in T : IndexOf(w, bit) <= j
  <2> TAKE j \in T
  <2> DEFINE v == WordOf(j)
             c == BitOf(j)
  <2>1. v \in WordIndices /\ c \in BitsIn(T, v) /\ j = IndexOf(v, c)
        /\ c \in 0 .. WordBits - 1
    BY MembersAreBits
  <2> HIDE DEF v, c
  <2>2. ~(v < w) /\ (v = w => ~(c < bit))
    <3>1. w <= v /\ (v = w => bit <= c)
      BY <2>1
    <3>2. v \in Int /\ w \in Int
      BY <2>1, WordsFinite
    <3> QED BY <3>1, <3>2, <1>1, <2>1
  <2>3. ~(IndexOf(v, c) < IndexOf(w, bit))
    BY <2>1, <2>2, <1>1, IndexOrder
  <2>4. IndexOf(w, bit) \in Int /\ IndexOf(v, c) \in Int
    BY <2>1, <1>1, <1>2
  <2> QED BY <2>1, <2>3, <2>4
<1> QED BY <1>1, <1>2, <1>3, MinIs

\* max and min of a bitmap are those of the set it represents.
THEOREM ExtremesFound ==
  ASSUME NEW S \in SUBSET LevelIndices
  PROVE  /\ HighestSet(BitmapOf(S)) = IF S = {} THEN NoIndex ELSE Max(S)
         /\ LowestSet(BitmapOf(S)) = IF S = {} THEN NoIndex ELSE Min(S)
<1> DEFINE words == BitmapOf(S).words
           summary == BitmapOf(S).summary
<1>1. /\ words = [w \in WordIndices |-> BitsIn(S, w)]
      /\ summary = {w \in WordIndices : BitsIn(S, w) # {}}
  BY DEF BitmapOf
<1>2. /\ HighestSet(BitmapOf(S)) = IF summary = {} THEN NoIndex
                                   ELSE IndexOf(Max(summary), Max(words[Max(summary)]))
      /\ LowestSet(BitmapOf(S)) = IF summary = {} THEN NoIndex
                                  ELSE IndexOf(Min(summary), Min(words[Min(summary)]))
  BY DEF HighestSet, LowestSet
<1> HIDE DEF words, summary
<1>3. summary = {} <=> S = {}
  BY <1>1, MembersAreBits
<1>4. IsFiniteSet(summary) /\ summary \in SUBSET Int
  BY <1>1, WordsFinite, FS_Subset
<1>5. ASSUME S # {}
      PROVE  IndexOf(Max(summary), Max(words[Max(summary)])) = Max(S)
  <2> DEFINE w == Max(summary)
             bit == Max(BitsIn(S, w))
  <2>1. w \in summary /\ \A v \in summary : v <= w
    BY <1>3, <1>4, <1>5, MaxIsGreatest
  <2>2. w \in WordIndices /\ words[w] = BitsIn(S, w) /\ BitsIn(S, w) # {}
    BY <1>1, <2>1
  <2>3. bit \in BitsIn(S, w) /\ \A c \in BitsIn(S, w) : c <= bit
    BY <2>2, WordsFinite, MaxIsGreatest
  <2>4. \A v \in WordIndices : BitsIn(S, v) # {} => v <= w
    BY <1>1, <2>1
  <2> HIDE DEF w, bit
  <2>5. IndexOf(w, bit) = Max(S)
    BY <2>2, <2>3, <2>4, HighestOfHighest
  <2> QED BY <2>2, <2>5 DEF w, bit
<1>6. ASSUME S # {}
      PROVE  IndexOf(Min(summary), Min(words[Min(summary)])) = Min(S)
  <2> DEFINE w == Min(summary)
             bit == Min(BitsIn(S, w))
  <2>1. w \in summary /\ \A v \in summary : w <= v
    BY <1>3, <1>4, <1>6, MinIsLeast
  <2>2. w \in WordIndices /\ words[w] = BitsIn(S, w) /\ BitsIn(S, w) # {}
    BY <1>1, <2>1
  <2>3. bit \in BitsIn(S, w) /\ \A c \in BitsIn(S, w) : bit <= c
    BY <2>2, WordsFinite, MinIsLeast
  <2>4. \A v \in WordIndices : BitsIn(S, v) # {} => w <= v
    BY <1>1, <2>1
  <2> HIDE DEF w, bit
  <2>5. IndexOf(w, bit) = Min(S)
    BY <2>2, <2>3, <2>4, LowestOfLowest
  <2> QED BY <2>2, <2>5 DEF w, bit
<1> QED BY <1>2, <1>3, <1>5, <1>6

\* prev_set finds the greatest member below i, over words the summary skips.
LEMMA PrevFound ==
  ASSUME NEW S \in SUBSET LevelIndices, NEW i \in LevelIndices
  PROVE  PrevSet(BitmapOf(S), i) =
           LET T == {j \in S : j < i}
           IN  IF T = {} THEN NoIndex ELSE Max(T)
<1> DEFINE T == {j \in S : j < i}
           v == WordOf(i)
           words == BitmapOf(S).words
           summary == BitmapOf(S).summary
           own == {bit \in words[v] : bit < BitOf(i)}
           below == {w \in summary : w < v /\ words[w] # {}}
<1>1. /\ words = [w \in WordIndices |-> BitsIn(S, w)]
      /\ summary = {w \in WordIndices : BitsIn(S, w) # {}}
  BY DEF BitmapOf
<1>2. PrevSet(BitmapOf(S), i) =
        IF own # {} THEN IndexOf(v, Max(own))
        ELSE IF below = {} THEN NoIndex
        ELSE IndexOf(Max(below), Max(words[Max(below)]))
  BY DEF PrevSet
<1>3. v \in WordIndices /\ BitOf(i) \in 0 .. WordBits - 1 /\ i = IndexOf(v, BitOf(i))
  BY SplitIndex
<1>4. T \in SUBSET LevelIndices
  OBVIOUS
<1>5. \A w \in WordIndices : BitsIn(T, w) =
        {c \in BitsIn(S, w) : w < v \/ (w = v /\ c < BitOf(i))}
  <2> TAKE w \in WordIndices
  <2>1. ASSUME NEW c \in 0 .. WordBits - 1
        PROVE  IndexOf(w, c) < i <=> w < v \/ (w = v /\ c < BitOf(i))
    BY <1>3, IndexOrder
  <2> QED BY <2>1 DEF BitsIn
<1> HIDE DEF T, v, words, summary
<1>6. \A w \in WordIndices : w \in Int /\ ~(w < w)
  BY WordsFinite
<1>7. own = BitsIn(T, v)
  BY <1>1, <1>3, <1>5, <1>6
<1>8. below = {w \in WordIndices : w < v /\ BitsIn(T, w) # {}}
  BY <1>1, <1>5
<1> HIDE DEF own, below
<1>9. CASE own # {}
  <2> DEFINE bit == Max(own)
  <2>1. bit \in BitsIn(T, v) /\ \A c \in BitsIn(T, v) : c <= bit
    BY <1>7, <1>9, WordsFinite, MaxIsGreatest
  <2>2. \A w \in WordIndices : BitsIn(T, w) # {} => w <= v
    BY <1>3, <1>5, <1>6
  <2> HIDE DEF bit
  <2>3. IndexOf(v, bit) = Max(T)
    BY <1>3, <1>4, <2>1, <2>2, HighestOfHighest
  <2>4. T # {}
    BY <1>3, <1>4, <2>1, MembersAreBits
  <2> QED BY <1>2, <1>9, <2>3, <2>4 DEF T, bit
<1>10. CASE own = {} /\ below = {}
  <2>1. \A w \in WordIndices : BitsIn(T, w) = {}
    BY <1>3, <1>5, <1>7, <1>8, <1>10
  <2>2. T = {}
    BY <1>4, <2>1, MembersAreBits
  <2> QED BY <1>2, <1>10, <2>2 DEF T
<1>11. CASE own = {} /\ below # {}
  <2> DEFINE w == Max(below)
             bit == Max(BitsIn(T, w))
  <2>1. below \subseteq WordIndices
    BY <1>8
  <2>2. IsFiniteSet(below) /\ below \in SUBSET Int
    BY <2>1, WordsFinite, FS_Subset
  <2>3. w \in below /\ \A u \in below : u <= w
    BY <1>11, <2>2, MaxIsGreatest
  <2>4. w \in WordIndices /\ w < v /\ BitsIn(T, w) # {}
    BY <1>8, <2>3
  <2>5. bit \in BitsIn(T, w) /\ \A c \in BitsIn(T, w) : c <= bit
    BY <2>4, WordsFinite, MaxIsGreatest
  <2> HIDE DEF w
  <2>6. words[w] = BitsIn(T, w)
    BY <1>1, <1>5, <2>4
  <2>7. \A u \in WordIndices : BitsIn(T, u) # {} => u <= w
    BY <1>5, <1>7, <1>8, <1>11, <2>3
  <2> HIDE DEF bit
  <2>8. IndexOf(w, bit) = Max(T)
    BY <1>4, <2>4, <2>5, <2>7, HighestOfHighest
  <2>9. T # {}
    BY <1>4, <2>4, <2>5, MembersAreBits
  <2> QED BY <1>2, <1>11, <2>6, <2>8, <2>9 DEF T, w, bit
<1> QED BY <1>9, <1>10, <1>11

\* next_set finds the least member above i.
LEMMA NextFound ==
  ASSUME NEW S \in SUBSET LevelIndices, NEW i \in LevelIndices
  PROVE  NextSet(BitmapOf(S), i) =
           LET T == {j \in S : j > i}
           IN  IF T = {} THEN NoIndex ELSE Min(T)
<1> DEFINE T == {j \in S : j > i}
           v == WordOf(i)
           words == BitmapOf(S).words
           summary == BitmapOf(S).summary
           own == {bit \in words[v] : bit > BitOf(i)}
           above == {w \in summary : w > v /\ words[w] # {}}
<1>1. /\ words = [w \in WordIndices |-> BitsIn(S, w)]
      /\ summary = {w \in WordIndices : BitsIn(S, w) # {}}
  BY DEF BitmapOf
<1>2. NextSet(BitmapOf(S), i) =
        IF own # {} THEN IndexOf(v, Min(own))
        ELSE IF above = {} THEN NoIndex
        ELSE IndexOf(Min(above), Min(words[Min(above)]))
  BY DEF NextSet
<1>3. v \in WordIndices /\ BitOf(i) \in 0 .. WordBits - 1 /\ i = IndexOf(v, BitOf(i))
  BY SplitIndex
<1>4. T \in SUBSET LevelIndices
  OBVIOUS
<1>5. \A w \in WordIndices : BitsIn(T, w) =
        {c \in BitsIn(S, w) : w > v \/ (w = v /\ c > BitOf(i))}
  <2> TAKE w \in WordIndices
  <2>1. ASSUME NEW c \in 0 .. WordBits - 1
        PROVE  IndexOf(w, c) > i <=> w > v \/ (w = v /\ c > BitOf(i))
    BY <1>3, IndexOrder
  <2> QED BY <2>1 DEF BitsIn
<1> HIDE DEF T, v, words, summary
<1>6. \A w \in WordIndices : w \in Int /\ ~(w > w)
  BY WordsFinite
<1>7. own = BitsIn(T, v)
  BY <1>1, <1>3, <1>5, <1>6
<1>8. above = {w \in WordIndices : w > v /\ BitsIn(T, w) # {}}
  BY <1>1, <1>5
<1> HIDE DEF own, above
<1>9. CASE own # {}
  <2> DEFINE bit == Min(own)
  <2>1. bit \in BitsIn(T, v) /\ \A c \in BitsIn(T, v) : bit <= c
    BY <1>7, <1>9, WordsFinite, MinIsLeast
  <2>2. \A w \in WordIndices : BitsIn(T, w) # {} => v <= w
    BY <1>3, <1>5, <1>6
  <2> HIDE DEF bit
  <2>3. IndexOf(v, bit) = Min(T)
    BY <1>3, <1>4, <2>1, <2>2, LowestOfLowest
  <2>4. T # {}
    BY <1>3, <1>4, <2>1, MembersAreBits
  <2> QED BY <1>2, <1>9, <2>3, <2>4 DEF T, bit
<1>10. CASE own = {} /\ above = {}
  <2>1. \A w \in WordIndices : BitsIn(T, w) = {}
    BY <1>3, <1>5, <1>7, <1>8, <1>10
  <2>2. T = {}
    BY <1>4, <2>1, MembersAreBits
  <2> QED BY <1>2, <1>10, <2>2 DEF T
<1>11. CASE own = {} /\ above # {}
  <2> DEFINE w == Min(above)
             bit == Min(BitsIn(T, w))
  <2>1. above \subseteq WordIndices
    BY <1>8
  <2>2. IsFiniteSet(above) /\ above \in SUBSET Int
    BY <2>1, WordsFinite, FS_Subset
  <2>3. w \in above /\ \A u \in above : w <= u
    BY <1>11, <2>2, MinIsLeast
  <2>4. w \in WordIndices /\ w > v /\ BitsIn(T, w) # {}
    BY <1>8, <2>3
  <2>5. bit \in BitsIn(T, w) /\ \A c \in BitsIn(T, w) : bit <= c
    BY <2>4, WordsFinite, MinIsLeast
  <2> HIDE DEF w
  <2>6. words[w] = BitsIn(T, w)
    BY <1>1, <1>5, <2>4
  <2>7. \A u \in WordIndices : BitsIn(T, u) # {} => w <= u
    BY <1>5, <1>7, <1>8, <1>11, <2>3
  <2> HIDE DEF bit
  <2>8. IndexOf(w, bit) = Min(T)
    BY <1>4, <2>4, <2>5, <2>7, LowestOfLowest
  <2>9. T # {}
    BY <1>4, <2>4, <2>5, MembersAreBits
  <2> QED BY <1>2, <1>11, <2>6, <2>8, <2>9 DEF T, w, bit
<1> QED BY <1>9, <1>10, <1>11

-----------------------------------------------------------------------------
(* The grid                                                                *)

\* A price is either on the grid, at the index whose price it is, or goes to the
\* overflow map under its own key.
LEMMA LocateCases ==
  ASSUME NEW px \in Int
  PROVE  \/ \E i \in LevelIndices : Locate(px) = InRange(i) /\ px = PxOf(i)
         \/ Locate(px) = Overflow(px)
<1> DEFINE d == px - BasePx
<1>1. BasePx \in Nat /\ Tick \in Nat \ {0} /\ NLevels \in Nat /\ d \in Int
  BY GridIsValid
<1>2. CASE d >= 0 /\ d % Tick = 0 /\ d \div Tick < NLevels
  <2>0. d \in Nat
    BY <1>1, <1>2
  <2>1. d \in Nat /\ d \div Tick \in Nat /\ d = (d \div Tick) * Tick + (d % Tick)
    BY ONLY <1>1, <2>0, DivMod
  <2>2. d \div Tick \in LevelIndices
    BY <1>1, <1>2, <2>1 DEF LevelIndices
  <2>3. (d \div Tick) * Tick \in Int
    BY <1>1, <2>1
  <2>4. px = PxOf(d \div Tick)
    BY <1>1, <1>2, <2>1, <2>3 DEF PxOf
  <2>5. Locate(px) = InRange(d \div Tick)
    BY <1>2 DEF Locate
  <2> QED BY <2>2, <2>4, <2>5
<1>3. CASE ~(d >= 0 /\ d % Tick = 0 /\ d \div Tick < NLevels)
  BY <1>3 DEF Locate
<1> QED BY <1>2, <1>3

\* The price of an index is found at that index.
LEMMA LocateOfPx ==
  ASSUME NEW i \in LevelIndices
  PROVE  PxOf(i) \in Int /\ Locate(PxOf(i)) = InRange(i)
<1>1. /\ BasePx \in Nat /\ Tick \in Nat \ {0} /\ NLevels \in Nat
      /\ i \in Nat /\ i < NLevels
  BY GridIsValid DEF LevelIndices
<1>2. i * Tick \in Nat
  BY <1>1
<1>3. PxOf(i) - BasePx = i * Tick + 0
  BY <1>1, <1>2 DEF PxOf
<1>4. (PxOf(i) - BasePx) % Tick = 0 /\ (PxOf(i) - BasePx) \div Tick = i
  BY <1>1, <1>3, DivModUnique
<1>5. PxOf(i) - BasePx >= 0
  BY <1>1, <1>2, <1>3
<1> QED BY <1>1, <1>2, <1>4, <1>5 DEF Locate, PxOf

\* A higher index is a higher price.
LEMMA PxOrder ==
  ASSUME NEW i \in LevelIndices, NEW j \in LevelIndices
  PROVE  i < j <=> PxOf(i) < PxOf(j)
<1>1. BasePx \in Nat /\ Tick \in Nat \ {0} /\ i \in Nat /\ j \in Nat
  BY GridIsValid DEF LevelIndices
<1>2. ASSUME NEW x \in Nat, NEW y \in Nat, x < y
      PROVE  x * Tick < y * Tick
  <2>1. (y - x) * Tick > 0
    <3>1. y - x \in Nat \ {0}
      BY <1>2
    <3> QED BY <3>1, <1>1
  <2>2. (y - x) * Tick = y * Tick - x * Tick
    BY <1>1
  <2> QED BY <2>1, <2>2, <1>1
<1>3. i * Tick \in Nat /\ j * Tick \in Nat
  BY <1>1
<1>4. /\ i < j => i * Tick < j * Tick
      /\ j < i => j * Tick < i * Tick
  BY <1>1, <1>2
<1> QED BY <1>1, <1>3, <1>4 DEF PxOf

-----------------------------------------------------------------------------
(* The walk over a side.  Of the prices not yet yielded, the cursor is the *)
(* best in the array and BestKey the best in the overflow map.             *)

LEMMA BestKeyIsBest ==
  ASSUME NEW d \in {"Bid", "Ask"}, NEW K \in SUBSET Int, IsFiniteSet(K), K # {}
  PROVE  /\ BestKey(d, K) \in K
         /\ \A p \in K : p = BestKey(d, K) \/ Better(d, BestKey(d, K), p)
<1>1. CASE d = "Bid"
  <2>1. Max(K) \in K /\ \A p \in K : p <= Max(K)
    BY MaxIsGreatest
  <2>2. \A p \in K : p = Max(K) \/ Max(K) > p
    <3> TAKE p \in K
    <3>1. p \in Int /\ Max(K) \in Int
      BY <2>1
    <3> QED BY <2>1, <3>1
  <2> QED BY <1>1, <2>1, <2>2 DEF BestKey, Better
<1>2. CASE d = "Ask"
  <2>1. Min(K) \in K /\ \A p \in K : Min(K) <= p
    BY MinIsLeast
  <2>2. \A p \in K : p = Min(K) \/ Min(K) < p
    <3> TAKE p \in K
    <3>1. p \in Int /\ Min(K) \in Int
      BY <2>1
    <3> QED BY <2>1, <3>1
  <2> QED BY <1>2, <2>1, <2>2 DEF BestKey, Better
<1> QED BY <1>1, <1>2

LEMMA IndicesFinite ==
  ASSUME NEW S \in SUBSET LevelIndices
  PROVE  S \in SUBSET Int /\ IsFiniteSet(S) /\ Cardinality(S) <= NLevels
<1>1. NLevels \in Nat /\ IsFiniteSet(LevelIndices) /\ LevelIndices \subseteq Int
  BY GridIsValid, FS_Interval DEF LevelIndices
<1>2. Cardinality(LevelIndices) = NLevels
  <2>1. NLevels - 1 \in Int /\ NLevels # 0
    BY GridIsValid
  <2>2. Cardinality(0 .. NLevels - 1) = IF 0 > NLevels - 1 THEN 0 ELSE (NLevels - 1) - 0 + 1
    BY <2>1, FS_Interval
  <2> QED BY <1>1, <2>1, <2>2 DEF LevelIndices
<1>3. IsFiniteSet(S) /\ Cardinality(S) <= Cardinality(LevelIndices)
  BY <1>1, FS_Subset
<1> QED BY <1>1, <1>2, <1>3

\* The order of two levels is the order of their prices.
LEMMA BetterIndex ==
  ASSUME NEW d, NEW i \in LevelIndices, NEW j \in LevelIndices
  PROVE  /\ PxOf(i) \in Int /\ PxOf(j) \in Int
         /\ Better(d, i, j) <=> Better(d, PxOf(i), PxOf(j))
         /\ PxOf(i) = PxOf(j) <=> i = j
<1>1. /\ i < j <=> PxOf(i) < PxOf(j)
      /\ j < i <=> PxOf(j) < PxOf(i)
  BY PxOrder
<1>2. i \in Int /\ j \in Int /\ PxOf(i) \in Int /\ PxOf(j) \in Int
  BY LocateOfPx DEF LevelIndices
<1>3. PxOf(i) = PxOf(j) => i = j
  BY <1>1, <1>2
<1> QED BY <1>1, <1>2, <1>3 DEF Better

\* The extreme bit is the level with the best price of the array.
LEMMA ArrayBestIsBest ==
  ASSUME NEW d \in {"Bid", "Ask"}, NEW S \in SUBSET LevelIndices,
         NEW s, s.bitmap = BitmapOf(S)
  PROVE  LET i == ArrayBest(s, d)
         IN  IF S = {} THEN i = NoIndex
             ELSE /\ i \in S
                  /\ \A j \in S : PxOf(j) = PxOf(i) \/ Better(d, PxOf(i), PxOf(j))
<1> DEFINE i == ArrayBest(s, d)
<1>1. S \in SUBSET Int /\ IsFiniteSet(S)
  BY IndicesFinite
<1>2. i = IF S = {} THEN NoIndex ELSE BestKey(d, S)
  BY ExtremesFound DEF ArrayBest, BestKey
<1> HIDE DEF i
<1>3. ASSUME S # {}
      PROVE  i \in S /\ \A j \in S : PxOf(j) = PxOf(i) \/ Better(d, PxOf(i), PxOf(j))
  <2>1. i \in S /\ \A j \in S : j = i \/ Better(d, i, j)
    BY <1>1, <1>2, <1>3, BestKeyIsBest
  <2>2. ASSUME NEW j \in S
        PROVE  PxOf(j) = PxOf(i) \/ Better(d, PxOf(i), PxOf(j))
    <3>1. j = i \/ Better(d, i, j)
      BY <2>1
    <3>2. Better(d, i, j) <=> Better(d, PxOf(i), PxOf(j))
      BY <2>1, BetterIndex
    <3> QED BY <3>1, <3>2
  <2> QED BY <2>1, <2>2
<1> QED BY <1>2, <1>3 DEF i

\* A step of the cursor goes to the best level that is worse.
LEMMA CursorMoves ==
  ASSUME NEW d \in {"Bid", "Ask"}, NEW S \in SUBSET LevelIndices,
         NEW s, s.bitmap = BitmapOf(S), NEW i \in S
  PROVE  LET c == IF d = "Bid" THEN PrevSet(s.bitmap, i) ELSE NextSet(s.bitmap, i)
             T == {j \in S : Better(d, PxOf(i), PxOf(j))}
         IN  IF T = {} THEN c = NoIndex
             ELSE /\ c \in T
                  /\ \A j \in T : PxOf(j) = PxOf(c) \/ Better(d, PxOf(c), PxOf(j))
<1> DEFINE c == IF d = "Bid" THEN PrevSet(s.bitmap, i) ELSE NextSet(s.bitmap, i)
           T == {j \in S : Better(d, PxOf(i), PxOf(j))}
           U == {j \in S : Better(d, i, j)}
<1>1. T = U
  <2>1. \A j \in S : Better(d, i, j) <=> Better(d, PxOf(i), PxOf(j))
    BY BetterIndex
  <2> QED BY <2>1
<1>2. U \in SUBSET LevelIndices /\ U \in SUBSET Int /\ IsFiniteSet(U)
  <2>1. U \in SUBSET LevelIndices
    OBVIOUS
  <2> HIDE DEF U
  <2> QED BY <2>1, IndicesFinite
<1>3. c = IF U = {} THEN NoIndex ELSE BestKey(d, U)
  <2>1. CASE d = "Bid"
    <3>1. U = {j \in S : j < i}
      <4>1. \A j \in S : Better(d, i, j) <=> j < i
        BY <2>1 DEF Better, LevelIndices
      <4> QED BY <4>1
    <3>2. PrevSet(s.bitmap, i) = IF {j \in S : j < i} = {} THEN NoIndex ELSE Max({j \in S : j < i})
      BY PrevFound
    <3> HIDE DEF U
    <3> QED BY <2>1, <3>1, <3>2 DEF BestKey
  <2>2. CASE d # "Bid"
    <3>1. U = {j \in S : j > i}
      <4>1. \A j \in S : Better(d, i, j) <=> j > i
        BY <2>2 DEF Better, LevelIndices
      <4> QED BY <4>1
    <3>2. NextSet(s.bitmap, i) = IF {j \in S : j > i} = {} THEN NoIndex ELSE Min({j \in S : j > i})
      BY NextFound
    <3> HIDE DEF U
    <3> QED BY <2>2, <3>1, <3>2 DEF BestKey
  <2> QED BY <2>1, <2>2
<1> HIDE DEF c, U
<1>4. ASSUME U # {}
      PROVE  c \in U /\ \A j \in U : PxOf(j) = PxOf(c) \/ Better(d, PxOf(c), PxOf(j))
  <2>1. c \in U /\ \A j \in U : j = c \/ Better(d, c, j)
    BY <1>2, <1>3, <1>4, BestKeyIsBest
  <2>2. ASSUME NEW j \in U
        PROVE  PxOf(j) = PxOf(c) \/ Better(d, PxOf(c), PxOf(j))
    <3>1. Better(d, c, j) <=> Better(d, PxOf(c), PxOf(j))
      BY <1>2, <2>1, BetterIndex
    <3> QED BY <2>1, <3>1
  <2> QED BY <2>1, <2>2
<1> QED BY <1>1, <1>3, <1>4 DEF c

\* A side with non-empty levels at the indices S and an overflow map: what is
\* needed of it for the walk.
Walkable(s, S) ==
  /\ S \in SUBSET LevelIndices
  /\ s.bitmap = BitmapOf(S)
  /\ DOMAIN s.overflow \subseteq Int
  /\ IsFiniteSet(DOMAIN s.overflow)
  /\ \A p \in DOMAIN s.overflow : Locate(p) = Overflow(p)

\* The prices it has orders at.
Held(s, S) == {PxOf(i) : i \in S} \cup DOMAIN s.overflow

LEMMA HeldFinite ==
  ASSUME NEW s, NEW S, Walkable(s, S)
  PROVE  /\ Held(s, S) \in SUBSET Int /\ IsFiniteSet(Held(s, S))
         /\ Cardinality(Held(s, S)) <= NLevels + Cardinality(DOMAIN s.overflow)
         /\ \A i \in S : PxOf(i) \in Int /\ PxOf(i) \notin DOMAIN s.overflow
<1> DEFINE O == DOMAIN s.overflow
           P == {PxOf(i) : i \in S}
<1>1. /\ S \in SUBSET LevelIndices /\ O \subseteq Int /\ IsFiniteSet(O)
      /\ \A p \in O : Locate(p) = Overflow(p)
  BY DEF Walkable
<1>2. \A i \in S : PxOf(i) \in Int /\ PxOf(i) \notin O
  BY <1>1, LocateOfPx DEF InRange, Overflow
<1>3. S \in SUBSET Int /\ IsFiniteSet(S) /\ Cardinality(S) <= NLevels
  BY <1>1, IndicesFinite
<1>4. IsFiniteSet(P) /\ Cardinality(P) <= Cardinality(S)
  <2> DEFINE f == [i \in S |-> PxOf(i)]
  <2>1. f \in Surjection(S, P)
    BY DEF Surjection
  <2> HIDE DEF P, f
  <2> QED BY <1>3, <2>1, FS_Surjection
<1>5. P \subseteq Int
  BY <1>2
<1>6. P \cap O = {}
  BY <1>2
<1> HIDE DEF P, O
<1>7. /\ IsFiniteSet(P \cup O)
      /\ Cardinality(P \cup O) = Cardinality(P) + Cardinality(O) - Cardinality(P \cap O)
  BY <1>1, <1>4, FS_Union
<1>8. /\ Cardinality(P) \in Nat /\ Cardinality(O) \in Nat /\ Cardinality(S) \in Nat
      /\ Cardinality(P \cap O) = 0 /\ NLevels \in Nat
  <2>1. NLevels \in Nat
    BY GridIsValid
  <2>2. Cardinality(P) \in Nat /\ Cardinality(O) \in Nat /\ Cardinality(S) \in Nat
    BY <1>1, <1>3, <1>4, FS_CardinalityType
  <2> QED BY <1>6, <2>1, <2>2, FS_EmptySet
<1>9. Cardinality(P \cup O) <= NLevels + Cardinality(O)
  BY <1>3, <1>4, <1>7, <1>8
<1> QED BY <1>1, <1>2, <1>5, <1>7, <1>9 DEF Held, P, O

\* The cursor is the best of the array levels with at least k prices ahead.
CursorAt(s, S, d, cursor, k) ==
  LET rank(i) == Ahead(Held(s, S), d, PxOf(i))
  IN  IF cursor = NoIndex THEN \A i \in S : ~(rank(i) >= k)
      ELSE /\ cursor \in S /\ rank(cursor) >= k
           /\ \A i \in S : rank(i) >= k =>
                PxOf(i) = PxOf(cursor) \/ Better(d, PxOf(cursor), PxOf(i))

\* The iterator after k prices.
WalkedTo(s, S, d, it, k) ==
  /\ it \in [cursor : S \cup {NoIndex}, ovf : SUBSET DOMAIN s.overflow, out : Seq(Int)]
  /\ it.ovf = {p \in DOMAIN s.overflow : Ahead(Held(s, S), d, p) >= k}
  /\ CursorAt(s, S, d, it.cursor, k)
  /\ Len(it.out) = k
  /\ \A j \in 1 .. k : it.out[j] = InPriority(Held(s, S), d)[j]

LEMMA WalkStarts ==
  ASSUME NEW d \in {"Bid", "Ask"}, NEW s, NEW S, Walkable(s, S)
  PROVE  WalkedTo(s, S, d, IterStart(s, d), 0)
<1> DEFINE c == ArrayBest(s, d)
           it == IterStart(s, d)
<1>1. it = [cursor |-> c, ovf |-> DOMAIN s.overflow, out |-> <<>>]
  BY DEF IterStart
<1>2. S \in SUBSET LevelIndices /\ s.bitmap = BitmapOf(S)
  BY DEF Walkable
<1>3. IF S = {} THEN c = NoIndex
      ELSE c \in S /\ \A j \in S : PxOf(j) = PxOf(c) \/ Better(d, PxOf(c), PxOf(j))
  BY <1>2, ArrayBestIsBest
<1>4. NoIndex \notin S
  BY <1>2 DEF NoIndex, LevelIndices
<1>5. \A p \in Held(s, S) : Ahead(Held(s, S), d, p) >= 0
  <2> TAKE p \in Held(s, S)
  <2>1. Ahead(Held(s, S), d, p) \in 0 .. Cardinality(Held(s, S)) - 1
    BY HeldFinite, AheadOrders
  <2> QED BY <2>1
<1>6. (\A i \in S : PxOf(i) \in Held(s, S)) /\ DOMAIN s.overflow \subseteq Held(s, S)
  BY DEF Held
<1>7. CursorAt(s, S, d, c, 0)
  <2> HIDE DEF c
  <2> QED BY <1>3, <1>4, <1>5, <1>6 DEF CursorAt
<1>8. <<>> \in Seq(Int) /\ Len(<<>>) = 0
  BY EmptySeq
<1> HIDE DEF c
<1>9. c \in S \cup {NoIndex}
  BY <1>3
<1> QED BY <1>1, <1>5, <1>6, <1>7, <1>8, <1>9 DEF WalkedTo

\* A step yields the next price in priority, from the array or from the map.
LEMMA WalkSteps ==
  ASSUME NEW d \in {"Bid", "Ask"}, NEW s, NEW S, Walkable(s, S),
         NEW k \in 0 .. Cardinality(Held(s, S)) - 1,
         NEW it, WalkedTo(s, S, d, it, k)
  PROVE  WalkedTo(s, S, d, IterStep(s, d, it), k + 1)
<1> DEFINE P == Held(s, S)
           O == DOMAIN s.overflow
           r == InPriority(P, d)[k + 1]
           rank(p) == Ahead(P, d, p)
           o == BestKey(d, it.ovf)
           c == IF d = "Bid" THEN PrevSet(s.bitmap, it.cursor) ELSE NextSet(s.bitmap, it.cursor)
           takeOvf == it.ovf # {} /\ (it.cursor = NoIndex \/ Better(d, o, PxOf(it.cursor)))
           next == IterStep(s, d, it)
<1>1. /\ P \in SUBSET Int /\ IsFiniteSet(P) /\ k \in Nat
      /\ \A i \in S : PxOf(i) \in Int /\ PxOf(i) \notin O
  BY HeldFinite
<1>2. /\ r \in P /\ rank(r) = k
      /\ \A p \in P : /\ rank(p) \in Nat
                      /\ rank(p) >= k => p = r \/ (Better(d, r, p) /\ rank(p) >= k + 1)
                      /\ Better(d, p, r) => rank(p) < k
  BY <1>1, NextInPriority
<1>3. /\ it.cursor \in S \cup {NoIndex} /\ it.ovf \subseteq O /\ it.out \in Seq(Int)
      /\ it = [cursor |-> it.cursor, ovf |-> it.ovf, out |-> it.out]
      /\ it.ovf = {p \in O : rank(p) >= k}
      /\ CursorAt(s, S, d, it.cursor, k)
      /\ Len(it.out) = k
      /\ \A j \in 1 .. k : it.out[j] = InPriority(P, d)[j]
  BY DEF WalkedTo
<1>4. /\ S \in SUBSET LevelIndices /\ s.bitmap = BitmapOf(S)
      /\ O \subseteq Int /\ IsFiniteSet(O)
  BY DEF Walkable
<1>5. (\A i \in S : PxOf(i) \in P) /\ O \subseteq P /\ (r \in O \/ \E i \in S : r = PxOf(i))
  BY <1>2 DEF Held
<1>6. next = IF it.cursor = NoIndex /\ it.ovf = {} THEN it
             ELSE IF takeOvf
             THEN [it EXCEPT !.ovf = @ \ {o}, !.out = Append(@, o)]
             ELSE [it EXCEPT !.cursor = c, !.out = Append(@, PxOf(it.cursor))]
  BY DEF IterStep
<1>7. ASSUME it.ovf # {}
      PROVE  o \in it.ovf /\ \A p \in it.ovf : p = o \/ Better(d, o, p)
  <2>1. it.ovf \in SUBSET Int /\ IsFiniteSet(it.ovf)
    BY <1>3, <1>4, FS_Subset
  <2> QED BY <1>7, <2>1, BestKeyIsBest
<1> DEFINE out == Append(it.out, r)
<1>8. /\ out \in Seq(Int) /\ Len(out) = k + 1
      /\ \A j \in 1 .. k + 1 : out[j] = InPriority(P, d)[j]
  <2>1. r \in Int
    BY <1>1, <1>2
  <2> HIDE DEF r
  <2>2. /\ out \in Seq(Int) /\ Len(out) = Len(it.out) + 1 /\ out[Len(it.out) + 1] = r
        /\ \A j \in 1 .. Len(it.out) : out[j] = it.out[j]
    BY <1>3, <2>1, AppendProperties
  <2> HIDE DEF out
  <2>3. ASSUME NEW j \in 1 .. k + 1 PROVE out[j] = InPriority(P, d)[j]
    <3>1. CASE j = k + 1
      BY <1>3, <2>2, <3>1 DEF r
    <3>2. CASE j # k + 1
      <4>1. j \in 1 .. k
        BY <1>1, <3>2
      <4> QED BY <1>3, <2>2, <4>1
    <3> QED BY <3>1, <3>2
  <2> QED BY <1>3, <2>2, <2>3
<1> HIDE DEF P, O, r, rank, o, c, takeOvf, next, out
<1>9. CASE r \in O
  <2>1. r \in it.ovf
    BY <1>1, <1>2, <1>3, <1>9
  <2>2. o = r
    <3>1. o \in it.ovf /\ (r = o \/ Better(d, o, r))
      BY <1>7, <2>1
    <3>2. o \in P /\ rank(o) >= k
      BY <1>3, <1>5, <3>1
    <3> QED BY <1>1, <1>2, <3>1, <3>2
  <2>3. takeOvf
    <3>1. ASSUME it.cursor # NoIndex PROVE Better(d, r, PxOf(it.cursor))
      <4>1. it.cursor \in S /\ rank(PxOf(it.cursor)) >= k
        BY <1>3, <3>1 DEF CursorAt, rank, P
      <4>2. PxOf(it.cursor) # r /\ PxOf(it.cursor) \in P
        BY <1>1, <1>5, <1>9, <4>1
      <4> QED BY <1>2, <4>1, <4>2
    <3> QED BY <2>1, <2>2, <3>1 DEF takeOvf
  <2>4. next = [it EXCEPT !.ovf = @ \ {r}, !.out = Append(@, r)]
    BY <1>6, <2>1, <2>2, <2>3
  <2>5. next = [cursor |-> it.cursor, ovf |-> it.ovf \ {r}, out |-> Append(it.out, r)]
    BY <1>3, <2>4
  <2>6. it.ovf \ {r} = {p \in O : rank(p) >= k + 1}
    <3>1. ASSUME NEW p \in O PROVE (rank(p) >= k /\ p # r) <=> rank(p) >= k + 1
      <4>1. p \in P
        BY <1>5
      <4> QED BY <1>1, <1>2, <4>1
    <3> QED BY <1>3, <3>1
  <2>7. CursorAt(s, S, d, it.cursor, k + 1)
    <3>1. ASSUME NEW i \in S PROVE rank(PxOf(i)) >= k <=> rank(PxOf(i)) >= k + 1
      <4>1. PxOf(i) \in P /\ PxOf(i) # r
        BY <1>1, <1>5, <1>9
      <4> QED BY <1>1, <1>2, <4>1
    <3> QED BY <1>3, <3>1 DEF CursorAt, rank, P
  <2>8. next = [cursor |-> it.cursor, ovf |-> it.ovf \ {r}, out |-> out]
    BY <2>5 DEF out
  <2>9. next \in [cursor : S \cup {NoIndex}, ovf : SUBSET O, out : Seq(Int)]
    BY <1>3, <1>8, <2>8
  <2> QED BY <1>8, <2>6, <2>7, <2>8, <2>9 DEF WalkedTo, rank, P, O, next
<1>10. CASE r \notin O
  <2>1. PICK i \in S : r = PxOf(i)
    BY <1>5, <1>10
  <2>2. NoIndex \notin S
    BY <1>4 DEF NoIndex, LevelIndices
  <2>3. it.cursor = i
    <3>1. rank(PxOf(i)) >= k
      BY <1>1, <1>2, <2>1
    <3>2. /\ it.cursor \in S /\ rank(PxOf(it.cursor)) >= k
          /\ PxOf(i) = PxOf(it.cursor) \/ Better(d, PxOf(it.cursor), PxOf(i))
      BY <1>3, <3>1 DEF CursorAt, rank, P
    <3>3. PxOf(it.cursor) = r
      <4>1. PxOf(it.cursor) \in P
        BY <1>5, <3>2
      <4> QED BY <1>1, <1>2, <2>1, <3>2, <4>1
    <3> QED BY <1>4, <2>1, <3>2, <3>3, BetterIndex
  <2>4. ~takeOvf
    <3> SUFFICES ASSUME it.ovf # {} PROVE ~Better(d, o, r)
      BY <2>1, <2>2, <2>3 DEF takeOvf
    <3>1. o \in it.ovf
      BY <1>7
    <3>2. o \in P /\ rank(o) >= k
      BY <1>3, <1>5, <3>1
    <3> QED BY <1>1, <1>2, <3>2
  <2>5. next = [it EXCEPT !.cursor = c, !.out = Append(@, r)]
    BY <1>6, <2>1, <2>2, <2>3, <2>4
  <2>6. next = [cursor |-> c, ovf |-> it.ovf, out |-> Append(it.out, r)]
    BY <1>3, <2>5
  <2>7. it.ovf = {p \in O : rank(p) >= k + 1}
    <3>1. ASSUME NEW p \in O PROVE rank(p) >= k <=> rank(p) >= k + 1
      <4>1. p \in P /\ p # r
        BY <1>5, <1>10
      <4> QED BY <1>1, <1>2, <4>1
    <3> QED BY <1>3, <3>1
  <2>8. /\ c \in S \cup {NoIndex}
        /\ CursorAt(s, S, d, c, k + 1)
    <3> DEFINE T == {j \in S : Better(d, PxOf(i), PxOf(j))}
    <3>1. IF T = {} THEN c = NoIndex
          ELSE /\ c \in T
               /\ \A j \in T : PxOf(j) = PxOf(c) \/ Better(d, PxOf(c), PxOf(j))
      BY <1>4, <2>3, CursorMoves DEF c
    <3>2. ASSUME NEW j \in S PROVE j \in T <=> rank(PxOf(j)) >= k + 1
      <4>1. PxOf(j) \in P
        BY <1>5
      <4>2. rank(PxOf(j)) >= k + 1 => PxOf(j) # r /\ rank(PxOf(j)) >= k
        BY <1>1, <1>2, <4>1
      <4>3. Better(d, r, PxOf(j)) => rank(PxOf(j)) >= k + 1
        <5>1. Better(d, r, PxOf(j)) => PxOf(j) # r /\ ~Better(d, PxOf(j), r)
          BY <1>1, <1>2, <4>1 DEF Better
        <5>2. Better(d, r, PxOf(j)) => rank(r) < rank(PxOf(j))
          BY <1>1, <1>2, <4>1, AheadOrders DEF rank
        <5> QED BY <1>1, <1>2, <4>1, <5>2
      <4> QED BY <1>2, <2>1, <4>1, <4>2, <4>3
    <3> HIDE DEF T
    <3>3. T \subseteq S
      BY DEF T
    <3> QED BY <2>2, <3>1, <3>2, <3>3 DEF CursorAt, rank, P
  <2>9. next = [cursor |-> c, ovf |-> it.ovf, out |-> out]
    BY <2>6 DEF out
  <2>10. next \in [cursor : S \cup {NoIndex}, ovf : SUBSET O, out : Seq(Int)]
    BY <1>3, <1>8, <2>8, <2>9
  <2> QED BY <1>8, <2>7, <2>8, <2>9, <2>10 DEF WalkedTo, rank, P, O, next
<1> QED BY <1>9, <1>10 DEF next

\* The states of the iterator, and that it stays among them.
IterStates(s, S) ==
  [cursor : S \cup {NoIndex}, ovf : SUBSET DOMAIN s.overflow, out : Seq(Int)]

LEMMA IterStays ==
  ASSUME NEW d \in {"Bid", "Ask"}, NEW s, NEW S, Walkable(s, S), NEW it \in IterStates(s, S)
  PROVE  IterStep(s, d, it) \in IterStates(s, S)
<1> DEFINE O == DOMAIN s.overflow
           o == BestKey(d, it.ovf)
           c == IF d = "Bid" THEN PrevSet(s.bitmap, it.cursor) ELSE NextSet(s.bitmap, it.cursor)
           takeOvf == it.ovf # {} /\ (it.cursor = NoIndex \/ Better(d, o, PxOf(it.cursor)))
<1>1. it.cursor \in S \cup {NoIndex} /\ it.ovf \subseteq O /\ it.out \in Seq(Int)
  BY DEF IterStates
<1>2. /\ S \in SUBSET LevelIndices /\ s.bitmap = BitmapOf(S)
      /\ O \subseteq Int /\ IsFiniteSet(O)
  BY DEF Walkable
<1>3. it = [cursor |-> it.cursor, ovf |-> it.ovf, out |-> it.out]
  BY DEF IterStates
<1>4. IterStep(s, d, it)
        = IF it.cursor = NoIndex /\ it.ovf = {} THEN it
          ELSE IF takeOvf
          THEN [it EXCEPT !.ovf = @ \ {o}, !.out = Append(@, o)]
          ELSE [it EXCEPT !.cursor = c, !.out = Append(@, PxOf(it.cursor))]
  BY DEF IterStep
<1>5. ASSUME it.ovf # {} PROVE o \in Int
  <2>1. it.ovf \in SUBSET Int /\ IsFiniteSet(it.ovf)
    BY <1>1, <1>2, FS_Subset
  <2> QED BY <1>5, <2>1, BestKeyIsBest
<1>6. ASSUME it.cursor # NoIndex PROVE c \in S \cup {NoIndex} /\ PxOf(it.cursor) \in Int
  <2>1. it.cursor \in S
    BY <1>1, <1>6
  <2> DEFINE T == {j \in S : Better(d, PxOf(it.cursor), PxOf(j))}
  <2>2. IF T = {} THEN c = NoIndex ELSE c \in T
    BY <1>2, <2>1, CursorMoves
  <2>3. T \subseteq S
    OBVIOUS
  <2> HIDE DEF T, c
  <2>4. c \in S \cup {NoIndex}
    BY <2>2, <2>3
  <2> QED BY <2>1, <2>4, HeldFinite
<1> HIDE DEF O, o, c
<1>7. CASE it.cursor = NoIndex /\ it.ovf = {}
  BY <1>4, <1>7
<1>8. CASE ~(it.cursor = NoIndex /\ it.ovf = {}) /\ takeOvf
  <2> DEFINE out == Append(it.out, o)
  <2>1. out \in Seq(Int)
    BY <1>1, <1>5, <1>8, AppendProperties
  <2>2. IterStep(s, d, it) = [cursor |-> it.cursor, ovf |-> it.ovf \ {o}, out |-> out]
    BY <1>3, <1>4, <1>8
  <2> HIDE DEF out
  <2> QED BY <1>1, <2>1, <2>2 DEF IterStates, O
<1>9. CASE ~(it.cursor = NoIndex /\ it.ovf = {}) /\ ~takeOvf
  <2> DEFINE out == Append(it.out, PxOf(it.cursor))
  <2>1. it.cursor # NoIndex
    BY <1>9
  <2>2. out \in Seq(Int)
    BY <1>1, <1>6, <2>1, AppendProperties
  <2>3. IterStep(s, d, it) = [cursor |-> c, ovf |-> it.ovf, out |-> out]
    BY <1>3, <1>4, <1>9
  <2> HIDE DEF out
  <2> QED BY <1>1, <1>6, <2>1, <2>2, <2>3 DEF IterStates, O
<1> QED BY <1>7, <1>8, <1>9

\* A run of the iterator over n steps, and the last state of the longest as the
\* result of BestFirst.
IsWalk(g, s, d, n) ==
  g = [k \in 0 .. n |-> IF k = 0 THEN IterStart(s, d) ELSE IterStep(s, d, g[k-1])]

LEMMA BestFirstIsWalk ==
  ASSUME NEW s, NEW d
  PROVE  LET most == NLevels + Cardinality(DOMAIN s.overflow)
         IN  BestFirst(s, d) = (CHOOSE g : IsWalk(g, s, d, most))[most].out
BY DEF BestFirst, IsWalk

LEMMA WalkExists ==
  ASSUME NEW d \in {"Bid", "Ask"}, NEW s, NEW S, Walkable(s, S), NEW n \in Nat
  PROVE  \E g : IsWalk(g, s, d, n)
<1> DEFINE X == IterStates(s, S)
           start == IterStart(s, d)
           step == [it \in X |-> IterStep(s, d, it)]
<1>1. start \in X
  BY WalkStarts DEF WalkedTo, IterStates
<1>2. step \in [X -> X]
  BY IterStays
<1> HIDE DEF X, start
<1>3. PICK g \in [0 .. n -> X] : Iterates(g, start, step, n)
  <2> HIDE DEF step
  <2> QED BY <1>1, <1>2, IterationExists
<1>4. ASSUME NEW k \in 0 .. n, k # 0 PROVE step[g[k-1]] = IterStep(s, d, g[k-1])
  <2>1. k - 1 \in 0 .. n
    BY <1>4
  <2>2. g[k-1] \in X
    BY <1>3, <2>1
  <2> QED BY <2>2
<1>5. \A k \in 0 .. n : (IF k = 0 THEN start ELSE step[g[k-1]])
                      = IF k = 0 THEN start ELSE IterStep(s, d, g[k-1])
  BY <1>4
<1> HIDE DEF step
<1>6. g = [k \in 0 .. n |-> IF k = 0 THEN start ELSE IterStep(s, d, g[k-1])]
  BY <1>3, <1>5 DEF Iterates
<1> QED BY <1>6 DEF IsWalk, start

\* Once every price is out, the iterator rests.
LEMMA WalkRests ==
  ASSUME NEW d \in {"Bid", "Ask"}, NEW s, NEW S, Walkable(s, S),
         NEW it, WalkedTo(s, S, d, it, Cardinality(Held(s, S)))
  PROVE  IterStep(s, d, it) = it
<1> DEFINE P == Held(s, S)
           n == Cardinality(P)
<1>1. P \in SUBSET Int /\ IsFiniteSet(P) /\ n \in Nat
  BY HeldFinite, FS_CardinalityType
<1>2. \A p \in P : ~(Ahead(P, d, p) >= n)
  <2> TAKE p \in P
  <2>1. Ahead(P, d, p) \in 0 .. n - 1
    BY <1>1, AheadOrders
  <2> QED BY <1>1, <2>1
<1>3. DOMAIN s.overflow \subseteq P /\ \A i \in S : PxOf(i) \in P
  BY DEF Held
<1> HIDE DEF P, n
<1>4. it.ovf = {}
  BY <1>2, <1>3 DEF WalkedTo, P, n
<1>5. it.cursor = NoIndex
  BY <1>2, <1>3 DEF WalkedTo, CursorAt, P, n
<1> QED BY <1>4, <1>5 DEF IterStep

\* BestFirst merges the array with the overflow map: it yields the prices that
\* have orders, in priority, whatever the window and its words.
THEOREM BestFirstIsInPriority ==
  ASSUME NEW d \in {"Bid", "Ask"}, NEW s, NEW S, Walkable(s, S)
  PROVE  BestFirst(s, d) = InPriority(Held(s, S), d)
<1> DEFINE P == Held(s, S)
           n == Cardinality(P)
           most == NLevels + Cardinality(DOMAIN s.overflow)
           g == CHOOSE h : IsWalk(h, s, d, most)
           Reached == {k \in Nat : k <= most =>
                         WalkedTo(s, S, d, g[k], IF k <= n THEN k ELSE n)}
<1>1. P \in SUBSET Int /\ IsFiniteSet(P) /\ n <= most
  BY HeldFinite
<1>2. n \in Nat /\ most \in Nat
  <2>1. n \in Nat /\ Cardinality(DOMAIN s.overflow) \in Nat
    BY <1>1, FS_CardinalityType DEF Walkable
  <2>2. NLevels \in Nat
    BY GridIsValid
  <2> QED BY <2>1, <2>2
<1>3. BestFirst(s, d) = g[most].out
  BY BestFirstIsWalk
<1> HIDE DEF P, n, most
<1>4. IsWalk(g, s, d, most)
  BY <1>2, WalkExists
<1> HIDE DEF g
<1>5. g[0] = IterStart(s, d)
  BY <1>2, <1>4 DEF IsWalk
<1>6. ASSUME NEW k \in Nat, k + 1 <= most PROVE g[k + 1] = IterStep(s, d, g[k])
  <2>1. k + 1 \in 0 .. most /\ k + 1 # 0 /\ (k + 1) - 1 = k
    BY <1>2, <1>6
  <2> QED BY <1>4, <2>1 DEF IsWalk
<1>7. 0 \in Reached
  BY <1>2, <1>5, WalkStarts
<1>8. ASSUME NEW k \in Nat, k \in Reached PROVE k + 1 \in Reached
  <2>1. SUFFICES ASSUME k + 1 <= most
                 PROVE  WalkedTo(s, S, d, g[k + 1], IF k + 1 <= n THEN k + 1 ELSE n)
    OBVIOUS
  <2>2. WalkedTo(s, S, d, g[k], IF k <= n THEN k ELSE n)
    BY <1>2, <1>8, <2>1
  <2>3. g[k + 1] = IterStep(s, d, g[k])
    BY <1>6, <2>1
  <2>4. CASE k + 1 <= n
    <3>1. k \in 0 .. n - 1 /\ k <= n
      BY <1>2, <2>4
    <3>2. WalkedTo(s, S, d, g[k], k)
      BY <2>2, <3>1
    <3>3. WalkedTo(s, S, d, IterStep(s, d, g[k]), k + 1)
      BY <3>1, <3>2, WalkSteps DEF P, n
    <3> QED BY <2>3, <2>4, <3>3
  <2>5. CASE ~(k + 1 <= n)
    <3>1. WalkedTo(s, S, d, g[k], n)
      <4>1. (IF k <= n THEN k ELSE n) = n
        BY <1>2, <2>5
      <4> QED BY <2>2, <4>1
    <3>2. g[k + 1] = g[k]
      BY <2>3, <3>1, WalkRests DEF P, n
    <3> QED BY <2>5, <3>1, <3>2
  <2> QED BY <2>4, <2>5
<1> HIDE DEF Reached
<1>9. most \in Reached
  BY <1>2, <1>7, <1>8, NaturalsInducted
<1>10. WalkedTo(s, S, d, g[most], n)
  <2>1. (IF most <= n THEN most ELSE n) = n
    BY <1>1, <1>2
  <2> QED BY <1>2, <1>9, <2>1 DEF Reached
<1> DEFINE w == InPriority(P, d)
<1>11. w \in Seq(P) /\ Len(w) = n
  BY <1>1, InPriorityLists DEF n
<1>12. g[most].out \in Seq(Int) /\ Len(g[most].out) = n
       /\ \A j \in 1 .. n : g[most].out[j] = w[j]
  BY <1>10 DEF WalkedTo, P
<1> HIDE DEF w
<1>13. w \in Seq(Int)
  BY <1>1, <1>11, SeqMonotonic
<1>14. g[most].out = w
  BY <1>2, <1>11, <1>12, <1>13, SeqEqual
<1> QED BY <1>3, <1>14 DEF w, P

\* BestLocus, from one bit of the array and one key of the overflow map, is the
\* place of the best of all the prices that have orders.
LEMMA BestLocusIsBest ==
  ASSUME NEW d \in {"Bid", "Ask"}, NEW s, NEW S, Walkable(s, S)
  PROVE  LET locus == BestLocus(s, d)
             best == IF locus.grid THEN PxOf(locus.at) ELSE locus.at
             P == Held(s, S)
         IN  IF P = {} THEN locus = InRange(NoIndex)
             ELSE /\ locus # InRange(NoIndex) /\ locus = Locate(best) /\ best \in P
                  /\ \A p \in P : p = best \/ Better(d, best, p)
<1> DEFINE ovf == DOMAIN s.overflow
           i == ArrayBest(s, d)
           o == BestKey(d, ovf)
           locus == BestLocus(s, d)
           best == IF locus.grid THEN PxOf(locus.at) ELSE locus.at
           takeOvf == ovf # {} /\ (i = NoIndex \/ Better(d, o, PxOf(i)))
           P == Held(s, S)
<1>1. P = {PxOf(j) : j \in S} \cup ovf
  BY DEF Held
<1>2. locus = IF takeOvf THEN Overflow(o) ELSE InRange(i)
  BY DEF BestLocus
<1>3. /\ S \in SUBSET LevelIndices /\ s.bitmap = BitmapOf(S)
      /\ ovf \in SUBSET Int /\ IsFiniteSet(ovf) /\ \A p \in ovf : Locate(p) = Overflow(p)
      /\ NoIndex \notin S
  BY DEF Walkable, LevelIndices, NoIndex
<1>4. IF S = {} THEN i = NoIndex
      ELSE /\ i \in S
           /\ \A j \in S : PxOf(j) = PxOf(i) \/ Better(d, PxOf(i), PxOf(j))
  BY <1>3, ArrayBestIsBest
<1>5. ovf # {} => o \in ovf /\ \A p \in ovf : p = o \/ Better(d, o, p)
  BY <1>3, BestKeyIsBest
<1>6. \A j \in S : PxOf(j) \in Int /\ PxOf(j) \notin ovf /\ Locate(PxOf(j)) = InRange(j)
  BY <1>3, LocateOfPx DEF InRange, Overflow
<1> HIDE DEF ovf, i, o, locus, P
<1>7. CASE takeOvf
  <2>1. locus = Overflow(o) /\ best = o /\ locus # InRange(NoIndex)
    BY <1>2, <1>7 DEF Overflow, InRange
  <2>2. o \in ovf /\ \A p \in ovf : p = o \/ Better(d, o, p)
    BY <1>5, <1>7
  <2>3. ASSUME NEW j \in S
        PROVE  Better(d, o, PxOf(j))
    <3>1. Better(d, o, PxOf(i)) /\ i \in S
      BY <1>3, <1>4, <1>7, <2>3
    <3>2. PxOf(j) = PxOf(i) \/ Better(d, PxOf(i), PxOf(j))
      BY <1>4, <2>3
    <3>3. o \in Int /\ PxOf(i) \in Int /\ PxOf(j) \in Int
      BY <1>3, <1>6, <2>2, <2>3, <3>1
    <3> QED BY <3>1, <3>2, <3>3 DEF Better
  <2>4. locus = Locate(o)
    BY <1>3, <2>1, <2>2
  <2> HIDE DEF best
  <2> QED BY <1>1, <2>1, <2>2, <2>3, <2>4 DEF best, locus, P
<1>8. CASE ~takeOvf /\ S = {}
  <2>1. ovf = {} /\ locus = InRange(NoIndex)
    BY <1>2, <1>4, <1>8
  <2> QED BY <1>1, <1>8, <2>1 DEF locus, P
<1>9. CASE ~takeOvf /\ S # {}
  <2>1. i \in S /\ i # NoIndex
    BY <1>3, <1>4, <1>9
  <2>2. locus = InRange(i) /\ best = PxOf(i) /\ locus # InRange(NoIndex)
    BY <1>2, <1>9, <2>1 DEF InRange
  <2>3. ASSUME NEW p \in ovf
        PROVE  Better(d, PxOf(i), p)
    <3>1. ~Better(d, o, PxOf(i))
      BY <1>9, <2>3
    <3>2. p = o \/ Better(d, o, p)
      BY <1>5, <2>3
    <3>3. o \in ovf
      BY <1>5, <2>3
    <3>4. o \in Int /\ p \in Int /\ PxOf(i) \in Int /\ PxOf(i) # o
      BY <1>3, <1>6, <2>1, <2>3, <3>3
    <3> QED BY <3>1, <3>2, <3>4 DEF Better
  <2>4. \A j \in S : PxOf(j) = PxOf(i) \/ Better(d, PxOf(i), PxOf(j))
    BY <1>4, <1>9
  <2>5. locus = Locate(PxOf(i))
    BY <1>6, <2>1, <2>2
  <2> HIDE DEF best
  <2> QED BY <1>1, <2>1, <2>2, <2>3, <2>4, <2>5 DEF best, locus, P
<1> QED BY <1>7, <1>8, <1>9

-----------------------------------------------------------------------------
(* A side whose index is sound.  Its levels are of a set LT, its overflow  *)
(* prices of a set PS; both are the caller's, who may keep orders in them. *)

\* The indices of the non-empty levels.
NonEmpty(s) == {i \in LevelIndices : s.levels[i].count > 0}

SideOver(LT, PS) ==
  [levels : [LevelIndices -> LT], bitmap : {BitmapOf(S) : S \in SUBSET LevelIndices},
   overflow : UNION {[D -> LT] : D \in SUBSET PS},
   hits : Nat, maxOffset : Nat]

\* The bitmap is, bit by bit, the one that represents the non-empty levels.
\* BitmapExact speaks of window indices only; without the rest a stray bit beyond
\* the window could survive a step.  The overflow map is finite even where PS is
\* not, so that it has a first and a last key.
Indexed(s, LT, PS) ==
  /\ s \in SideOver(LT, PS)
  /\ s.bitmap = BitmapOf(NonEmpty(s))
  /\ IsFiniteSet(DOMAIN s.overflow)
  /\ \A p \in DOMAIN s.overflow : s.overflow[p].count > 0 /\ Locate(p) = Overflow(p)

\* Levels that are counted, and prices that a level may have.
AreLevels(LT, PS) ==
  /\ EmptyLevel \in LT
  /\ \A l \in LT : l.count \in Nat
  /\ PS \in SUBSET Nat

\* A level is replaced, and the index follows its count.
SetLevel(s, px, lvl) ==
  AfterCountChange(PutLevel(s, Locate(px), lvl), Locate(px), LevelAt(s, Locate(px)).count)

LEMMA EmptyIndexed ==
  ASSUME NEW LT, NEW PS, AreLevels(LT, PS)
  PROVE  Indexed(EmptySide, LT, PS)
<1>1. EmptyLevel \in LT /\ ~(EmptyLevel.count > 0)
  BY DEF EmptyLevel, AreLevels
<1>2. NonEmpty(EmptySide) = {}
  BY <1>1 DEF NonEmpty, EmptySide
<1>3. EmptySide.bitmap = BitmapOf({})
  BY EmptyBitmapIsEmpty DEF EmptySide
<1>4. EmptyMap \in [{} -> LT] /\ DOMAIN EmptyMap = {}
  BY DEF EmptyMap
<1>5. EmptySide \in SideOver(LT, PS)
  BY <1>1, <1>3, <1>4 DEF EmptySide, SideOver
<1>6. EmptySide.overflow = EmptyMap
  BY DEF EmptySide
<1>7. IsFiniteSet(DOMAIN EmptyMap)
  BY <1>4, FS_EmptySet
<1> QED BY <1>2, <1>3, <1>4, <1>5, <1>6, <1>7 DEF Indexed

LEMMA OffsetIsNat == \A px \in Nat : AbsOffset(px) \in Nat
<1> SUFFICES ASSUME NEW px \in Nat PROVE AbsOffset(px) \in Nat
  OBVIOUS
<1>1. BasePx \in Nat /\ Tick \in Nat \ {0}
  BY GridIsValid
<1>2. (IF px < BasePx THEN BasePx - px ELSE px - BasePx) \in Nat
  BY <1>1
<1> QED BY <1>1, <1>2, DivMod DEF AbsOffset

\* The counters of an add leave the levels and their index alone.
LEMMA NoteAddIndexed ==
  ASSUME NEW LT, NEW PS, AreLevels(LT, PS), NEW s, Indexed(s, LT, PS), NEW px \in Nat
  PROVE  LET t == NoteAdd(s, Locate(px), px)
         IN  /\ Indexed(t, LT, PS)
             /\ t.levels = s.levels
             /\ t.overflow = s.overflow
             /\ t.hits = IF Locate(px).grid THEN s.hits ELSE s.hits + 1
             /\ t.maxOffset = IF AbsOffset(px) > s.maxOffset THEN AbsOffset(px) ELSE s.maxOffset
<1> DEFINE hits == IF Locate(px).grid THEN s.hits ELSE s.hits + 1
           offset == IF AbsOffset(px) > s.maxOffset THEN AbsOffset(px) ELSE s.maxOffset
           t == [levels |-> s.levels, bitmap |-> s.bitmap, overflow |-> s.overflow,
                 hits |-> hits, maxOffset |-> offset]
<1>1. AbsOffset(px) \in Nat
  BY OffsetIsNat
<1>2. s \in SideOver(LT, PS)
  BY DEF Indexed
<1>3. hits \in Nat /\ offset \in Nat
  BY <1>1, <1>2 DEF SideOver
<1>4. NoteAdd(s, Locate(px), px) = t
  <2> DEFINE u == [s EXCEPT !.maxOffset = offset]
  <2>1. NoteAdd(s, Locate(px), px) = [u EXCEPT !.hits = hits]
    BY DEF NoteAdd
  <2> HIDE DEF hits, offset
  <2>2. u = [levels |-> s.levels, bitmap |-> s.bitmap, overflow |-> s.overflow,
             hits |-> s.hits, maxOffset |-> offset]
    BY <1>2 DEF SideOver
  <2> HIDE DEF u
  <2>3. [u EXCEPT !.hits = hits] = t
    BY <2>2
  <2> QED BY <2>1, <2>3
<1> HIDE DEF hits, offset
<1>5. t \in SideOver(LT, PS)
  BY <1>2, <1>3 DEF SideOver
<1>6. NonEmpty(t) = NonEmpty(s)
  BY DEF NonEmpty
<1>7. Indexed(t, LT, PS)
  BY <1>5, <1>6 DEF Indexed
<1> QED BY <1>4, <1>7 DEF hits, offset

\* A level of the window: the bit follows the count.
LEMMA SetInRange ==
  ASSUME NEW LT, NEW PS, AreLevels(LT, PS), NEW s, Indexed(s, LT, PS),
         NEW px, NEW i \in LevelIndices, Locate(px) = InRange(i), NEW lvl \in LT
  PROVE  LET t == SetLevel(s, px, lvl)
         IN  /\ Indexed(t, LT, PS)
             /\ t.levels = [s.levels EXCEPT ![i] = lvl]
             /\ t.overflow = s.overflow
             /\ t.hits = s.hits /\ t.maxOffset = s.maxOffset
<1> DEFINE before == s.levels[i].count
           now == lvl.count
           levels == [s.levels EXCEPT ![i] = lvl]
           p == PutLevel(s, InRange(i), lvl)
           bitmap == IF before = 0 /\ now > 0 THEN SetBit(s.bitmap, i)
                     ELSE IF before > 0 /\ now = 0 THEN ClearBit(s.bitmap, i)
                     ELSE s.bitmap
           t == [levels |-> levels, bitmap |-> bitmap, overflow |-> s.overflow,
                 hits |-> s.hits, maxOffset |-> s.maxOffset]
<1>1. s \in SideOver(LT, PS) /\ s.bitmap = BitmapOf(NonEmpty(s))
  BY DEF Indexed
<1>2. now \in Nat
  BY DEF AreLevels
<1>3. before \in Nat
  BY <1>1 DEF SideOver, AreLevels
<1>4. InRange(i).grid = TRUE /\ InRange(i).at = i
  BY DEF InRange
<1>5. levels \in [LevelIndices -> LT] /\ levels[i] = lvl
      /\ \A j \in LevelIndices : j # i => levels[j] = s.levels[j]
  BY <1>1, <1>2 DEF SideOver
<1>6. p = [levels |-> levels, bitmap |-> s.bitmap, overflow |-> s.overflow,
           hits |-> s.hits, maxOffset |-> s.maxOffset]
  <2>1. p = [s EXCEPT !.levels = levels]
    BY <1>4 DEF PutLevel
  <2> HIDE DEF levels, p
  <2> QED BY <2>1, <1>1 DEF SideOver
<1>7. LevelAt(p, InRange(i)) = lvl
  BY <1>4, <1>5, <1>6 DEF LevelAt
<1>8. AfterCountChange(p, InRange(i), before) = t
  <2>1. p.bitmap = s.bitmap
    BY <1>6
  <2>2. AfterCountChange(p, InRange(i), before) = [p EXCEPT !.bitmap = bitmap]
    BY <1>2, <1>4, <1>7, <2>1 DEF AfterCountChange
  <2> HIDE DEF p, bitmap, levels, before, now
  <2> QED BY <2>2, <1>6
<1>9. SetLevel(s, px, lvl) = t
  BY <1>4, <1>8 DEF SetLevel, LevelAt
<1>10. NonEmpty(t) = IF now > 0 THEN NonEmpty(s) \cup {i} ELSE NonEmpty(s) \ {i}
  <2>1. t.levels = levels
    OBVIOUS
  <2> HIDE DEF t, levels
  <2>2. \A j \in LevelIndices : levels[j].count > 0 <=>
          IF j = i THEN now > 0 ELSE s.levels[j].count > 0
    BY <1>2, <1>5
  <2>3. NonEmpty(t) = {j \in LevelIndices : levels[j].count > 0}
        /\ NonEmpty(s) = {j \in LevelIndices : s.levels[j].count > 0}
    BY <2>1 DEF NonEmpty
  <2> HIDE DEF now
  <2>4. CASE now > 0
    BY <2>2, <2>3, <2>4
  <2>5. CASE ~(now > 0)
    BY <2>2, <2>3, <2>5
  <2> QED BY <2>4, <2>5
<1>11. i \in NonEmpty(s) <=> before > 0
  BY DEF NonEmpty
<1> HIDE DEF now
<1>12. bitmap = BitmapOf(NonEmpty(t))
  <2>1. CASE before = 0 /\ now > 0
    BY <2>1, <1>1, <1>10, SetBitAdds
  <2>2. CASE before > 0 /\ now = 0
    BY <2>2, <1>1, <1>10, ClearBitRemoves
  <2>3. CASE before = 0 /\ now = 0
    <3>1. NonEmpty(t) = NonEmpty(s)
      BY <2>3, <1>10, <1>11
    <3> QED BY <3>1, <2>3, <1>1
  <2>4. CASE before > 0 /\ now > 0
    <3>1. NonEmpty(t) = NonEmpty(s)
      BY <2>4, <1>10, <1>11
    <3> QED BY <3>1, <2>4, <1>1
  <2> QED BY <2>1, <2>2, <2>3, <2>4, <1>2, <1>3
<1>13. NonEmpty(t) \subseteq LevelIndices
  BY DEF NonEmpty
<1>14. t.bitmap = BitmapOf(NonEmpty(t)) /\ t.overflow = s.overflow
  BY <1>12
<1>15. t \in SideOver(LT, PS)
  BY <1>1, <1>5, <1>12, <1>13 DEF SideOver
<1>16. t.levels = levels /\ t.hits = s.hits /\ t.maxOffset = s.maxOffset
  OBVIOUS
<1> HIDE DEF t
<1>17. Indexed(t, LT, PS)
  BY <1>14, <1>15 DEF Indexed
<1> QED BY <1>9, <1>14, <1>16, <1>17

\* An overflow level: its key is in the map exactly while it holds an order.
LEMMA SetOverflow ==
  ASSUME NEW LT, NEW PS, AreLevels(LT, PS), NEW s, Indexed(s, LT, PS),
         NEW px \in PS, Locate(px) = Overflow(px), NEW lvl \in LT
  PROVE  LET t == SetLevel(s, px, lvl)
             put == With(s.overflow, px, lvl)
         IN  /\ Indexed(t, LT, PS)
             /\ t.levels = s.levels
             /\ t.overflow = IF lvl.count = 0 THEN Without(put, px) ELSE put
             /\ t.hits = s.hits /\ t.maxOffset = s.maxOffset
<1> DEFINE now == lvl.count
           before == LevelAt(s, Overflow(px)).count
           put == With(s.overflow, px, lvl)
           ovf == IF now = 0 THEN Without(put, px) ELSE put
           p == PutLevel(s, Overflow(px), lvl)
           t == [levels |-> s.levels, bitmap |-> s.bitmap, overflow |-> ovf,
                 hits |-> s.hits, maxOffset |-> s.maxOffset]
<1>1. s \in SideOver(LT, PS) /\ s.bitmap = BitmapOf(NonEmpty(s))
      /\ IsFiniteSet(DOMAIN s.overflow)
      /\ \A q \in DOMAIN s.overflow :
           s.overflow[q].count > 0 /\ Locate(q) = Overflow(q)
  BY DEF Indexed
<1>2. now \in Nat
  BY DEF AreLevels
<1>3. Overflow(px).grid = FALSE /\ Overflow(px).at = px
  BY DEF Overflow
<1>4. DOMAIN s.overflow \subseteq PS
      /\ \A q \in DOMAIN s.overflow : s.overflow[q] \in LT
  BY <1>1 DEF SideOver
<1>5. /\ DOMAIN put = DOMAIN s.overflow \cup {px}
      /\ put[px] = lvl
      /\ \A q \in DOMAIN s.overflow : q # px => put[q] = s.overflow[q]
  BY DEF With
<1>6. p = [levels |-> s.levels, bitmap |-> s.bitmap, overflow |-> put,
           hits |-> s.hits, maxOffset |-> s.maxOffset]
  <2>1. p = [s EXCEPT !.overflow = put]
    BY <1>3 DEF PutLevel
  <2> HIDE DEF put, p
  <2> QED BY <2>1, <1>1 DEF SideOver
<1>7. LevelAt(p, Overflow(px)) = lvl
  BY <1>3, <1>5, <1>6 DEF LevelAt
<1>8. AfterCountChange(p, Overflow(px), before) = t
  <2>1. p.overflow = put
    BY <1>6
  <2>2. AfterCountChange(p, Overflow(px), before)
          = IF now = 0 THEN [p EXCEPT !.overflow = Without(put, px)] ELSE p
    BY <1>2, <1>3, <1>7, <2>1 DEF AfterCountChange
  <2> HIDE DEF p, put, now
  <2> QED BY <2>2, <1>6
<1>9. SetLevel(s, px, lvl) = t
  BY <1>8 DEF SetLevel
<1> HIDE DEF now
<1>10. /\ DOMAIN ovf \subseteq PS
       /\ \A q \in DOMAIN ovf : /\ ovf[q] \in LT
                                /\ ovf[q].count > 0
                                /\ Locate(q) = Overflow(q)
  <2> HIDE DEF put
  <2>1. CASE now = 0
    <3>1. DOMAIN ovf = DOMAIN put \ {px} /\ \A q \in DOMAIN ovf : ovf[q] = put[q]
      BY <2>1 DEF Without
    <3> QED BY <3>1, <1>1, <1>4, <1>5
  <2>2. CASE now # 0
    <3>1. ovf = put
      BY <2>2
    <3>2. lvl.count > 0
      BY <1>2, <2>2 DEF now
    <3> HIDE DEF ovf
    <3> QED BY <3>1, <3>2, <1>1, <1>4, <1>5
  <2> QED BY <2>1, <2>2
<1>10a. IsFiniteSet(DOMAIN ovf)
  <2>1. IsFiniteSet(DOMAIN put)
    BY <1>1, <1>5, FS_AddElement
  <2> HIDE DEF put
  <2>2. DOMAIN ovf \subseteq DOMAIN put
    BY DEF Without
  <2> QED BY <2>1, <2>2, FS_Subset
<1>11. ovf \in [DOMAIN ovf -> LT]
  <2>1. ovf = [q \in DOMAIN ovf |-> ovf[q]]
    BY DEF With, Without
  <2> HIDE DEF ovf
  <2> QED BY <2>1, <1>10
<1>11a. t.overflow = ovf /\ t.levels = s.levels /\ t.hits = s.hits /\ t.maxOffset = s.maxOffset
  OBVIOUS
<1>12. NonEmpty(t) = NonEmpty(s)
  BY DEF NonEmpty
<1>13. t \in SideOver(LT, PS)
  <2> HIDE DEF ovf
  <2> QED BY <1>1, <1>10, <1>11 DEF SideOver
<1>14. t.bitmap = BitmapOf(NonEmpty(t))
  BY <1>1, <1>12
<1> HIDE DEF t
<1>15. Indexed(t, LT, PS)
  <2> HIDE DEF ovf
  <2> QED BY <1>10, <1>10a, <1>11a, <1>13, <1>14 DEF Indexed
<1> QED BY <1>9, <1>11a, <1>15 DEF now

\* Two prices never share a level.
LEMMA LocateApart ==
  ASSUME NEW p \in Int, NEW q \in Int, Locate(p) = Locate(q)
  PROVE  p = q
<1>1. \A i, j \in Int : InRange(i) = InRange(j) => i = j
  BY DEF InRange
<1>2. \A i, j : Overflow(i) # InRange(j) /\ (Overflow(i) = Overflow(j) => i = j)
  BY DEF InRange, Overflow
<1>3. LevelIndices \subseteq Int
  BY DEF LevelIndices
<1>4. CASE Locate(p) = Overflow(p)
  <2>1. Locate(q) = Overflow(q)
    BY <1>2, <1>4, LocateCases
  <2> QED BY <1>2, <1>4, <2>1
<1>5. CASE \E i \in LevelIndices : Locate(p) = InRange(i) /\ p = PxOf(i)
  <2>1. PICK i \in LevelIndices : Locate(p) = InRange(i) /\ p = PxOf(i)
    BY <1>5
  <2>2. PICK j \in LevelIndices : Locate(q) = InRange(j) /\ q = PxOf(j)
    <3>1. Locate(q) # Overflow(q)
      BY <1>2, <2>1
    <3> QED BY <3>1, LocateCases
  <2>3. i = j
    BY <1>1, <1>3, <2>1, <2>2
  <2> QED BY <2>1, <2>2, <2>3
<1> QED BY <1>4, <1>5, LocateCases

\* The level of every price, in an indexed side and after a level is set.
LEMMA LevelIsLevel ==
  ASSUME NEW LT, NEW PS, AreLevels(LT, PS), NEW s, Indexed(s, LT, PS), NEW p \in Int
  PROVE  LevelAt(s, Locate(p)) \in LT
<1>1. s \in SideOver(LT, PS)
  BY DEF Indexed
<1>2. CASE \E i \in LevelIndices : Locate(p) = InRange(i)
  BY <1>1, <1>2 DEF LevelAt, InRange, SideOver
<1>3. CASE Locate(p) = Overflow(p)
  <2>1. PICK D \in SUBSET PS : s.overflow \in [D -> LT]
    BY <1>1 DEF SideOver
  <2> QED BY <1>3, <2>1 DEF LevelAt, Overflow, AreLevels
<1> QED BY <1>2, <1>3, LocateCases

LEMMA SetIndexed ==
  ASSUME NEW LT, NEW PS, AreLevels(LT, PS), NEW s, Indexed(s, LT, PS),
         NEW px \in PS, NEW lvl \in LT, lvl.count = 0 => lvl = EmptyLevel
  PROVE  LET t == SetLevel(s, px, lvl)
         IN  /\ Indexed(t, LT, PS)
             /\ t.hits = s.hits /\ t.maxOffset = s.maxOffset
             /\ LevelAt(t, Locate(px)) = lvl
             /\ \A p \in Int : p # px => LevelAt(t, Locate(p)) = LevelAt(s, Locate(p))
<1> DEFINE t == SetLevel(s, px, lvl)
<1>1. s \in SideOver(LT, PS) /\ px \in Int
  BY DEF Indexed, AreLevels
<1>2. CASE \E i \in LevelIndices : Locate(px) = InRange(i)
  <2>1. PICK i \in LevelIndices : Locate(px) = InRange(i)
    BY <1>2
  <2>2. /\ Indexed(t, LT, PS)
        /\ t.levels = [s.levels EXCEPT ![i] = lvl]
        /\ t.overflow = s.overflow
        /\ t.hits = s.hits /\ t.maxOffset = s.maxOffset
    BY <2>1, SetInRange
  <2> HIDE DEF t
  <2>3. DOMAIN s.levels = LevelIndices
    BY <1>1 DEF SideOver
  <2>4. LevelAt(t, Locate(px)) = lvl
    BY <2>1, <2>2, <2>3 DEF LevelAt, InRange
  <2>5. ASSUME NEW p \in Int, p # px
        PROVE  LevelAt(t, Locate(p)) = LevelAt(s, Locate(p))
    <3>1. Locate(p) # InRange(i)
      BY <1>1, <2>1, <2>5, LocateApart
    <3>2. CASE Locate(p) = Overflow(p)
      BY <2>2, <3>2 DEF LevelAt, Overflow
    <3>3. CASE \E j \in LevelIndices : Locate(p) = InRange(j)
      <4>1. PICK j \in LevelIndices : Locate(p) = InRange(j)
        BY <3>3
      <4>2. j # i
        BY <3>1, <4>1
      <4> QED BY <2>2, <2>3, <4>1, <4>2 DEF LevelAt, InRange
    <3> QED BY <3>2, <3>3, LocateCases
  <2> QED BY <2>2, <2>4, <2>5 DEF t
<1>3. CASE Locate(px) = Overflow(px)
  <2> DEFINE put == With(s.overflow, px, lvl)
             ovf == IF lvl.count = 0 THEN Without(put, px) ELSE put
  <2>1. /\ Indexed(t, LT, PS)
        /\ t.levels = s.levels
        /\ t.overflow = ovf
        /\ t.hits = s.hits /\ t.maxOffset = s.maxOffset
    BY <1>3, SetOverflow
  <2> HIDE DEF t
  <2>2. /\ px \in DOMAIN ovf <=> lvl.count # 0
        /\ px \in DOMAIN ovf => ovf[px] = lvl
        /\ \A p : p # px => (p \in DOMAIN ovf <=> p \in DOMAIN s.overflow)
        /\ \A p \in DOMAIN s.overflow : p # px => ovf[p] = s.overflow[p]
    BY DEF With, Without
  <2> HIDE DEF ovf
  <2>3. LevelAt(t, Locate(px)) = lvl
    BY <1>3, <2>1, <2>2 DEF LevelAt, Overflow
  <2>4. ASSUME NEW p \in Int, p # px
        PROVE  LevelAt(t, Locate(p)) = LevelAt(s, Locate(p))
    <3>1. CASE Locate(p) = Overflow(p)
      BY <2>1, <2>2, <2>4, <3>1 DEF LevelAt, Overflow
    <3>2. CASE \E j \in LevelIndices : Locate(p) = InRange(j)
      BY <2>1, <3>2 DEF LevelAt, InRange
    <3> QED BY <3>1, <3>2, LocateCases
  <2> QED BY <2>1, <2>3, <2>4 DEF t
<1> QED BY <1>1, <1>2, <1>3, LocateCases

\* A level replaced by one with as many orders leaves the index as it is.
LEMMA PutIsSet ==
  ASSUME NEW LT, NEW PS, AreLevels(LT, PS), NEW s, Indexed(s, LT, PS),
         NEW px \in PS, NEW lvl \in LT,
         lvl.count = LevelAt(s, Locate(px)).count, lvl.count # 0
  PROVE  PutLevel(s, Locate(px), lvl) = SetLevel(s, px, lvl)
<1> DEFINE p == PutLevel(s, Locate(px), lvl)
<1>1. s \in SideOver(LT, PS) /\ px \in Int /\ lvl.count \in Nat
  BY DEF Indexed, AreLevels
<1>2. CASE \E i \in LevelIndices : Locate(px) = InRange(i)
  <2>1. PICK i \in LevelIndices : Locate(px) = InRange(i)
    BY <1>2
  <2> DEFINE levels == [s.levels EXCEPT ![i] = lvl]
  <2>2. levels[i] = lvl
    BY <1>1 DEF SideOver
  <2>3. p = [s EXCEPT !.levels = levels]
    BY <2>1 DEF PutLevel, InRange
  <2> HIDE DEF levels, p
  <2>4. p.levels = levels /\ [p EXCEPT !.bitmap = p.bitmap] = p
    BY <1>1, <2>3 DEF SideOver
  <2>5. LevelAt(p, Locate(px)) = lvl
    BY <2>1, <2>2, <2>4 DEF LevelAt, InRange
  <2>6. AfterCountChange(p, Locate(px), lvl.count) = [p EXCEPT !.bitmap = p.bitmap]
    BY <1>1, <2>1, <2>5 DEF AfterCountChange, InRange
  <2> QED BY <2>4, <2>6 DEF SetLevel, p
<1>3. CASE Locate(px) = Overflow(px)
  <2> DEFINE put == With(s.overflow, px, lvl)
  <2>2. px \in DOMAIN put /\ put[px] = lvl
    BY DEF With
  <2>3. p = [s EXCEPT !.overflow = put]
    BY <1>3 DEF PutLevel, Overflow
  <2> HIDE DEF put, p
  <2>4. p.overflow = put
    BY <1>1, <2>3 DEF SideOver
  <2>5. LevelAt(p, Locate(px)) = lvl
    BY <1>3, <2>2, <2>4 DEF LevelAt, Overflow
  <2>6. AfterCountChange(p, Locate(px), lvl.count) = p
    BY <1>3, <2>5 DEF AfterCountChange, Overflow
  <2> QED BY <2>6 DEF SetLevel, p
<1> QED BY <1>1, <1>2, <1>3, LocateCases

-----------------------------------------------------------------------------
(* One side on its own (SideLevels)                                        *)

\* The strengthening: the side is indexed, with levels that hold
\* nothing but a count, at prices of the instance.
SideInv == bidOrAsk \in {"Bid", "Ask"} /\ Indexed(half, CountLevel, LevelPrices)

-----------------------------------------------------------------------------
(* The steps                                                               *)

LEMMA CountsAreLevels ==
  /\ AreLevels(CountLevel, LevelPrices)
  /\ \A n \in Nat : LET lvl == [EmptyLevel EXCEPT !.count = n]
                    IN  /\ lvl \in CountLevel /\ lvl.count = n
                        /\ n = 0 => lvl = EmptyLevel
<1>1. LevelPrices \in SUBSET Nat
  BY SideArguments
<1>2. EmptyLevel \in CountLevel /\ \A l \in CountLevel : l.count \in Nat
  BY DEF EmptyLevel, CountLevel
<1>3. ASSUME NEW n \in Nat
      PROVE  LET lvl == [EmptyLevel EXCEPT !.count = n]
             IN  /\ lvl \in CountLevel /\ lvl.count = n
                 /\ n = 0 => lvl = EmptyLevel
  BY DEF EmptyLevel, CountLevel
<1> QED BY <1>1, <1>2, <1>3 DEF AreLevels

\* A count that changes sets a level.
LEMMA RecountIndexed ==
  ASSUME NEW s, Indexed(s, CountLevel, LevelPrices), NEW px \in LevelPrices, NEW now \in Nat
  PROVE  Indexed(Recount(s, px, LevelAt(s, Locate(px)).count, now), CountLevel, LevelPrices)
<1> DEFINE lvl == [EmptyLevel EXCEPT !.count = now]
<1>1. lvl \in CountLevel /\ (lvl.count = 0 => lvl = EmptyLevel)
  BY CountsAreLevels
<1>2. Recount(s, px, LevelAt(s, Locate(px)).count, now) = SetLevel(s, px, lvl)
  BY DEF Recount, SetLevel
<1> HIDE DEF lvl
<1>3. Indexed(SetLevel(s, px, lvl), CountLevel, LevelPrices)
  BY <1>1, CountsAreLevels, SetIndexed
<1> QED BY <1>2, <1>3

LEMMA CountIsNat ==
  ASSUME NEW s, Indexed(s, CountLevel, LevelPrices), NEW px \in LevelPrices
  PROVE  LevelAt(s, Locate(px)).count \in Nat
<1>1. px \in Int
  BY SideArguments
<1> QED BY <1>1, CountsAreLevels, LevelIsLevel DEF AreLevels

LEMMA InitEstablishes == SideInit => SideInv
BY EmptyIndexed, CountsAreLevels DEF SideInit, SideInv

LEMMA StepPreserves == SideInv /\ [SideNext]_sideVars => SideInv'
<1> SUFFICES ASSUME SideInv, [SideNext]_sideVars PROVE SideInv'
  OBVIOUS
<1>1. bidOrAsk \in {"Bid", "Ask"} /\ Indexed(half, CountLevel, LevelPrices)
  BY DEF SideInv
<1>2. ASSUME NEW px \in LevelPrices, OrderComes(px)
      PROVE  SideInv'
  <2> DEFINE before == LevelAt(half, Locate(px)).count
             counted == NoteAdd(half, Locate(px), px)
  <2>1. /\ Indexed(counted, CountLevel, LevelPrices)
        /\ counted.levels = half.levels
        /\ counted.overflow = half.overflow
    BY <1>1, CountsAreLevels, SideArguments, NoteAddIndexed
  <2>2. LevelAt(counted, Locate(px)) = LevelAt(half, Locate(px))
    BY <2>1 DEF LevelAt
  <2>3. before + 1 \in Nat
    BY <1>1, CountIsNat
  <2>4. half' = Recount(counted, px, before, before + 1) /\ bidOrAsk' = bidOrAsk
    BY <1>2 DEF OrderComes
  <2> HIDE DEF before, counted
  <2>5. Indexed(Recount(counted, px, before, before + 1), CountLevel, LevelPrices)
    BY <2>1, <2>2, <2>3, RecountIndexed DEF before
  <2>6. Indexed(half', CountLevel, LevelPrices)
    BY <2>4, <2>5
  <2> QED BY <1>1, <2>4, <2>6 DEF SideInv, Indexed, NonEmpty, SideOver, CountLevel
<1>3. ASSUME NEW px \in LevelPrices, OrderGoes(px)
      PROVE  SideInv'
  <2> DEFINE before == LevelAt(half, Locate(px)).count
  <2>1. before - 1 \in Nat
    BY <1>1, <1>3, CountIsNat DEF OrderGoes
  <2>2. half' = Recount(half, px, before, before - 1) /\ bidOrAsk' = bidOrAsk
    BY <1>3 DEF OrderGoes
  <2>3. Indexed(half', CountLevel, LevelPrices)
    BY <1>1, <2>1, <2>2, RecountIndexed
  <2> QED BY <1>1, <2>2, <2>3 DEF SideInv, Indexed, NonEmpty, SideOver, CountLevel
<1>4. CASE UNCHANGED sideVars
  BY <1>1, <1>4 DEF sideVars, SideInv, Indexed, NonEmpty
<1> QED BY <1>2, <1>3, <1>4 DEF SideNext

LEMMA IndexedAlways == SideSpec => []SideInv
BY InitEstablishes, StepPreserves, PTL DEF SideSpec

-----------------------------------------------------------------------------
(* What the invariant gives                                                *)

\* Type correctness: every bit lies in its word, every word and every overflow
\* level is one the side may have.
THEOREM TypeCorrect == SideSpec => []HalfTypeOK
<1>1. SideInv => HalfTypeOK
  <2> SUFFICES ASSUME SideInv PROVE HalfTypeOK
    OBVIOUS
  <2>1. half \in SideOver(CountLevel, LevelPrices) /\ bidOrAsk \in {"Bid", "Ask"}
    BY DEF SideInv, Indexed
  <2>2. \A S : BitmapOf(S) \in [words : [WordIndices -> SUBSET (0 .. WordBits - 1)],
                                summary : SUBSET WordIndices]
    BY DEF BitmapOf, BitsIn
  <2>3. PICK D \in SUBSET LevelPrices : half.overflow \in [D -> CountLevel]
    BY <2>1 DEF SideOver
  <2>4. PICK S : half.bitmap = BitmapOf(S)
    BY <2>1 DEF SideOver
  <2>5. /\ half = [levels |-> half.levels, bitmap |-> half.bitmap, overflow |-> half.overflow,
                 hits |-> half.hits, maxOffset |-> half.maxOffset]
        /\ half.levels \in [LevelIndices -> CountLevel]
        /\ half.hits \in Nat /\ half.maxOffset \in Nat
    BY <2>1 DEF SideOver
  <2>6. DOMAIN half.overflow = D
    BY <2>3
  <2> QED BY <2>1, <2>2, <2>3, <2>4, <2>5, <2>6 DEF HalfTypeOK
<1> QED BY <1>1, IndexedAlways, PTL

\* I6: after any sequence of orders coming and going, the bits are exactly the
\* non-empty levels, the summary bits exactly the non-empty words, and the
\* overflow map holds no empty level and no price of the window.
THEOREM IndexExact == SideSpec => []CountsIndexed
<1>1. SideInv => CountsIndexed
  <2> SUFFICES ASSUME SideInv PROVE CountsIndexed
    OBVIOUS
  <2>1. Indexed(half, CountLevel, LevelPrices)
    BY DEF SideInv
  <2>2. \A i \in LevelIndices : IsSet(half.bitmap, i) <=> half.levels[i].count > 0
    BY <2>1, IsSetIsMember DEF Indexed, NonEmpty
  <2>3. \A w \in WordIndices : w \in half.bitmap.summary <=> half.bitmap.words[w] # {}
    BY <2>1 DEF Indexed, BitmapOf
  <2> QED BY <2>1, <2>2, <2>3 DEF CountsIndexed, BitmapExact, Indexed
<1> QED BY <1>1, IndexedAlways, PTL

\* The unused bits of the last word stay clear.
THEOREM NoBitBeyondWindow == SideSpec => []NoStrayBits
<1>1. SideInv => NoStrayBits
  BY DEF SideInv, Indexed, NonEmpty, BitmapOf, BitsIn, NoStrayBits
<1> QED BY <1>1, IndexedAlways, PTL

\* The three together: what a run checks as the soundness of the index.
THEOREM IndexIsSound == SideSpec => []IndexSound
BY TypeCorrect, IndexExact, NoBitBeyondWindow, PTL DEF IndexSound

\* prev_set and next_set find, from any index, the nearest non-empty level, over
\* word boundaries and empty words.
THEOREM NeighboursFound == SideSpec => []NeighboursExact
<1>1. SideInv => NeighboursExact
  <2> SUFFICES ASSUME SideInv, NEW i \in LevelIndices
               PROVE  LET set == NonEmpty(half)
                      IN  /\ PrevSet(half.bitmap, i)
                               = IF \E j \in set : j < i THEN Max({j \in set : j < i})
                                                         ELSE NoIndex
                          /\ NextSet(half.bitmap, i)
                               = IF \E j \in set : j > i THEN Min({j \in set : j > i})
                                                         ELSE NoIndex
    BY DEF NeighboursExact, NonEmpty
  <2> DEFINE S == NonEmpty(half)
  <2>1. S \in SUBSET LevelIndices /\ half.bitmap = BitmapOf(S)
    BY DEF NonEmpty, SideInv, Indexed
  <2> HIDE DEF S
  <2>2. /\ {j \in S : j < i} = {} <=> ~\E j \in S : j < i
        /\ {j \in S : j > i} = {} <=> ~\E j \in S : j > i
    OBVIOUS
  <2>3. PrevSet(half.bitmap, i) = IF {j \in S : j < i} = {} THEN NoIndex
                                ELSE Max({j \in S : j < i})
    BY <2>1, PrevFound
  <2>4. NextSet(half.bitmap, i) = IF {j \in S : j > i} = {} THEN NoIndex
                                ELSE Min({j \in S : j > i})
    BY <2>1, NextFound
  <2> QED BY <2>2, <2>3, <2>4 DEF S
<1> QED BY <1>1, IndexedAlways, PTL

-----------------------------------------------------------------------------
(* The best price, and the walk                                            *)

LEMMA SideWalkable ==
  ASSUME SideInv
  PROVE  /\ bidOrAsk \in {"Bid", "Ask"} /\ Walkable(half, NonEmpty(half))
         /\ OccupiedPrices = Held(half, NonEmpty(half))
<1> DEFINE S == NonEmpty(half)
<1>1. bidOrAsk \in {"Bid", "Ask"} /\ Indexed(half, CountLevel, LevelPrices)
  BY DEF SideInv
<1>2. DOMAIN half.overflow \subseteq LevelPrices /\ LevelPrices \subseteq Int
  BY <1>1, SideArguments DEF Indexed, SideOver
<1>3. S \in SUBSET LevelIndices /\ half.bitmap = BitmapOf(S)
  BY <1>1 DEF NonEmpty, Indexed
<1>4. OccupiedPrices = Held(half, S)
  BY <1>1 DEF OccupiedPrices, Held, NonEmpty, Indexed
<1> HIDE DEF S
<1>5. Walkable(half, S)
  BY <1>1, <1>2, <1>3 DEF Walkable, Indexed
<1> QED BY <1>1, <1>4, <1>5 DEF S

\* best(), from one bit of the array and one key of the overflow map, is the
\* extreme of all the non-empty levels, and nothing only when there is none.
THEOREM BestFound == SideSpec => []BestIsExtreme
<1>1. SideInv => BestIsExtreme
  BY SideWalkable, BestLocusIsBest DEF BestIsExtreme
<1> QED BY <1>1, IndexedAlways, PTL

\* The merge of the bitmap walk with the overflow map yields every price that
\* has orders, once, best first: the walk is the priority order of those prices.
THEOREM WalkSorted == SideSpec => []WalkIsSorted
<1>1. SideInv => WalkIsSorted
  <2> SUFFICES ASSUME SideInv PROVE WalkIsSorted
    OBVIOUS
  <2> DEFINE S == NonEmpty(half)
             P == Held(half, S)
             walk == BestFirst(half, bidOrAsk)
             n == Cardinality(P)
  <2>1. bidOrAsk \in {"Bid", "Ask"} /\ Walkable(half, S) /\ OccupiedPrices = P
    BY SideWalkable
  <2> HIDE DEF S
  <2>4. walk = InPriority(P, bidOrAsk)
    BY <2>1, BestFirstIsInPriority
  <2>5. P \in SUBSET Int /\ IsFiniteSet(P) /\ n \in Nat
    BY <2>1, HeldFinite, FS_CardinalityType
  <2> HIDE DEF P, walk
  <2>6. /\ walk \in Seq(P) /\ Len(walk) = n
        /\ \A k \in 1 .. n : Ahead(P, bidOrAsk, walk[k]) = k - 1
    BY <2>4, <2>5, InPriorityLists
  <2> HIDE DEF n
  <2>7. DOMAIN walk = 1 .. n /\ \A k \in 1 .. n : walk[k] \in P
    BY <2>6, LenProperties, ElementOfSeq
  <2>8. ASSUME NEW p \in P PROVE \E k \in 1 .. n : walk[k] = p
    <3> DEFINE k == Ahead(P, bidOrAsk, p) + 1
    <3>1. Ahead(P, bidOrAsk, p) \in 0 .. n - 1
      BY <2>5, AheadOrders DEF n
    <3>2. k \in 1 .. n /\ k - 1 = Ahead(P, bidOrAsk, p)
      BY <2>5, <3>1
    <3>3. walk[k] \in P /\ Ahead(P, bidOrAsk, walk[k]) = Ahead(P, bidOrAsk, p)
      BY <2>6, <2>7, <3>2
    <3> HIDE DEF k
    <3>4. ~Better(bidOrAsk, walk[k], p) /\ ~Better(bidOrAsk, p, walk[k])
      <4>1. Better(bidOrAsk, walk[k], p) => Ahead(P, bidOrAsk, walk[k]) < Ahead(P, bidOrAsk, p)
        BY <2>5, <3>3, AheadOrders
      <4>2. Better(bidOrAsk, p, walk[k]) => Ahead(P, bidOrAsk, p) < Ahead(P, bidOrAsk, walk[k])
        BY <2>5, <3>3, AheadOrders
      <4> QED BY <3>1, <3>3, <4>1, <4>2
    <3>5. walk[k] = p
      <4>1. walk[k] \in Int /\ p \in Int
        BY <2>5, <3>3
      <4> QED BY <2>1, <3>4, <4>1 DEF Better
    <3> QED BY <3>2, <3>5
  <2>9. {walk[k] : k \in DOMAIN walk} = P
    BY <2>7, <2>8
  <2>10. ASSUME NEW k \in 1 .. n - 1 PROVE Better(bidOrAsk, walk[k], walk[k+1])
    <3>1. k \in 1 .. n /\ k + 1 \in 1 .. n /\ k < k + 1
      BY <2>5
    <3> QED BY <2>4, <2>5, <3>1, InPrioritySorted DEF n
  <2> QED BY <2>1, <2>6, <2>9, <2>10 DEF WalkIsSorted, walk
<1> QED BY <1>1, IndexedAlways, PTL
=============================================================================
