------------------------------- MODULE Levels -------------------------------
(***************************************************************************)
(* The price levels of one side of ArrayBook (lob-core/src/levels.rs): an  *)
(* array of levels indexed by tick offset from a base price, a two-level   *)
(* bitmap of its non-empty ones, and an ordered overflow map for prices    *)
(* off the grid or out of the window.                                      *)
(*                                                                         *)
(* A side is a value [levels, bitmap, overflow, hits, maxOffset].  The     *)
(* bitmap's words are sets of bit numbers below WordBits (64 in the code). *)
(***************************************************************************)
EXTENDS Integers, Sequences, FiniteSetsExt, Maps, Slab, PriceTime

CONSTANTS
  BasePx,    \* price of the level with index 0
  Tick,      \* distance of two neighbouring levels
  NLevels,   \* size of the window
  WordBits   \* bits of a bitmap word, and of the summary word

\* What ArrayBook::new asserts of its configuration.
ASSUME GridIsValid ==
  /\ BasePx \in Nat \ {0}
  /\ Tick \in Nat \ {0}
  /\ WordBits \in Nat \ {0}
  /\ NLevels \in 1 .. WordBits * WordBits

LevelIndices == 0 .. NLevels - 1

-----------------------------------------------------------------------------
(* The grid                                                                *)

InRange(i) == [grid |-> TRUE, at |-> i]
Overflow(px) == [grid |-> FALSE, at |-> px]

\* Where a price lands.
Locate(px) ==
  LET d == px - BasePx
  IN  IF d >= 0 /\ d % Tick = 0 /\ d \div Tick < NLevels
      THEN InRange(d \div Tick)
      ELSE Overflow(px)

PxOf(i) == BasePx + i * Tick

\* |offset(px)|: Rust divides toward zero, so the sign is taken off first.
AbsOffset(px) == (IF px < BasePx THEN BasePx - px ELSE px - BasePx) \div Tick

-----------------------------------------------------------------------------
(* The bitmap.  No index is -1.                                            *)

NoIndex == -1

WordOf(i) == i \div WordBits
BitOf(i) == i % WordBits
IndexOf(w, bit) == w * WordBits + bit

WordIndices == 0 .. WordOf(NLevels - 1)

EmptyBitmap == [words |-> [w \in WordIndices |-> {}], summary |-> {}]

IsSet(bm, i) == BitOf(i) \in bm.words[WordOf(i)]

SetBit(bm, i) ==
  [words   |-> [bm.words EXCEPT ![WordOf(i)] = @ \cup {BitOf(i)}],
   summary |-> bm.summary \cup {WordOf(i)}]

ClearBitAndWord(bm, i) ==   \* mutant: the summary bit goes with any bit
  [words   |-> [bm.words EXCEPT ![WordOf(i)] = @ \ {BitOf(i)}],
   summary |-> bm.summary \ {WordOf(i)}]

ClearBit(bm, i) ==
  LET words == [bm.words EXCEPT ![WordOf(i)] = @ \ {BitOf(i)}]
  IN  [words   |-> words,
       summary |-> IF words[WordOf(i)] = {} THEN bm.summary \ {WordOf(i)}
                                            ELSE bm.summary]

HighestSet(bm) ==
  LET w == Max(bm.summary)
  IN  IF bm.summary = {} THEN NoIndex ELSE IndexOf(w, Max(bm.words[w]))

LowestSet(bm) ==
  LET w == Min(bm.summary)
  IN  IF bm.summary = {} THEN NoIndex ELSE IndexOf(w, Min(bm.words[w]))

PrevOrSameSet(bm, i) ==     \* mutant: not strictly below
  LET own == {bit \in bm.words[WordOf(i)] : bit <= BitOf(i)}
      below == {w \in bm.summary : w < WordOf(i) /\ bm.words[w] # {}}
  IN  IF own # {} THEN IndexOf(WordOf(i), Max(own))
      ELSE IF below = {} THEN NoIndex
      ELSE IndexOf(Max(below), Max(bm.words[Max(below)]))

\* The next set index strictly below i: in its own word, else in the next lower
\* word the summary names.
PrevSet(bm, i) ==
  LET own == {bit \in bm.words[WordOf(i)] : bit < BitOf(i)}
      below == {w \in bm.summary : w < WordOf(i) /\ bm.words[w] # {}}
  IN  IF own # {} THEN IndexOf(WordOf(i), Max(own))
      ELSE IF below = {} THEN NoIndex
      ELSE IndexOf(Max(below), Max(bm.words[Max(below)]))

NextSetInWord(bm, i) ==     \* mutant: stops at the word boundary
  LET own == {bit \in bm.words[WordOf(i)] : bit > BitOf(i)}
  IN  IF own # {} THEN IndexOf(WordOf(i), Min(own)) ELSE NoIndex

\* The next set index strictly above i.
NextSet(bm, i) ==
  LET own == {bit \in bm.words[WordOf(i)] : bit > BitOf(i)}
      above == {w \in bm.summary : w > WordOf(i) /\ bm.words[w] # {}}
  IN  IF own # {} THEN IndexOf(WordOf(i), Min(own))
      ELSE IF above = {} THEN NoIndex
      ELSE IndexOf(Min(above), Min(bm.words[Min(above)]))

-----------------------------------------------------------------------------
(* One side                                                                *)

EmptyLevel == [head |-> Nil, tail |-> Nil, qty |-> 0, count |-> 0]

EmptySide ==
  [levels    |-> [i \in LevelIndices |-> EmptyLevel],
   bitmap    |-> EmptyBitmap,
   overflow  |-> EmptyMap,
   hits      |-> 0,
   maxOffset |-> 0]

\* get and get_or_insert: an overflow level that is not in the map is empty.
LevelAt(sl, locus) ==
  IF locus.grid THEN sl.levels[locus.at]
  ELSE IF locus.at \in DOMAIN sl.overflow THEN sl.overflow[locus.at]
  ELSE EmptyLevel

PutLevel(sl, locus, lvl) ==
  IF locus.grid
  THEN [sl EXCEPT !.levels[locus.at] = lvl]
  ELSE [sl EXCEPT !.overflow = With(@, locus.at, lvl)]

\* The counters of an add.
NoteAdd(sl, locus, px) ==
  [sl EXCEPT !.maxOffset = IF AbsOffset(px) > @ THEN AbsOffset(px) ELSE @,
             !.hits = IF locus.grid THEN @ ELSE @ + 1]

\* Keep the bitmap, or the map, in step with a level whose count has changed
\* from `before' to what it is now.
AfterCountChange(sl, locus, before) ==
  LET now == LevelAt(sl, locus).count
      bitmap == IF before = 0 /\ now > 0 THEN SetBit(sl.bitmap, locus.at)
                ELSE IF before > 0 /\ now = 0 THEN ClearBit(sl.bitmap, locus.at)
                ELSE sl.bitmap
  IN  IF locus.grid THEN [sl EXCEPT !.bitmap = bitmap]
      ELSE IF now = 0
      THEN [sl EXCEPT !.overflow = Without(@, locus.at)]
      ELSE sl

\* I6: the bits are exactly the non-empty levels, the summary bits exactly the
\* non-empty words, and the overflow map keeps no empty level and no price that
\* has a place in the window.
BitmapExact(sl) ==
  /\ \A i \in LevelIndices : IsSet(sl.bitmap, i) <=> sl.levels[i].count > 0
  /\ \A w \in WordIndices : w \in sl.bitmap.summary <=> sl.bitmap.words[w] # {}
  /\ \A p \in DOMAIN sl.overflow :
       sl.overflow[p].count > 0 /\ Locate(p) = Overflow(p)

-----------------------------------------------------------------------------
(* Reading a side, best price first: a bid is better when higher.          *)

\* The extreme key of the overflow map, among the keys ps.
BestKey(side, ps) == IF side = "Bid" THEN Max(ps) ELSE Min(ps)

ArrayBest(sl, side) ==
  IF side = "Bid" THEN HighestSet(sl.bitmap) ELSE LowestSet(sl.bitmap)

ArrayFirstLocus(sl, side) ==  \* mutant: the overflow map only when the array is empty
  LET i == ArrayBest(sl, side)
      ovf == DOMAIN sl.overflow
  IN  IF ovf # {} /\ i = NoIndex THEN Overflow(BestKey(side, ovf)) ELSE InRange(i)

\* The best price: of the array, unless the overflow map has a better one.
BestLocus(sl, side) ==
  LET i == ArrayBest(sl, side)
      ovf == DOMAIN sl.overflow
      o == BestKey(side, ovf)
  IN  IF ovf # {} /\ (i = NoIndex \/ Better(side, o, PxOf(i)))
      THEN Overflow(o)
      ELSE InRange(i)

\* BestFirst: the array walked through the bitmap merged with the overflow map.
\* A step yields one locus; the cursor and the remaining keys are its state.
IterStart(sl, side) ==
  [cursor |-> ArrayBest(sl, side), ovf |-> DOMAIN sl.overflow, out |-> <<>>]

IterStep(sl, side, it) ==
  LET o == BestKey(side, it.ovf)
      takeOvf == it.ovf # {} /\ (\/ it.cursor = NoIndex
                                 \/ Better(side, o, PxOf(it.cursor)))
  IN  IF it.cursor = NoIndex /\ it.ovf = {} THEN it
      ELSE IF takeOvf
      THEN [it EXCEPT !.ovf = @ \ {o}, !.out = Append(@, o)]
      ELSE [it EXCEPT !.cursor = IF side = "Bid" THEN PrevSet(sl.bitmap, @)
                                                 ELSE NextSet(sl.bitmap, @),
                      !.out = Append(@, PxOf(it.cursor))]

\* The prices in the order the iterator yields them.
BestFirst(sl, side) ==
  LET most == NLevels + Cardinality(DOMAIN sl.overflow)
      it[k \in 0 .. most] == IF k = 0 THEN IterStart(sl, side)
                             ELSE IterStep(sl, side, it[k-1])
  IN  it[most].out
=============================================================================
