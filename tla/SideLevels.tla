----------------------------- MODULE SideLevels -----------------------------
(***************************************************************************)
(* One side of ArrayBook on its own: orders come to and leave its levels,  *)
(* and only their number matters.  It is the smallest system in which the  *)
(* bitmap, the overflow map and the counters can be exercised over whole   *)
(* windows of several bitmap words, which the book itself would need one   *)
(* order per level for.                                                    *)
(***************************************************************************)
EXTENDS Levels

CONSTANTS
  LevelPrices,  \* prices at which orders come and go
  MaxCount,     \* bound on the orders of one level
  MaxSideHits   \* bound on the overflow counter, which only grows

ASSUME SideArguments ==
  /\ LevelPrices \subseteq Nat \ {0}
  /\ MaxCount \in Nat
  /\ MaxSideHits \in Nat

VARIABLES
  bidOrAsk,  \* "Bid" or "Ask"
  half       \* the levels of the side

sideVars == <<bidOrAsk, half>>

\* The count of the level at a price goes from `before' to `now'.
Recount(s, px, before, now) ==
  AfterCountChange(PutLevel(s, Locate(px), [EmptyLevel EXCEPT !.count = now]),
                   Locate(px), before)

\* An order is added at px: the counters, then link_tail's part in the levels.
OrderComes(px) ==
  LET before == LevelAt(half, Locate(px)).count
      counted == NoteAdd(half, Locate(px), px)
  IN  /\ before < MaxCount
      /\ counted.hits <= MaxSideHits
      /\ half' = Recount(counted, px, before, before + 1)
      /\ UNCHANGED bidOrAsk

\* An order of the level at px goes: unlink's part in the levels.
OrderGoes(px) ==
  LET before == LevelAt(half, Locate(px)).count
  IN  /\ before > 0
      /\ half' = Recount(half, px, before, before - 1)
      /\ UNCHANGED bidOrAsk

SideInit == bidOrAsk \in {"Bid", "Ask"} /\ half = EmptySide

SideNext == \E px \in LevelPrices : OrderComes(px) \/ OrderGoes(px)

SideSpec == SideInit /\ [][SideNext]_sideVars

-----------------------------------------------------------------------------
(* Properties                                                              *)

CountLevel == [head : {Nil}, tail : {Nil}, qty : {0}, count : Nat]

\* The fields keep their types; every bit lies in its word, and every word and
\* overflow level is one the side may have.
HalfTypeOK ==
  /\ bidOrAsk \in {"Bid", "Ask"}
  /\ half = [levels |-> half.levels, bitmap |-> half.bitmap, overflow |-> half.overflow,
             hits |-> half.hits, maxOffset |-> half.maxOffset]
  /\ half.levels \in [LevelIndices -> CountLevel]
  /\ half.bitmap \in [words : [WordIndices -> SUBSET (0 .. WordBits - 1)],
                      summary : SUBSET WordIndices]
  /\ half.overflow \in [DOMAIN half.overflow -> CountLevel]
  /\ DOMAIN half.overflow \subseteq LevelPrices
  /\ half.hits \in Nat
  /\ half.maxOffset \in Nat

\* I6, after any sequence of orders coming and going.
CountsIndexed == BitmapExact(half)

\* No bit is set beyond the window, where no level is: the unused bits of the
\* last word stay clear.
NoStrayBits ==
  \A w \in WordIndices : \A bit \in half.bitmap.words[w] :
    IndexOf(w, bit) \in LevelIndices

\* The index of a side is sound: exact, and with nothing set that is no level.
IndexSound == HalfTypeOK /\ CountsIndexed /\ NoStrayBits

\* The prices of the non-empty levels.
OccupiedPrices ==
  {PxOf(i) : i \in {i \in LevelIndices : half.levels[i].count > 0}}
    \cup {p \in DOMAIN half.overflow : half.overflow[p].count > 0}

\* best() finds the extreme of all non-empty levels, and nothing only when there
\* is none, although it looks at one array level and one overflow level.
BestIsExtreme ==
  LET locus == BestLocus(half, bidOrAsk)
      best == IF locus.grid THEN PxOf(locus.at) ELSE locus.at
  IN  IF OccupiedPrices = {} THEN locus = InRange(NoIndex)
      ELSE /\ locus # InRange(NoIndex)
           /\ best \in OccupiedPrices
           /\ \A p \in OccupiedPrices : p = best \/ Better(bidOrAsk, best, p)

\* prev_set and next_set, from any index, find the nearest non-empty level, over
\* word boundaries and empty words.
NeighboursExact ==
  LET set == {i \in LevelIndices : half.levels[i].count > 0}
  IN  \A i \in LevelIndices :
        /\ PrevSet(half.bitmap, i)
             = IF \E j \in set : j < i THEN Max({j \in set : j < i}) ELSE NoIndex
        /\ NextSet(half.bitmap, i)
             = IF \E j \in set : j > i THEN Min({j \in set : j > i}) ELSE NoIndex

\* The merge of the bitmap walk and the overflow map yields every non-empty level
\* once, best first.
WalkIsSorted ==
  LET walk == BestFirst(half, bidOrAsk)
  IN  /\ {walk[k] : k \in DOMAIN walk} = OccupiedPrices
      /\ \A k \in 1 .. Len(walk) - 1 : Better(bidOrAsk, walk[k], walk[k+1])
=============================================================================
