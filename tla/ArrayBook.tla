------------------------------ MODULE ArrayBook ------------------------------
(***************************************************************************)
(* One ArrayBook (lob-core/src/book.rs), the bounded-array book, under any *)
(* sequence of calls.                                                      *)
(***************************************************************************)
EXTENDS ArrayOps

CONSTANT MaxHits   \* bound on the overflow counter, which only grows

ASSUME MaxHitsIsNat == MaxHits \in Nat

VARIABLES
  book,    \* the book value of ArrayOps
  op,      \* the operation last called, with its arguments
  result   \* what it returned

vars == <<book, op, result>>

Init == book = EmptyArrayBook /\ op = NoOp /\ result = NoResult

Do(o) ==
  LET after == Called(book, o)
  IN  /\ \A s \in Sides : after.book.sides[s].hits <= MaxHits
      /\ op' = o
      /\ result' = after.result
      /\ book' = after.book

Add(id, side, px, qty) == Do(AddOp(id, side, px, qty))
Cancel(id, qty) == Do(CancelOp(id, qty))
Delete(id) == Do(DeleteOp(id))
Execute(id, qty) == Do(ExecuteOp(id, qty))
Replace(old, new, px, qty) == Do(ReplaceOp(old, new, px, qty))

Next ==
  \/ \E id \in Ids, side \in Sides, px \in Prices, qty \in Qtys :
       Add(id, side, px, qty)
  \/ \E id \in Ids, qty \in Qtys : Cancel(id, qty)
  \/ \E id \in Ids : Delete(id)
  \/ \E id \in Ids, qty \in Qtys : Execute(id, qty)
  \/ \E old, new \in Ids, px \in Prices, qty \in Qtys : Replace(old, new, px, qty)

Spec == Init /\ [][Next]_vars

-----------------------------------------------------------------------------
(* Properties                                                              *)

ValidPrices == {p \in Prices : p > 0}

SlotIndices == Indices(book.slab)
FreeChain == Chain(book.slab, book.slab.freeHead)

\* The loci that have a level: the whole window, and the overflow prices held.
Loci(sl) == {InRange(i) : i \in LevelIndices} \cup {Overflow(p) : p \in DOMAIN sl.overflow}

PriceOf(locus) == IF locus.grid THEN PxOf(locus.at) ELSE locus.at

\* Every field keeps its type; a slot holds an order or what Free leaves.
LevelType == [head  : {Nil} \cup SlotIndices, tail : {Nil} \cup SlotIndices,
              qty   : 0 .. MaxQty, count : Nat]

SlotType == [id : Ids \cup {NoId}, qty : 0 .. MaxQty, px : Int,
             prev : {Nil} \cup SlotIndices, next : {Nil} \cup SlotIndices]

SideTypeOK(sl) ==
  /\ DOMAIN sl = {"levels", "bitmap", "overflow", "hits", "maxOffset"}
  /\ sl.levels \in [LevelIndices -> LevelType]
  /\ DOMAIN sl.bitmap = {"words", "summary"}
  /\ sl.bitmap.words \in [WordIndices -> SUBSET (0 .. WordBits - 1)]
  /\ sl.bitmap.summary \subseteq WordIndices
  /\ DOMAIN sl.overflow \subseteq ValidPrices
  /\ \A p \in DOMAIN sl.overflow : sl.overflow[p] \in LevelType
  /\ sl.hits \in Nat /\ sl.maxOffset \in Nat

TypeOK ==
  /\ DOMAIN book = {"sides", "slab", "ids"}
  /\ DOMAIN book.sides = Sides
  /\ \A s \in Sides : SideTypeOK(book.sides[s])
  /\ DOMAIN book.slab = {"slots", "cap", "freeHead", "live"}
  /\ book.slab.cap \in Nat /\ book.slab.live \in Nat
  /\ book.slab.freeHead \in {Nil} \cup SlotIndices
  /\ book.slab.slots \in [SlotIndices -> SlotType]
  /\ DOMAIN book.ids \subseteq Ids
  /\ \A id \in DOMAIN book.ids : book.ids[id] \in SlotIndices

\* I2-I5: walked from its head, each level is a doubly linked list that ends at
\* its tail, has as many orders as it counts, all of them positive, of this very
\* side and price, and mapped to their slot.
FifosLinked ==
  \A s \in Sides : \A locus \in Loci(book.sides[s]) :
    LET lvl == LevelAt(book.sides[s], locus)
        chain == Chain(book.slab, lvl.head)
        n == Len(chain)
    IN  /\ n = lvl.count
        /\ lvl.tail = IF n = 0 THEN Nil ELSE chain[n]
        /\ \A k \in 1 .. n :
             LET slot == book.slab.slots[chain[k]]
             IN  /\ slot.prev = (IF k = 1 THEN Nil ELSE chain[k-1])
                 /\ slot.next = (IF k = n THEN Nil ELSE chain[k+1])
                 /\ slot.px = SignedPx(s, PriceOf(locus))
                 /\ slot.qty > 0
                 /\ slot.id \in DOMAIN book.ids
                 /\ book.ids[slot.id] = chain[k]

\* I1, I8: the total a level keeps incrementally is the sum over its orders; it
\* never wrapped.
LevelSums ==
  \A s \in Sides : \A locus \in Loci(book.sides[s]) :
    LET lvl == LevelAt(book.sides[s], locus)
    IN  lvl.qty = LevelQty(Fifo(book, lvl))

\* I6, on both sides.
LevelsIndexed == \A s \in Sides : BitmapExact(book.sides[s])

\* I7: every slot is on the free list or is the slot of one live id, never both;
\* the free list has no cycle and live + free = capacity.
SlabPartitioned ==
  LET free == {FreeChain[k] : k \in DOMAIN FreeChain}
      used == {book.ids[id] : id \in DOMAIN book.ids}
  IN  /\ free \cap used = {}
      /\ free \cup used = SlotIndices
      /\ Len(FreeChain) = Cardinality(free)
      /\ book.slab.live = Cardinality(used)
      /\ book.slab.live = Cardinality(DOMAIN book.ids)
      /\ \A id \in DOMAIN book.ids : book.slab.slots[book.ids[id]].id = id

\* max_abs_offset and overflow_hits never understate the book that is resting:
\* every resting order's offset, and every resting overflow order, was counted.
CountersCover ==
  \A s \in Sides :
    LET sl == book.sides[s]
        resting == {id \in DOMAIN book.ids : SideOf(book.slab.slots[book.ids[id]]) = s}
        outside == {id \in resting : ~Locate(AbsPx(book.slab.slots[book.ids[id]])).grid}
    IN  /\ \A id \in resting : AbsOffset(AbsPx(book.slab.slots[book.ids[id]])) <= sl.maxOffset
        /\ Cardinality(outside) <= sl.hits

\* What the book's own check() asserts, and the counters on top of it.
CheckPasses == TypeOK /\ FifosLinked /\ LevelSums /\ LevelsIndexed /\ SlabPartitioned /\ CountersCover

\* ArrayBook keeps what the trait promises: same book, same events, same errors.
\* With RefBook keeping it too, the two agree after every call (I11).
Queue == [s \in Sides |-> [p \in ValidPrices |->
            Fifo(book, LevelAt(book.sides[s], Locate(p)))]]

Promise == INSTANCE OrderBook WITH queue <- Queue

KeepsPromise == Promise!Spec

\* The queries, answered from the bitmap, the overflow map, the counts kept in
\* the levels and the links, answer what the promised book says.
QueriesAgree ==
  LET q == Queue
  IN  /\ \A s \in Sides :
           /\ Best(book, s) = Promise!Best(q, s)
           /\ Snapshot(book, s) = Promise!Snapshot(q, s)
           /\ L2(book, s, 2) = Promise!L2(q, s, 2)
      /\ HashInput(book) = Promise!HashInput(q)
      /\ \A id \in DOMAIN book.ids : QueueAhead(book, id) = Promise!QueueAhead(q, id)
      /\ book.slab.live = Cardinality(Promise!LiveIds(q))
=============================================================================
