------------------------------ MODULE TruthBook ------------------------------
(***************************************************************************)
(* The synthetic generator's own book (lob-synth/src/truth.rs), written    *)
(* independently of lob-core: the sidecar rows it fills are what a replay  *)
(* is compared against.  A book is                                         *)
(*   [sides |-> [Sides -> price map of FIFOs], orders |-> id map].         *)
(* The calls assert what the generator owes them; the assertions are the   *)
(* operators whose names end in `Legal'.                                   *)
(***************************************************************************)
EXTENDS BookTypes, Maps

EmptyTruth == [sides |-> [s \in Sides |-> EmptyMap], orders |-> EmptyMap]

-----------------------------------------------------------------------------
(* Queries                                                                 *)

Knows(b, id) == id \in DOMAIN b.orders

\* The FIFO a live order rests in.
FifoOf(b, id) == b.sides[b.orders[id].side][b.orders[id].px]

Qty(b, id) == FifoOf(b, id)[PosOf(FifoOf(b, id), id)].qty

BestPx(b, side) ==
  IF side = "Bid" THEN Max(DOMAIN b.sides[side]) ELSE Min(DOMAIN b.sides[side])

IsEmpty(b, side) == DOMAIN b.sides[side] = {}

\* best_bid and best_ask: <<price, level quantity>>, or none.
BestLevel(b, side) ==
  IF IsEmpty(b, side) THEN <<>>
  ELSE <<BestPx(b, side), LevelQty(b.sides[side][BestPx(b, side)])>>

TailOfBest(b, side) ==  \* mutant: the order that came last
  b.sides[side][BestPx(b, side)][Len(b.sides[side][BestPx(b, side)])]

\* The head of the best level of a side that has one.
HeadOfBest(b, side) == b.sides[side][BestPx(b, side)][1]

\* The quantities of the n best levels, best first, zero padded.
Depth(b, side, n) ==
  LET pxs == InPriority(DOMAIN b.sides[side], side)
  IN  [k \in 1 .. n |-> IF k \in DOMAIN pxs THEN LevelQty(b.sides[side][pxs[k]]) ELSE 0]

\* The input of the book-state hash.
HashedBook(b) ==
  FlattenSeq([s \in 1 .. 2 |->
    LET side == IF s = 1 THEN "Bid" ELSE "Ask"
        pxs == Ascending(DOMAIN b.sides[side])
    IN  FlattenSeq([k \in DOMAIN pxs |-> HashRecords(pxs[k], b.sides[side][pxs[k]])])])

-----------------------------------------------------------------------------
(* Calls                                                                   *)

AddLegal(b, id, qty) == qty > 0 /\ ~Knows(b, id)

AddTail(b, id, side, px, qty) ==
  LET fifo == IF px \in DOMAIN b.sides[side] THEN b.sides[side][px] ELSE <<>>
  IN  [b EXCEPT !.orders = With(@, id, [side |-> side, px |-> px]),
                !.sides[side] = With(@, px, Append(fifo, Order(id, qty)))]

\* delete, of a live order: its level goes with its last order.
DeleteLive(b, id) ==
  LET at == b.orders[id]
      rest == RemoveAt(FifoOf(b, id), PosOf(FifoOf(b, id), id))
  IN  [b EXCEPT !.orders = Without(@, id),
                !.sides[at.side] = IF rest = <<>> THEN Without(@, at.px) ELSE With(@, at.px, rest)]

ReduceLegal(b, id, qty) == Knows(b, id) /\ qty <= Qty(b, id)

ReduceToZero(b, id, qty) ==  \* mutant: an order of quantity zero stays
  LET at == b.orders[id]
  IN  [b EXCEPT !.sides[at.side][at.px][PosOf(FifoOf(b, id), id)].qty = @ - qty]

\* reduce, of a live order by no more than it has: in place, gone at zero.
ReduceLive(b, id, qty) ==
  LET at == b.orders[id]
  IN  IF qty = Qty(b, id) THEN DeleteLive(b, id)
      ELSE [b EXCEPT !.sides[at.side][at.px][PosOf(FifoOf(b, id), id)].qty = @ - qty]

ReplaceInPlace(b, old, new, px, qty) ==  \* mutant: priority is kept at an unchanged price
  LET at == b.orders[old]
  IN  IF px # at.px THEN AddTail(DeleteLive(b, old), new, at.side, px, qty)
      ELSE [b EXCEPT !.orders = With(Without(@, old), new, at),
                     !.sides[at.side][px][PosOf(FifoOf(b, old), old)] = Order(new, qty)]

\* replace, of a live order: the side is carried, the new order goes last.
ReplaceLive(b, old, new, px, qty) ==
  AddTail(DeleteLive(b, old), new, b.orders[old].side, px, qty)
=============================================================================
