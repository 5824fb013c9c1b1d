------------------------------- MODULE RefOps --------------------------------
(***************************************************************************)
(* The operations of RefBook (lob-core/src/reference.rs) on a book value:  *)
(* per side an ordered map from price to a FIFO, beside a map from id to   *)
(* (side, price).  It is the differential oracle and the book of every     *)
(* symbol off the watchlist.  The module has no state: RefBook runs one    *)
(* book, Session many.                                                     *)
(***************************************************************************)
EXTENDS BookTypes, Maps

\* A book is [levels |-> [Sides -> price map of FIFOs], ids |-> id map].

EmptyRefBook == [levels |-> [s \in Sides |-> EmptyMap], ids |-> EmptyMap]

-----------------------------------------------------------------------------
(* Looking an order up: the id map gives the level, the FIFO is scanned    *)

Fifo(b, side, px) ==
  IF px \in DOMAIN b.levels[side] THEN b.levels[side][px] ELSE <<>>

Found(b, id) ==
  /\ id \in DOMAIN b.ids
  /\ LET at == b.ids[id] IN PosOf(Fifo(b, at.side, at.px), id) # 0

Find(b, id) ==
  LET at == b.ids[id]
      fifo == Fifo(b, at.side, at.px)
      pos == PosOf(fifo, id)
  IN  [side |-> at.side, px |-> at.px, pos |-> pos, qty |-> fifo[pos].qty]

-----------------------------------------------------------------------------
(* Changing the book                                                       *)

TakeKeepsLevel(b, id, f, by) ==  \* mutant: an emptied level stays in the map
  IF by # f.qty
  THEN [b EXCEPT !.levels[f.side][f.px][f.pos].qty = f.qty - by]
  ELSE [b EXCEPT !.levels[f.side][f.px] = RemoveAt(@, f.pos),
                 !.ids = Without(@, id)]

\* Remove `by' from the order found at f; drop it, and a level it empties, at
\* zero, together with its entry in the id map.
Take(b, id, f, by) ==
  LET fifo == b.levels[f.side][f.px]
      shorter == RemoveAt(fifo, f.pos)
      levels == b.levels[f.side]
  IN  IF by # f.qty
      THEN [b EXCEPT !.levels[f.side][f.px][f.pos].qty = f.qty - by]
      ELSE [b EXCEPT !.levels[f.side] = IF shorter = <<>>
                                        THEN Without(levels, f.px)
                                        ELSE [levels EXCEPT ![f.px] = shorter],
                     !.ids = Without(@, id)]

PushHead(b, id, side, px, qty) ==  \* mutant: the newcomer goes first
  [b EXCEPT !.levels[side] = With(@, px, <<Order(id, qty)>> \o Fifo(b, side, px)),
            !.ids = With(@, id, [side |-> side, px |-> px])]

PushTail(b, id, side, px, qty) ==
  LET fifo == Append(Fifo(b, side, px), Order(id, qty))
  IN  [b EXCEPT !.levels[side] = With(@, px, fifo),
                !.ids = With(@, id, [side |-> side, px |-> px])]

WouldOverflowOld(b, side, px, minus, plus) ==  \* mutant: the new order is not counted
  LevelQty(Fifo(b, side, px)) - minus > MaxQty

\* The sum is done in u64, so it does not wrap.
WouldOverflow(b, side, px, minus, plus) ==
  LevelQty(Fifo(b, side, px)) - minus + plus > MaxQty

-----------------------------------------------------------------------------
(* The calls                                                               *)

AddErrorIdFirst(b, id, side, px, qty) ==  \* mutant: the precedence swapped
  IF qty = 0 THEN BadQty
  ELSE IF px <= 0 THEN BadPrice
  ELSE IF id \in DOMAIN b.ids THEN DuplicateId(id)
  ELSE IF WouldOverflow(b, side, px, 0, qty) THEN BadQty
  ELSE NoError

AddError(b, id, side, px, qty) ==
  IF qty = 0 THEN BadQty
  ELSE IF px <= 0 THEN BadPrice
  ELSE IF WouldOverflow(b, side, px, 0, qty) THEN BadQty
  ELSE IF id \in DOMAIN b.ids THEN DuplicateId(id)
  ELSE NoError

CancelError(b, id, qty) ==
  IF ~Found(b, id) THEN UnknownId("Cancel", id)
  ELSE IF qty = 0 THEN BadQty
  ELSE NoError

DeleteError(b, id) ==
  IF ~Found(b, id) THEN UnknownId("Delete", id) ELSE NoError

ExecuteError(b, id, qty) ==
  IF ~Found(b, id) THEN UnknownId("Exec", id)
  ELSE IF qty = 0 THEN BadQty
  ELSE IF qty > Find(b, id).qty THEN OverExecute(id, Find(b, id).qty, qty)
  ELSE NoError

ReplaceError(b, old, new, px, qty) ==
  LET f == Find(b, old)
      minus == IF px = f.px THEN f.qty ELSE 0
  IN  IF ~Found(b, old) THEN UnknownId("Replace", old)
      ELSE IF new \in DOMAIN b.ids THEN DuplicateId(new)
      ELSE IF qty = 0 THEN BadQty
      ELSE IF px <= 0 THEN BadPrice
      ELSE IF WouldOverflow(b, f.side, px, minus, qty) THEN BadQty
      ELSE NoError

-----------------------------------------------------------------------------
(* A call with its arguments (Op::apply): the book after it and its result *)

Added(b, o) ==
  Outcome(b, AddError(b, o.id, o.side, o.px, o.qty),
          PushTail(b, o.id, o.side, o.px, o.qty),
          AddEvent(o.id, o.side, o.px, o.qty))

Cancelled(b, o) ==
  LET f == Find(b, o.id)
      removed == IF o.qty < f.qty THEN o.qty ELSE f.qty
  IN  Outcome(b, CancelError(b, o.id, o.qty),
              Take(b, o.id, f, removed),
              CancelEvent(o.id, f.side, f.px, removed, f.qty - removed))

Deleted(b, o) ==
  LET f == Find(b, o.id)
  IN  Outcome(b, DeleteError(b, o.id),
              Take(b, o.id, f, f.qty),
              DeleteEvent(o.id, f.side, f.px, f.qty))

Executed(b, o) ==
  LET f == Find(b, o.id)
  IN  Outcome(b, ExecuteError(b, o.id, o.qty),
              Take(b, o.id, f, o.qty),
              ExecEvent(o.id, f.side, f.px, o.qty, f.qty - o.qty))

Replaced(b, o) ==
  LET f == Find(b, o.id)
  IN  Outcome(b, ReplaceError(b, o.id, o.new, o.px, o.qty),
              PushTail(Take(b, o.id, f, f.qty), o.new, f.side, o.px, o.qty),
              ReplaceEvent(o.id, o.new, f.side, o.px, o.qty))

Called(b, o) ==
  CASE o.kind = "Add"     -> Added(b, o)
    [] o.kind = "Cancel"  -> Cancelled(b, o)
    [] o.kind = "Delete"  -> Deleted(b, o)
    [] o.kind = "Exec"    -> Executed(b, o)
    [] o.kind = "Replace" -> Replaced(b, o)

-----------------------------------------------------------------------------
(* The queries                                                             *)

LevelView(b, side, px) == LevelTuple(px, b.levels[side][px])

\* The keys of the map, bids from the last one down, asks from the first one up.
BestFirst(b, side) ==
  InPriority(DOMAIN b.levels[side], side)

\* The best level as (price, quantity, count), or none: the extreme key.
Best(b, side) ==
  LET pxs == DOMAIN b.levels[side]
  IN  IF pxs = {} THEN <<>>
      ELSE LevelView(b, side, IF side = "Bid" THEN Max(pxs) ELSE Min(pxs))

L2(b, side, depth) ==
  LET pxs == BestFirst(b, side)
      n == IF depth < Len(pxs) THEN depth ELSE Len(pxs)
  IN  [k \in 1 .. n |-> LevelView(b, side, pxs[k])]

\* The keys of both maps in their own order.
HashInput(b) ==
  LET pxs(side) == Ascending(DOMAIN b.levels[side])
      of(side) == FlattenSeq([k \in DOMAIN pxs(side) |->
                    HashRecords(pxs(side)[k], b.levels[side][pxs(side)[k]])])
  IN  of("Bid") \o of("Ask")

Snapshot(b, side) ==
  LET pxs == BestFirst(b, side)
  IN  [k \in DOMAIN pxs |-> [px |-> pxs[k], fifo |-> b.levels[side][pxs[k]]]]

\* The quantity resting ahead of a live id.
QueueAhead(b, id) ==
  LET f == Find(b, id) IN QtyOfFirst(Fifo(b, f.side, f.px), f.pos - 1)
=============================================================================
