------------------------------ MODULE ArrayOps ------------------------------
(***************************************************************************)
(* The operations of ArrayBook (lob-core/src/book.rs) on a book value: two *)
(* sides of price levels (Levels), an order arena with intrusive FIFO      *)
(* links and a free list (Slab), and a map from id to slot.                *)
(*                                                                         *)
(* A call is several dependent updates of these structures.  They are      *)
(* written as operators from book to book, applied in the code's order.    *)
(* The module has no state: ArrayBook runs one book, Session many, each    *)
(* over a window of its own.                                               *)
(***************************************************************************)
EXTENDS BookTypes, Levels

\* A book is [sides |-> [Sides -> side], slab |-> slab, ids |-> id map].

EmptyArrayBook ==
  [sides |-> [s \in Sides |-> EmptySide],
   slab  |-> EmptySlab,
   ids   |-> EmptyMap]

-----------------------------------------------------------------------------
(* Pieces of a call                                                        *)

\* u32 arithmetic of a release build.
Wrap(n) == n % (MaxQty + 1)

\* Append a slot to the tail of a level; its quantity is already set.
LinkTail(b, side, locus, at) ==
  LET lvl == LevelAt(b.sides[side], locus)
      linked == [head  |-> IF lvl.tail = Nil THEN at ELSE lvl.head,
                 tail  |-> at,
                 qty   |-> Wrap(lvl.qty + b.slab.slots[at].qty),
                 count |-> lvl.count + 1]
      slots == b.slab.slots
  IN  [b EXCEPT
         !.slab.slots = IF lvl.tail = Nil THEN slots
                        ELSE [slots EXCEPT ![lvl.tail].next = at,
                                           ![at].prev = lvl.tail],
         !.sides[side] =
           AfterCountChange(PutLevel(@, locus, linked), locus, lvl.count)]

UnlinkOneWay(b, side, locus, at) ==  \* mutant: the follower keeps its prev
  LET slot == b.slab.slots[at]
      lvl == LevelAt(b.sides[side], locus)
      unlinked == [head  |-> IF slot.prev = Nil THEN slot.next ELSE lvl.head,
                   tail  |-> IF slot.next = Nil THEN slot.prev ELSE lvl.tail,
                   qty   |-> Wrap(lvl.qty - slot.qty),
                   count |-> lvl.count - 1]
      slots == [i \in Indices(b.slab) |->
                  [b.slab.slots[i] EXCEPT
                     !.next = IF i = slot.prev THEN slot.next ELSE @]]
  IN  [b EXCEPT
         !.slab = Free([@ EXCEPT !.slots = slots], at),
         !.sides[side] =
           AfterCountChange(PutLevel(@, locus, unlinked), locus, lvl.count)]

\* Unlink a slot from its level, and free it.
Unlink(b, side, locus, at) ==
  LET slot == b.slab.slots[at]
      lvl == LevelAt(b.sides[side], locus)
      unlinked == [head  |-> IF slot.prev = Nil THEN slot.next ELSE lvl.head,
                   tail  |-> IF slot.next = Nil THEN slot.prev ELSE lvl.tail,
                   qty   |-> Wrap(lvl.qty - slot.qty),
                   count |-> lvl.count - 1]
      slots == [i \in Indices(b.slab) |->
                  [b.slab.slots[i] EXCEPT
                     !.next = IF i = slot.prev THEN slot.next ELSE @,
                     !.prev = IF i = slot.next THEN slot.prev ELSE @]]
  IN  [b EXCEPT
         !.slab = Free([@ EXCEPT !.slots = slots], at),
         !.sides[side] =
           AfterCountChange(PutLevel(@, locus, unlinked), locus, lvl.count)]

\* Reduce a slot in place.
Reduce(b, side, locus, at, by) ==
  LET lvl == LevelAt(b.sides[side], locus)
  IN  [b EXCEPT
         !.sides[side] = PutLevel(@, locus, [lvl EXCEPT !.qty = Wrap(@ - by)]),
         !.slab.slots[at].qty = Wrap(@ - by)]

\* Shared by cancel, delete and execute: reduce the order, or remove it at zero.
Take(b, at, by) ==
  LET slot == b.slab.slots[at]
      locus == Locate(AbsPx(slot))
  IN  IF by = slot.qty
      THEN Unlink([b EXCEPT !.ids = Without(@, slot.id)], SideOf(slot), locus, at)
      ELSE Reduce(b, SideOf(slot), locus, at, by)

\* Put a new order into a slot and into the id map.
AllocOrder(b, id, side, px, qty) ==
  [b EXCEPT !.slab = Alloc(@, id, qty, SignedPx(side, px)),
            !.ids = With(@, id, AllocAt(b.slab))]

CountAdd(b, side, px) ==
  [b EXCEPT !.sides[side] = NoteAdd(@, Locate(px), px)]

AfterAdd(b, id, side, px, qty) ==
  LinkTail(CountAdd(AllocOrder(b, id, side, px, qty), side, px),
           side, Locate(px), AllocAt(b.slab))

\* mutant: a replace that does not move the order renames it in place
ReplaceInPlace(b, old, new, px, qty) ==
  LET at == b.ids[old]
      slot == b.slab.slots[at]
      side == SideOf(slot)
      locus == Locate(AbsPx(slot))
      unlinked == Unlink([b EXCEPT !.ids = Without(@, old)], side, locus, at)
  IN  IF Locate(px) = locus
      THEN [b EXCEPT !.slab.slots[at] = [@ EXCEPT !.id = new, !.qty = qty],
                     !.ids = With(Without(@, old), new, at),
                     !.sides[side] = PutLevel(@, locus,
                       [LevelAt(@, locus) EXCEPT !.qty = @ - slot.qty + qty])]
      ELSE LinkTail(AllocOrder(CountAdd(unlinked, side, px), new, side, px, qty),
                    side, Locate(px), AllocAt(unlinked.slab))

\* The new order may take the very slot the old one has just freed.
AfterReplace(b, old, new, px, qty) ==
  LET at == b.ids[old]
      slot == b.slab.slots[at]
      side == SideOf(slot)
      counted == CountAdd(b, side, px)
      unlinked == Unlink([counted EXCEPT !.ids = Without(@, old)],
                         side, Locate(AbsPx(slot)), at)
  IN  LinkTail(AllocOrder(unlinked, new, side, px, qty),
               side, Locate(px), AllocAt(unlinked.slab))

-----------------------------------------------------------------------------
(* The calls                                                               *)

AddError(b, id, side, px, qty) ==
  IF qty = 0 THEN BadQty
  ELSE IF px <= 0 THEN BadPrice
  ELSE IF LevelAt(b.sides[side], Locate(px)).qty + qty > MaxQty THEN BadQty
  ELSE IF id \in DOMAIN b.ids THEN DuplicateId(id)
  ELSE NoError

CancelError(b, id, qty) ==
  IF id \notin DOMAIN b.ids THEN UnknownId("Cancel", id)
  ELSE IF qty = 0 THEN BadQty
  ELSE NoError

DeleteError(b, id) ==
  IF id \notin DOMAIN b.ids THEN UnknownId("Delete", id) ELSE NoError

ExecuteError(b, id, qty) ==
  LET have == b.slab.slots[b.ids[id]].qty
  IN  IF id \notin DOMAIN b.ids THEN UnknownId("Exec", id)
      ELSE IF qty = 0 THEN BadQty
      ELSE IF qty > have THEN OverExecute(id, have, qty)
      ELSE NoError

\* What the new level will hold beside the new order; a replace within a level
\* frees the old quantity first.
ReplaceError(b, old, new, px, qty) ==
  LET slot == b.slab.slots[b.ids[old]]
      at == Locate(px)
      there == LevelAt(b.sides[SideOf(slot)], at).qty
      existing == IF at = Locate(AbsPx(slot)) THEN Wrap(there - slot.qty) ELSE there
  IN  IF old \notin DOMAIN b.ids THEN UnknownId("Replace", old)
      ELSE IF new \in DOMAIN b.ids THEN DuplicateId(new)
      ELSE IF qty = 0 THEN BadQty
      ELSE IF px <= 0 THEN BadPrice
      ELSE IF existing + qty > MaxQty THEN BadQty
      ELSE NoError

-----------------------------------------------------------------------------
(* A call with its arguments (Op::apply): the book after it and its result *)

Added(b, o) ==
  Outcome(b, AddError(b, o.id, o.side, o.px, o.qty),
          AfterAdd(b, o.id, o.side, o.px, o.qty),
          AddEvent(o.id, o.side, o.px, o.qty))

Cancelled(b, o) ==
  LET at == b.ids[o.id]
      slot == b.slab.slots[at]
      removed == IF o.qty < slot.qty THEN o.qty ELSE slot.qty
  IN  Outcome(b, CancelError(b, o.id, o.qty),
              Take(b, at, removed),
              CancelEvent(o.id, SideOf(slot), AbsPx(slot), removed,
                          Wrap(slot.qty - removed)))

Deleted(b, o) ==
  LET at == b.ids[o.id]
      slot == b.slab.slots[at]
  IN  Outcome(b, DeleteError(b, o.id),
              Take(b, at, slot.qty),
              DeleteEvent(o.id, SideOf(slot), AbsPx(slot), slot.qty))

Executed(b, o) ==
  LET at == b.ids[o.id]
      slot == b.slab.slots[at]
  IN  Outcome(b, ExecuteError(b, o.id, o.qty),
              Take(b, at, o.qty),
              ExecEvent(o.id, SideOf(slot), AbsPx(slot), o.qty,
                        Wrap(slot.qty - o.qty)))

Replaced(b, o) ==
  Outcome(b, ReplaceError(b, o.id, o.new, o.px, o.qty),
          AfterReplace(b, o.id, o.new, o.px, o.qty),
          ReplaceEvent(o.id, o.new, SideOf(b.slab.slots[b.ids[o.id]]), o.px, o.qty))

Called(b, o) ==
  CASE o.kind = "Add"     -> Added(b, o)
    [] o.kind = "Cancel"  -> Cancelled(b, o)
    [] o.kind = "Delete"  -> Deleted(b, o)
    [] o.kind = "Exec"    -> Executed(b, o)
    [] o.kind = "Replace" -> Replaced(b, o)

-----------------------------------------------------------------------------
(* The queries                                                             *)

\* The FIFO of a level, read off the links.
Fifo(b, lvl) ==
  LET chain == Chain(b.slab, lvl.head)
  IN  [k \in DOMAIN chain |->
         Order(b.slab.slots[chain[k]].id, b.slab.slots[chain[k]].qty)]

\* The best level as (price, quantity, count), or none.
Best(b, side) ==
  LET sl == b.sides[side]
      locus == BestLocus(sl, side)
      lvl == LevelAt(sl, locus)
      px == IF locus.grid THEN PxOf(locus.at) ELSE locus.at
  IN  IF locus = InRange(NoIndex) THEN <<>> ELSE <<px, lvl.qty, lvl.count>>

\* The quantity met on the way from the head of the level to the order's slot.
QueueAhead(b, id) ==
  LET at == b.ids[id]
      slot == b.slab.slots[at]
      lvl == LevelAt(b.sides[SideOf(slot)], Locate(AbsPx(slot)))
      chain == Chain(b.slab, lvl.head)
  IN  QtyOfFirst(Fifo(b, lvl), SelectInSeq(chain, LAMBDA i : i = at) - 1)

\* The first `depth' levels of a side: the totals and counts the levels keep.
L2(b, side, depth) ==
  LET pxs == BestFirst(b.sides[side], side)
      n == IF depth < Len(pxs) THEN depth ELSE Len(pxs)
      lvl(k) == LevelAt(b.sides[side], Locate(pxs[k]))
  IN  [k \in 1 .. n |-> <<pxs[k], lvl(k).qty, lvl(k).count>>]

\* The walk is best first, so the bids are reversed; each level gives the count
\* it keeps and the orders met on its links.
HashInput(b) ==
  LET pxs(side) == IF side = "Bid" THEN Reverse(BestFirst(b.sides[side], side))
                                   ELSE BestFirst(b.sides[side], side)
      rec(side, px) == HashRecords(px, Fifo(b, LevelAt(b.sides[side], Locate(px))))
      of(side) == FlattenSeq([k \in DOMAIN pxs(side) |-> rec(side, pxs(side)[k])])
  IN  of("Bid") \o of("Ask")

\* Every non-empty level, best first, with its FIFO.
Snapshot(b, side) ==
  LET pxs == BestFirst(b.sides[side], side)
  IN  [k \in DOMAIN pxs |->
         [px |-> pxs[k], fifo |-> Fifo(b, LevelAt(b.sides[side], Locate(pxs[k])))]]
=============================================================================
