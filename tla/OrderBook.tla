------------------------------ MODULE OrderBook ------------------------------
(***************************************************************************)
(* What the OrderBook trait of lob-core/src/api.rs promises, whatever      *)
(* structure keeps the orders: a FIFO of orders per side and price, and    *)
(* five mutating calls that either do one thing and return its event, or   *)
(* change nothing and return the first error of the documented precedence. *)
(*                                                                         *)
(* The operations are operators on a book value q, so that a module that   *)
(* runs many books can use them too.                                       *)
(***************************************************************************)
EXTENDS BookTypes

VARIABLES
  queue,   \* [Sides -> [ValidPrices -> Seq(orders)]], head = first in priority
  op,      \* the operation last called, with its arguments
  result   \* what it returned

vars == <<queue, op, result>>

ValidPrices == {p \in Prices : p > 0}

EmptyBook == [s \in Sides |-> [p \in ValidPrices |-> <<>>]]

-----------------------------------------------------------------------------
(* Looking an order up                                                     *)

LiveIds(q) == UNION {IdsOf(q[s][p]) : s \in Sides, p \in ValidPrices}

\* The side, price, position and remaining quantity of a live id.
Find(q, id) ==
  LET at == CHOOSE at \in Sides \X ValidPrices : id \in IdsOf(q[at[1]][at[2]])
      fifo == q[at[1]][at[2]]
      pos == PosOf(fifo, id)
  IN  [side |-> at[1], px |-> at[2], pos |-> pos, qty |-> fifo[pos].qty]

-----------------------------------------------------------------------------
(* Changing a book                                                         *)

\* Rest an order at the tail of its level.
PushTail(q, side, px, order) == [q EXCEPT ![side][px] = Append(@, order)]

\* Remove `by' from the order found at f, and the order itself at zero.
TakeFrom(q, f, by) ==
  [q EXCEPT ![f.side][f.px] =
     IF by = f.qty THEN RemoveAt(@, f.pos)
                   ELSE [@ EXCEPT ![f.pos].qty = f.qty - by]]

-----------------------------------------------------------------------------
(* The first error of each call, in the documented precedence              *)

AddError(q, id, side, px, qty) ==
  IF qty = 0 THEN BadQty
  ELSE IF px <= 0 THEN BadPrice
  ELSE IF LevelQty(q[side][px]) + qty > MaxQty THEN BadQty
  ELSE IF id \in LiveIds(q) THEN DuplicateId(id)
  ELSE NoError

CancelError(q, id, qty) ==
  IF id \notin LiveIds(q) THEN UnknownId("Cancel", id)
  ELSE IF qty = 0 THEN BadQty
  ELSE NoError

DeleteError(q, id) ==
  IF id \notin LiveIds(q) THEN UnknownId("Delete", id) ELSE NoError

ExecuteError(q, id, qty) ==
  IF id \notin LiveIds(q) THEN UnknownId("Exec", id)
  ELSE IF qty = 0 THEN BadQty
  ELSE IF qty > Find(q, id).qty THEN OverExecute(id, Find(q, id).qty, qty)
  ELSE NoError

ReplaceError(q, old, new, px, qty) ==
  LET f == Find(q, old)
      freed == IF px = f.px THEN f.qty ELSE 0
  IN  IF old \notin LiveIds(q) THEN UnknownId("Replace", old)
      ELSE IF new \in LiveIds(q) THEN DuplicateId(new)
      ELSE IF qty = 0 THEN BadQty
      ELSE IF px <= 0 THEN BadPrice
      ELSE IF LevelQty(q[f.side][px]) - freed + qty > MaxQty THEN BadQty
      ELSE NoError

-----------------------------------------------------------------------------
(* The calls                                                               *)

\* A call returns its first error and changes nothing, or does what it promises
\* and returns the event of it.
Answer(e, q, event) ==
  \/ /\ e # NoError
     /\ result' = Err(e)
     /\ UNCHANGED queue
  \/ /\ e = NoError
     /\ result' = Ok(event)
     /\ queue' = q

Add(id, side, px, qty) ==
  /\ op' = AddOp(id, side, px, qty)
  /\ Answer(AddError(queue, id, side, px, qty),
            PushTail(queue, side, px, Order(id, qty)),
            AddEvent(id, side, px, qty))

Cancel(id, qty) ==
  LET f == Find(queue, id)
      removed == IF qty < f.qty THEN qty ELSE f.qty
  IN  /\ op' = CancelOp(id, qty)
      /\ Answer(CancelError(queue, id, qty),
                TakeFrom(queue, f, removed),
                CancelEvent(id, f.side, f.px, removed, f.qty - removed))

Delete(id) ==
  LET f == Find(queue, id)
  IN  /\ op' = DeleteOp(id)
      /\ Answer(DeleteError(queue, id),
                TakeFrom(queue, f, f.qty),
                DeleteEvent(id, f.side, f.px, f.qty))

Execute(id, qty) ==
  LET f == Find(queue, id)
  IN  /\ op' = ExecuteOp(id, qty)
      /\ Answer(ExecuteError(queue, id, qty),
                TakeFrom(queue, f, qty),
                ExecEvent(id, f.side, f.px, qty, f.qty - qty))

\* The new order rests at the tail, of the same level too; the side is carried.
Replace(old, new, px, qty) ==
  LET f == Find(queue, old)
      without == TakeFrom(queue, f, f.qty)
  IN  /\ op' = ReplaceOp(old, new, px, qty)
      /\ Answer(ReplaceError(queue, old, new, px, qty),
                PushTail(without, f.side, px, Order(new, qty)),
                ReplaceEvent(old, new, f.side, px, qty))

Init == queue = EmptyBook /\ op = NoOp /\ result = NoResult

\* The call with its arguments as one value.
Call(o) ==
  \/ o.kind = "Add" /\ Add(o.id, o.side, o.px, o.qty)
  \/ o.kind = "Cancel" /\ Cancel(o.id, o.qty)
  \/ o.kind = "Delete" /\ Delete(o.id)
  \/ o.kind = "Exec" /\ Execute(o.id, o.qty)
  \/ o.kind = "Replace" /\ Replace(o.id, o.new, o.px, o.qty)

\* Some call is made; `op' names it, so nothing is searched for when a step is checked.
Next == Call(op') /\ op' \in Ops

Spec == Init /\ [][Next]_vars

-----------------------------------------------------------------------------
(* What a caller may ask of a book                                         *)

\* Exact quantity resting ahead of a live id in its level.
QueueAhead(q, id) ==
  LET f == Find(q, id) IN QtyOfFirst(q[f.side][f.px], f.pos - 1)

\* Prices of the non-empty levels of a side.
Occupied(q, side) == {p \in ValidPrices : q[side][p] # <<>>}

\* The best level as (price, quantity, count), or none.
Best(q, side) ==
  LET ps == Occupied(q, side)
      p == IF side = "Bid" THEN Max(ps) ELSE Min(ps)
  IN  IF ps = {} THEN <<>> ELSE LevelTuple(p, q[side][p])

\* The first `depth' levels of a side, best first.
L2(q, side, depth) ==
  LET pxs == InPriority(Occupied(q, side), side)
      n == IF depth < Len(pxs) THEN depth ELSE Len(pxs)
  IN  [k \in 1 .. n |-> LevelTuple(pxs[k], q[side][pxs[k]])]

\* What the state hash digests: the bids, then the asks, prices ascending.
HashInput(q) ==
  LET pxs(side) == Ascending(Occupied(q, side))
      of(side) == FlattenSeq([k \in DOMAIN pxs(side) |->
                    HashRecords(pxs(side)[k], q[side][pxs(side)[k]])])
  IN  of("Bid") \o of("Ask")

\* Every non-empty level of a side, best first, with its FIFO.
Snapshot(q, side) ==
  LET pxs == InPriority(Occupied(q, side), side)
  IN  [k \in DOMAIN pxs |-> [px |-> pxs[k], fifo |-> q[side][pxs[k]]]]
=============================================================================
