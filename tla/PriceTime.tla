------------------------------ MODULE PriceTime ------------------------------
(***************************************************************************)
(* Price-time priority: the order of prices on a side of a book, the       *)
(* better price first, and the FIFO of one price level                     *)
(* (lob-core/src/reference.rs), as (id, qty) pairs in time priority, with  *)
(* what is read off it.                                                    *)
(***************************************************************************)
EXTENDS Integers, Sequences, SequencesExt, FiniteSets

\* A bid is better when higher, an ask when lower.
Better(side, p, q) == IF side = "Bid" THEN p > q ELSE p < q

\* A finite set of prices as a sequence, best first: the k-th price has k - 1
\* prices before it.
InPriority(pxs, side) ==
  [k \in 1 .. Cardinality(pxs) |->
     CHOOSE p \in pxs : Cardinality({q \in pxs : Better(side, q, p)}) = k - 1]

\* The keys of a map from prices, in the order the map is iterated in.
Ascending(pxs) == InPriority(pxs, "Ask")

-----------------------------------------------------------------------------
(* The FIFO of a level                                                     *)

Order(id, qty) == [id |-> id, qty |-> qty]

\* Position of `id' in the FIFO, 0 if it is not there.
PosOf(fifo, id) == SelectInSeq(fifo, LAMBDA o : o.id = id)

\* The quantity resting in the first n places of the FIFO.
QtyOfFirst(fifo, n) ==
  LET sum[k \in 0 .. n] == IF k = 0 THEN 0 ELSE sum[k-1] + fifo[k].qty
  IN  sum[n]

LevelQty(fifo) == QtyOfFirst(fifo, Len(fifo))

\* A level as (price, quantity, number of orders).
LevelTuple(px, fifo) == <<px, LevelQty(fifo), Len(fifo)>>

\* What a level adds to the input of the state hash: its price and the number of
\* its orders, then each order.  Sides and levels are not separated.
HashRecords(px, fifo) == <<<<px, Len(fifo)>>>> \o [i \in DOMAIN fifo |-> <<fifo[i].id, fifo[i].qty>>]

IdsOf(fifo) == {fifo[i].id : i \in DOMAIN fifo}
=============================================================================
