------------------------------- MODULE RefBook -------------------------------
(***************************************************************************)
(* One RefBook (lob-core/src/reference.rs), the tree book, under any       *)
(* sequence of calls.  Each order is known in two places, and a level      *)
(* exists only while it holds an order: what can go wrong is the two maps  *)
(* drifting apart.                                                         *)
(***************************************************************************)
EXTENDS RefOps

VARIABLES
  book,    \* the book value of RefOps
  op,      \* the operation last called, with its arguments
  result   \* what it returned

vars == <<book, op, result>>

Init == book = EmptyRefBook /\ op = NoOp /\ result = NoResult

Do(o) ==
  LET after == Called(book, o)
  IN  /\ op' = o
      /\ result' = after.result
      /\ book' = after.book

Add(id, side, px, qty) == Do(AddOp(id, side, px, qty))
Cancel(id, qty) == Do(CancelOp(id, qty))
Delete(id) == Do(DeleteOp(id))
Execute(id, qty) == Do(ExecuteOp(id, qty))
Replace(old, new, px, qty) == Do(ReplaceOp(old, new, px, qty))

Next ==
  \/ \E id \in Ids, side \in Sides, px \in Prices, qty \in Qtys :
       Add(id, side, px, qty)
  \/ \E id \in Ids, qty \in Qtys : Cancel(id, qty)
  \/ \E id \in Ids : Delete(id)
  \/ \E id \in Ids, qty \in Qtys : Execute(id, qty)
  \/ \E old, new \in Ids, px \in Prices, qty \in Qtys : Replace(old, new, px, qty)

Spec == Init /\ [][Next]_vars

-----------------------------------------------------------------------------
(* Properties                                                              *)

ValidPrices == {p \in Prices : p > 0}

\* The book holds FIFOs of positive orders at valid prices, and the id map
\* names a side and a valid price for each id.
TypeOK ==
  /\ DOMAIN book = {"levels", "ids"}
  /\ DOMAIN book.levels = Sides
  /\ \A s \in Sides :
       /\ DOMAIN book.levels[s] \subseteq ValidPrices
       /\ \A p \in DOMAIN book.levels[s] :
            book.levels[s][p] \in Seq([id : Ids, qty : 1 .. MaxQty])
  /\ DOMAIN book.ids \subseteq Ids
  /\ \A id \in DOMAIN book.ids : book.ids[id] \in [side : Sides, px : ValidPrices]

\* The two places an order is known in never drift apart: the id map names
\* exactly the orders of the FIFOs, each at its level, and no id rests twice.
IdsMatchLevels ==
  /\ \A s \in Sides : \A p \in DOMAIN book.levels[s] :
       \A i \in DOMAIN book.levels[s][p] :
         LET id == book.levels[s][p][i].id
         IN  /\ id \in DOMAIN book.ids
             /\ book.ids[id] = [side |-> s, px |-> p]
             /\ \A j \in DOMAIN book.levels[s][p] :
                  book.levels[s][p][j].id = id => i = j
  /\ \A id \in DOMAIN book.ids : Found(book, id)

\* No sequence of calls, replaces into the same level included, makes a level
\* total exceed u32::MAX: level_view's cast to u32 loses nothing.
LevelFitsQty ==
  \A s \in Sides : \A p \in DOMAIN book.levels[s] :
    LevelQty(book.levels[s][p]) <= MaxQty

\* The two maps of the book agree, within the width of a level total.
BookConsistent == TypeOK /\ IdsMatchLevels /\ LevelFitsQty

\* RefBook keeps what the trait promises: same book, same events, same errors.
Promise ==
  INSTANCE OrderBook
    WITH queue <- [s \in Sides |-> [p \in ValidPrices |-> Fifo(book, s, p)]]

KeepsPromise == Promise!Spec

\* The queries, answered from the keys of the maps and the id map, answer what the
\* promised book says: no level outlives its last order.
QueriesAgree ==
  LET q == [s \in Sides |-> [p \in ValidPrices |-> Fifo(book, s, p)]]
  IN  /\ \A s \in Sides :
           /\ Best(book, s) = Promise!Best(q, s)
           /\ Snapshot(book, s) = Promise!Snapshot(q, s)
           /\ L2(book, s, 2) = Promise!L2(q, s, 2)
      /\ HashInput(book) = Promise!HashInput(q)
      /\ \A id \in DOMAIN book.ids : QueueAhead(book, id) = Promise!QueueAhead(q, id)
      /\ DOMAIN book.ids = Promise!LiveIds(q)
=============================================================================
