----------------------------- MODULE MarketBooks -----------------------------
(***************************************************************************)
(* What a replay promises of its books, whatever structure holds them and  *)
(* whenever it changes: one book per locate, and every order message is one *)
(* call on the book of its locate, exactly as the OrderBook trait answers   *)
(* it, while every other book stays as it is.                              *)
(***************************************************************************)
EXTENDS BookTypes

CONSTANT Locates   \* stock locate numbers

VARIABLES
  queues,  \* [Locates -> book value of OrderBook]
  op,      \* the call last made, with its arguments
  result   \* what it returned

vars == <<queues, op, result>>

Book(l) == INSTANCE OrderBook WITH queue <- queues[l]

Init == \A l \in Locates : Book(l)!Init

Next == \E l \in Locates :
          /\ Book(l)!Next
          /\ \A m \in Locates \ {l} : UNCHANGED queues[m]

Spec == Init /\ [][Next]_vars
=============================================================================
