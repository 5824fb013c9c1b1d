-------------------------------- MODULE Slab --------------------------------
(***************************************************************************)
(* The order arena of ArrayBook (lob-core/src/slab.rs): a vector of slots  *)
(* with a free list threaded through `next'.  A slot belongs either to an  *)
(* order, and then its links are those of its level's FIFO, or to the free *)
(* list; the same two fields serve both, so a slot that is in both lists,  *)
(* or in none, corrupts a level long after the call that misplaced it.     *)
(*                                                                         *)
(* A slab is a value [slots, cap, freeHead, live]; slots is a function on  *)
(* 0 .. cap - 1, where cap is the length of the vector.                    *)
(***************************************************************************)
EXTENDS Integers, Maps

\* The link terminator, u32::MAX in the code: no slot has this index.
Nil == -1

\* The id a free slot is left with.
NoId == 0

-----------------------------------------------------------------------------
(* Slots.  The side of an order is the sign of its price.                  *)

SignedPx(side, px) == IF side = "Bid" THEN px ELSE -px

SideOf(slot) == IF slot.px < 0 THEN "Ask" ELSE "Bid"

AbsPx(slot) == IF slot.px < 0 THEN -slot.px ELSE slot.px

Slot(id, qty, px, prev, next) ==
  [id |-> id, qty |-> qty, px |-> px, prev |-> prev, next |-> next]

-----------------------------------------------------------------------------
(* The slab                                                                *)

EmptySlab == [slots |-> EmptyMap, cap |-> 0, freeHead |-> Nil, live |-> 0]

Indices(s) == 0 .. s.cap - 1

\* The index alloc returns: the head of the free list, or a new one at the end.
AllocAt(s) == IF s.freeHead # Nil THEN s.freeHead ELSE s.cap

Alloc(s, id, qty, px) ==
  LET at == AllocAt(s)
      slot == Slot(id, qty, px, Nil, Nil)
      reuse == s.freeHead # Nil
  IN  [slots    |-> [i \in Indices(s) \cup {at} |-> IF i = at THEN slot ELSE s.slots[i]],
       cap      |-> IF reuse THEN s.cap ELSE s.cap + 1,
       freeHead |-> IF reuse THEN s.slots[at].next ELSE Nil,
       live     |-> s.live + 1]

\* The caller has unlinked the slot from its level.
Free(s, i) ==
  [s EXCEPT !.slots[i] = Slot(NoId, 0, 0, Nil, s.freeHead),
            !.freeHead = i,
            !.live = s.live - 1]

-----------------------------------------------------------------------------
(* Walking a list from its head, as free_len, fifo and check_level do.     *)

\* The indices met from `head' on, in order; a cycle is cut at the capacity.
Chain(s, head) ==
  LET at[k \in 0 .. s.cap] ==
        IF k = 0 THEN head
        ELSE IF at[k-1] = Nil THEN Nil
        ELSE s.slots[at[k-1]].next
      met == {k \in 0 .. s.cap - 1 : at[k] # Nil}
      n == IF met = {} THEN 0 ELSE 1 + CHOOSE m \in met : \A k \in met : k <= m
  IN  [k \in 1 .. n |-> at[k-1]]
=============================================================================
