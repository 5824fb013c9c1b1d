---------------------------- MODULE RefBookProofs ----------------------------
(***************************************************************************)
(* The tree book, for all ids, prices, quantities and level limits: its    *)
(* two maps never drift apart, no level total outgrows its width, and it   *)
(* implements the book the trait promises, event by event.                 *)
(***************************************************************************)
EXTENDS RefBook, DataProofs

-----------------------------------------------------------------------------
(* The invariant, stated of a book value and in terms of the FIFO of each  *)
(* side and price, empty where the map has no level.                       *)

OrderSeq == Seq(OrdersOf(Ids, 1 .. MaxQty))

\* What the id map knows of an order.
At(side, px) == [side |-> side, px |-> px]

\* The fields of a book value.
IsBook(b) == DOMAIN b = {"levels", "ids"} /\ DOMAIN b.levels = Sides

\* The maps are finite maps, and no level outlives its last order.
Shaped(b) ==
  /\ IsBook(b)
  /\ \A s \in Sides :
       /\ DOMAIN b.levels[s] \subseteq ValidPrices
       /\ IsFiniteSet(DOMAIN b.levels[s])
       /\ \A p \in DOMAIN b.levels[s] : b.levels[s][p] # <<>>

\* Every level holds positive orders, whose total fits its width.
Filled(b) ==
  \A s \in Sides, p \in ValidPrices :
    /\ Fifo(b, s, p) \in OrderSeq
    /\ LevelQty(Fifo(b, s, p)) <= MaxQty

\* An order in a FIFO is in the id map with its level, and its id rests once.
Named(b) ==
  \A s \in Sides, p \in ValidPrices : \A i \in 1 .. Len(Fifo(b, s, p)) :
    LET id == Fifo(b, s, p)[i].id
    IN  /\ id \in DOMAIN b.ids
        /\ b.ids[id] = At(s, p)
        /\ \A j \in 1 .. Len(Fifo(b, s, p)) : Fifo(b, s, p)[j].id = id => j = i

\* An id in the map has an order in the FIFO the map names.
Resting(b) ==
  /\ DOMAIN b.ids \subseteq Ids
  /\ \A id \in DOMAIN b.ids :
       /\ b.ids[id] \in [side : Sides, px : ValidPrices]
       /\ \E i \in 1 .. Len(Fifo(b, b.ids[id].side, b.ids[id].px)) :
            Fifo(b, b.ids[id].side, b.ids[id].px)[i].id = id

Sound(b) == Shaped(b) /\ Filled(b) /\ Named(b) /\ Resting(b)

IInv == Sound(book)

LEMMA OrderSeqFacts ==
  ASSUME NEW f \in OrderSeq
  PROVE  /\ f \in Seq(OrdersOf(Ids, 1 .. MaxQty))
         /\ 1 .. MaxQty \in SUBSET Nat
         /\ Len(f) \in Nat
         /\ DOMAIN f = 1 .. Len(f)
         /\ \A i \in 1 .. Len(f) : /\ f[i] \in OrdersOf(Ids, 1 .. MaxQty)
                                   /\ f[i].id \in Ids /\ f[i].qty \in 1 .. MaxQty
         /\ LevelQty(f) \in Nat
         /\ \A i \in 1 .. Len(f) : f[i].qty <= LevelQty(f)
         /\ f # <<>> <=> Len(f) # 0
<1>1. 1 .. MaxQty \in SUBSET Nat /\ f \in Seq(OrdersOf(Ids, 1 .. MaxQty))
  BY DEF OrderSeq
<1>2. f # <<>> <=> Len(f) # 0
  BY <1>1, EmptySeq
<1> QED BY <1>1, <1>2, FifoQuantified, LevelQtyIsNat

LEMMA OrderSeqPos ==
  ASSUME NEW f \in OrderSeq, NEW id
  PROVE  /\ PosOf(f, id) # 0 <=> \E i \in 1 .. Len(f) : f[i].id = id
         /\ PosOf(f, id) # 0 => /\ PosOf(f, id) \in 1 .. Len(f)
                                /\ f[PosOf(f, id)].id = id
<1>1. f \in Seq(OrdersOf(Ids, 1 .. MaxQty)) /\ 1 .. MaxQty \in SUBSET Nat
  BY OrderSeqFacts
<1> DEFINE lots == 1 .. MaxQty
<1>2. lots \in SUBSET Nat /\ f \in Seq(OrdersOf(Ids, lots))
  BY <1>1
<1> HIDE DEF lots
<1> QED BY <1>2, PosOfFirst

-----------------------------------------------------------------------------
(* The invariant is what the run checks, and that no level is empty.       *)

LEMMA SoundIsConsistent == IInv => BookConsistent
<1> SUFFICES ASSUME IInv PROVE BookConsistent
  OBVIOUS
<1>1. ASSUME NEW s \in Sides, NEW p \in DOMAIN book.levels[s]
      PROVE  /\ p \in ValidPrices
             /\ book.levels[s][p] = Fifo(book, s, p)
             /\ book.levels[s][p] \in OrderSeq
             /\ DOMAIN book.levels[s][p] = 1 .. Len(book.levels[s][p])
             /\ LevelQty(book.levels[s][p]) <= MaxQty
  <2>1. p \in ValidPrices
    BY DEF IInv, Sound, Shaped
  <2>2. book.levels[s][p] = Fifo(book, s, p)
    BY DEF Fifo
  <2>3. Fifo(book, s, p) \in OrderSeq /\ LevelQty(Fifo(book, s, p)) <= MaxQty
    BY <2>1 DEF IInv, Sound, Filled
  <2> QED BY <2>1, <2>2, <2>3, OrderSeqFacts
<1>2. TypeOK
  <2>1. /\ DOMAIN book = {"levels", "ids"} /\ DOMAIN book.levels = Sides
        /\ \A s \in Sides : DOMAIN book.levels[s] \subseteq ValidPrices
    BY DEF IInv, Sound, Shaped, IsBook
  <2>2. /\ DOMAIN book.ids \subseteq Ids
        /\ \A id \in DOMAIN book.ids : book.ids[id] \in [side : Sides, px : ValidPrices]
    BY DEF IInv, Sound, Resting
  <2> QED BY <1>1, <2>1, <2>2 DEF TypeOK, OrderSeq, OrdersOf
<1>3. LevelFitsQty
  BY <1>1 DEF LevelFitsQty
<1>4. IdsMatchLevels
  <2>1. ASSUME NEW s \in Sides, NEW p \in DOMAIN book.levels[s],
               NEW i \in DOMAIN book.levels[s][p]
        PROVE  LET id == book.levels[s][p][i].id
               IN  /\ id \in DOMAIN book.ids
                   /\ book.ids[id] = [side |-> s, px |-> p]
                   /\ \A j \in DOMAIN book.levels[s][p] :
                        book.levels[s][p][j].id = id => i = j
    BY <1>1 DEF IInv, Sound, Named, At
  <2>2. ASSUME NEW id \in DOMAIN book.ids PROVE Found(book, id)
    <3> DEFINE at == book.ids[id]
               fifo == Fifo(book, at.side, at.px)
    <3>1. at \in [side : Sides, px : ValidPrices] /\ \E i \in 1 .. Len(fifo) : fifo[i].id = id
      BY DEF IInv, Sound, Resting
    <3>2. fifo \in OrderSeq
      BY <3>1 DEF IInv, Sound, Filled
    <3>3. PosOf(fifo, id) # 0
      <4> HIDE DEF fifo
      <4> QED BY <3>1, <3>2, OrderSeqPos
    <3> QED BY <3>3 DEF Found
  <2> QED BY <2>1, <2>2 DEF IdsMatchLevels
<1> QED BY <1>2, <1>3, <1>4 DEF BookConsistent

-----------------------------------------------------------------------------
(* Looking an order up.  In a sound book the scan of the FIFO finds every  *)
(* id of the map, so Found is no more than being in the map.               *)

LEMMA LookedUp ==
  ASSUME NEW b, Sound(b), NEW id \in DOMAIN b.ids
  PROVE  LET f == Find(b, id)
             fifo == Fifo(b, f.side, f.px)
         IN  /\ Found(b, id)
             /\ id \in Ids
             /\ b.ids[id] = At(f.side, f.px)
             /\ f = [side |-> f.side, px |-> f.px, pos |-> f.pos, qty |-> f.qty]
             /\ f.side \in Sides /\ f.px \in ValidPrices
             /\ f.pos = PosOf(fifo, id)
             /\ f.pos \in 1 .. Len(fifo)
             /\ f.qty = fifo[f.pos].qty /\ f.qty \in 1 .. MaxQty
             /\ \A i \in 1 .. Len(fifo) : fifo[i].id = id <=> i = f.pos
<1> DEFINE f == Find(b, id)
           at == b.ids[id]
           fifo == Fifo(b, at.side, at.px)
           pos == PosOf(fifo, id)
<1>1. /\ at \in [side : Sides, px : ValidPrices]
      /\ at = [side |-> at.side, px |-> at.px]
      /\ \E i \in 1 .. Len(fifo) : fifo[i].id = id
  BY DEF Sound, Resting
<1>2. f = [side |-> at.side, px |-> at.px, pos |-> pos, qty |-> fifo[pos].qty]
  BY DEF Find
<1>3. fifo \in OrderSeq
  BY <1>1 DEF Sound, Filled
<1>4. ASSUME NEW i \in 1 .. Len(fifo), NEW j \in 1 .. Len(fifo),
             fifo[i].id = id, fifo[j].id = id
      PROVE  i = j
  BY <1>1, <1>4 DEF Sound, Named
<1>5. id \in Ids
  BY DEF Sound, Resting
<1>6. Found(b, id) <=> pos # 0
  BY DEF Found
<1> HIDE DEF f, fifo
<1>7. pos # 0 /\ pos \in 1 .. Len(fifo) /\ fifo[pos].id = id
  BY <1>1, <1>3, OrderSeqPos
<1>8. fifo[pos].qty \in 1 .. MaxQty
  BY <1>3, <1>7, OrderSeqFacts
<1> HIDE DEF pos
<1>9. f.side = at.side /\ f.px = at.px /\ f.pos = pos /\ f.qty = fifo[pos].qty
  BY <1>2
<1>10. fifo = Fifo(b, f.side, f.px)
  BY <1>9 DEF fifo
<1>11. \A i \in 1 .. Len(fifo) : fifo[i].id = id <=> i = f.pos
  BY <1>4, <1>7, <1>9
<1>12. f.pos = PosOf(fifo, id)
  BY <1>9 DEF pos
<1>13. f.side \in Sides /\ f.px \in ValidPrices
  BY <1>1, <1>9
<1>14. f = [side |-> f.side, px |-> f.px, pos |-> f.pos, qty |-> f.qty]
  BY <1>2, <1>9
<1> HIDE DEF at
<1>15. b.ids[id] = At(f.side, f.px)
  BY <1>1, <1>9 DEF at, At
<1> QED BY <1>5, <1>6, <1>7, <1>8, <1>9, <1>10, <1>11, <1>12, <1>13, <1>14, <1>15 DEF f

LEMMA FoundIsNamed ==
  ASSUME NEW b, Sound(b), NEW id
  PROVE  Found(b, id) <=> id \in DOMAIN b.ids
BY LookedUp DEF Found

-----------------------------------------------------------------------------
(* Resting an order                                                        *)

Newcomer(f, id, qty) == Append(f, Order(id, qty))

LEMMA PushedFields ==
  ASSUME NEW b, Sound(b), NEW id, NEW side \in Sides, NEW px \in ValidPrices, NEW qty
  PROVE  LET c == PushTail(b, id, side, px, qty)
         IN  IsBook(c) /\ c.ids = With(b.ids, id, At(side, px))
BY DEF PushTail, Sound, Shaped, IsBook, At

LEMMA PushedLevels ==
  ASSUME NEW b, Sound(b), NEW id, NEW side \in Sides, NEW px \in ValidPrices, NEW qty,
         NEW s \in Sides
  PROVE  PushTail(b, id, side, px, qty).levels[s] =
           IF s = side THEN With(b.levels[side], px, Newcomer(Fifo(b, side, px), id, qty))
                       ELSE b.levels[s]
BY DEF PushTail, Sound, Shaped, IsBook, Newcomer

LEMMA PushedFifos ==
  ASSUME NEW b, Sound(b), NEW id, NEW side \in Sides, NEW px \in ValidPrices, NEW qty,
         NEW s \in Sides, NEW p \in ValidPrices
  PROVE  Fifo(PushTail(b, id, side, px, qty), s, p) =
           IF s = side /\ p = px THEN Newcomer(Fifo(b, side, px), id, qty)
                                 ELSE Fifo(b, s, p)
<1> DEFINE c == PushTail(b, id, side, px, qty)
           h == Newcomer(Fifo(b, side, px), id, qty)
<1>1. c.levels[s] = IF s = side THEN With(b.levels[side], px, h) ELSE b.levels[s]
  BY PushedLevels
<1> HIDE DEF c, h
<1>2. Fifo(c, s, p) = IF s = side /\ p = px THEN h ELSE Fifo(b, s, p)
  BY <1>1 DEF Fifo, With
<1> QED BY <1>2 DEF c, h

LEMMA NewcomersFifo ==
  ASSUME NEW f \in OrderSeq, NEW id \in Ids, NEW qty \in 1 .. MaxQty
  PROVE  LET h == Newcomer(f, id, qty)
         IN  /\ h \in OrderSeq /\ h # <<>>
             /\ Len(h) = Len(f) + 1
             /\ \A i \in 1 .. Len(f) : h[i] = f[i]
             /\ h[Len(f) + 1].id = id
             /\ LevelQty(h) = LevelQty(f) + qty
<1> DEFINE lots == 1 .. MaxQty
           o == Order(id, qty)
<1>1. lots \in SUBSET Nat /\ f \in Seq(OrdersOf(Ids, lots)) /\ OrderSeq = Seq(OrdersOf(Ids, lots))
  BY DEF OrderSeq
<1>2. o \in OrdersOf(Ids, lots) /\ o.qty = qty /\ o.id = id
  BY DEF OrdersOf, Order
<1>3. Len(f) \in Nat
  BY OrderSeqFacts
<1> DEFINE h == Append(f, o)
<1> HIDE DEF lots, o
<1>4. /\ h \in OrderSeq
      /\ Len(h) = Len(f) + 1
      /\ \A i \in 1 .. Len(f) : h[i] = f[i]
      /\ h[Len(f) + 1] = o
      /\ LevelQty(h) = LevelQty(f) + o.qty
  BY <1>1, <1>2, AppendedFifo
<1>5. h = Newcomer(f, id, qty)
  BY DEF Newcomer, o
<1> HIDE DEF h
<1>6. h # <<>>
  BY <1>3, <1>4, OrderSeqFacts
<1> QED BY <1>2, <1>4, <1>5, <1>6

LEMMA FifoIsOrderSeq ==
  ASSUME NEW b, Sound(b), NEW s \in Sides, NEW p \in ValidPrices
  PROVE  Fifo(b, s, p) \in OrderSeq /\ LevelQty(Fifo(b, s, p)) <= MaxQty
BY DEF Sound, Filled

LEMMA PushedIsSound ==
  ASSUME NEW b, Sound(b), NEW id \in Ids, id \notin DOMAIN b.ids,
         NEW side \in Sides, NEW px \in ValidPrices, NEW qty \in 1 .. MaxQty,
         LevelQty(Fifo(b, side, px)) + qty <= MaxQty
  PROVE  Sound(PushTail(b, id, side, px, qty))
<1> DEFINE c == PushTail(b, id, side, px, qty)
           f == Fifo(b, side, px)
           h == Newcomer(f, id, qty)
<1>1. f \in OrderSeq /\ Len(f) \in Nat /\ LevelQty(f) + qty <= MaxQty
  BY FifoIsOrderSeq, OrderSeqFacts
<1>2. /\ h \in OrderSeq /\ h # <<>>
      /\ Len(h) = Len(f) + 1
      /\ \A i \in 1 .. Len(f) : h[i] = f[i]
      /\ h[Len(f) + 1].id = id
      /\ LevelQty(h) <= MaxQty
  BY <1>1, NewcomersFifo
<1>3. ASSUME NEW s \in Sides, NEW p \in ValidPrices
      PROVE  Fifo(c, s, p) = IF s = side /\ p = px THEN h ELSE Fifo(b, s, p)
  BY PushedFifos
<1>4. ASSUME NEW s \in Sides
      PROVE  c.levels[s] = IF s = side THEN With(b.levels[side], px, h) ELSE b.levels[s]
  BY PushedLevels
<1>5. /\ DOMAIN c.ids = DOMAIN b.ids \cup {id}
      /\ c.ids[id] = At(side, px)
      /\ \A x \in DOMAIN b.ids : x # id => c.ids[x] = b.ids[x]
  <2>1. c.ids = With(b.ids, id, At(side, px))
    BY PushedFields
  <2> HIDE DEF c
  <2> QED BY <2>1 DEF With
<1>6. IsBook(c)
  BY PushedFields
<1>7. Shaped(c)
  <2> HIDE DEF c, h
  <2>1. ASSUME NEW s \in Sides
        PROVE  /\ DOMAIN c.levels[s] \subseteq ValidPrices
               /\ IsFiniteSet(DOMAIN c.levels[s])
               /\ \A p \in DOMAIN c.levels[s] : c.levels[s][p] # <<>>
    <3>1. CASE s = side
      <4> DEFINE m == b.levels[side]
      <4>1. c.levels[s] = With(m, px, h)
        BY <1>4, <3>1
      <4>2. /\ DOMAIN m \subseteq ValidPrices /\ IsFiniteSet(DOMAIN m)
            /\ \A p \in DOMAIN m : m[p] # <<>>
        BY DEF Sound, Shaped
      <4> HIDE DEF m
      <4>3. /\ DOMAIN c.levels[s] = DOMAIN m \cup {px}
            /\ \A p \in DOMAIN c.levels[s] : c.levels[s][p] = IF p = px THEN h ELSE m[p]
        BY <4>1 DEF With
      <4>4. IsFiniteSet(DOMAIN m \cup {px})
        BY <4>2, FS_AddElement
      <4> QED BY <1>2, <4>2, <4>3, <4>4
    <3>2. CASE s # side
      BY <1>4, <3>2 DEF Sound, Shaped
    <3> QED BY <3>1, <3>2
  <2> QED BY <1>6, <2>1 DEF Shaped
<1>8. Filled(c)
  <2> HIDE DEF c, h
  <2> QED BY <1>2, <1>3, FifoIsOrderSeq DEF Filled
<1>9. Named(c)
  <2> HIDE DEF c, h
  <2>1. ASSUME NEW s \in Sides, NEW p \in ValidPrices, NEW i \in 1 .. Len(Fifo(c, s, p)),
               NEW j \in 1 .. Len(Fifo(c, s, p)), Fifo(c, s, p)[j].id = Fifo(c, s, p)[i].id
        PROVE  j = i
    <3>1. CASE s = side /\ p = px
      <4>1. Fifo(c, s, p) = h
        BY <1>3, <3>1
      <4>2. \A k \in 1 .. Len(f) : f[k].id # id
        <5> SUFFICES ASSUME NEW k \in 1 .. Len(f) PROVE f[k].id \in DOMAIN b.ids
          OBVIOUS
        <5> QED BY DEF Sound, Named
      <4>3. i \in 1 .. Len(f) \/ i = Len(f) + 1
        BY <1>1, <1>2, <4>1
      <4>4. j \in 1 .. Len(f) \/ j = Len(f) + 1
        BY <1>1, <1>2, <4>1
      <4>5. CASE i \in 1 .. Len(f) /\ j \in 1 .. Len(f)
        <5>1. f[j].id = f[i].id
          BY <1>2, <2>1, <4>1, <4>5
        <5> QED BY <4>5, <5>1 DEF Sound, Named
      <4> QED BY <1>2, <2>1, <4>1, <4>2, <4>3, <4>4, <4>5
    <3>2. CASE ~(s = side /\ p = px)
      <4>1. Fifo(c, s, p) = Fifo(b, s, p)
        BY <1>3, <3>2
      <4> QED BY <2>1, <4>1 DEF Sound, Named
    <3> QED BY <3>1, <3>2
  <2>2. ASSUME NEW s \in Sides, NEW p \in ValidPrices, NEW i \in 1 .. Len(Fifo(c, s, p))
        PROVE  /\ Fifo(c, s, p)[i].id \in DOMAIN c.ids
               /\ c.ids[Fifo(c, s, p)[i].id] = At(s, p)
    <3> DEFINE x == Fifo(c, s, p)[i].id
    <3>1. CASE s = side /\ p = px /\ i = Len(f) + 1
      <4>1. x = id
        BY <1>2, <1>3, <3>1
      <4> QED BY <1>5, <3>1, <4>1
    <3>2. CASE ~(s = side /\ p = px /\ i = Len(f) + 1)
      <4>1. i \in 1 .. Len(Fifo(b, s, p)) /\ x = Fifo(b, s, p)[i].id
        BY <1>1, <1>2, <1>3, <3>2
      <4>2. x \in DOMAIN b.ids /\ b.ids[x] = At(s, p)
        BY <4>1 DEF Sound, Named
      <4> QED BY <1>5, <4>2
    <3> QED BY <3>1, <3>2
  <2> QED BY <2>1, <2>2 DEF Named
<1>10. Resting(c)
  <2> HIDE DEF c, h
  <2>1. ASSUME NEW x \in DOMAIN c.ids
        PROVE  /\ c.ids[x] \in [side : Sides, px : ValidPrices]
               /\ \E i \in 1 .. Len(Fifo(c, c.ids[x].side, c.ids[x].px)) :
                    Fifo(c, c.ids[x].side, c.ids[x].px)[i].id = x
    <3>1. CASE x = id
      <4>1. c.ids[x].side = side /\ c.ids[x].px = px
        BY <1>5, <3>1 DEF At
      <4>2. Fifo(c, side, px) = h /\ Len(f) + 1 \in 1 .. Len(h)
        BY <1>1, <1>2, <1>3
      <4> QED BY <1>2, <1>5, <3>1, <4>1, <4>2 DEF At
    <3>2. CASE x # id
      <4> DEFINE s == b.ids[x].side
                 p == b.ids[x].px
      <4>1. /\ x \in DOMAIN b.ids /\ c.ids[x] = b.ids[x]
            /\ b.ids[x] \in [side : Sides, px : ValidPrices]
        BY <1>5, <3>2 DEF Sound, Resting
      <4>2. PICK i \in 1 .. Len(Fifo(b, s, p)) : Fifo(b, s, p)[i].id = x
        BY <4>1 DEF Sound, Resting
      <4>3. s \in Sides /\ p \in ValidPrices
        BY <4>1
      <4> HIDE DEF s, p
      <4>4. i \in 1 .. Len(Fifo(c, s, p)) /\ Fifo(c, s, p)[i].id = x
        BY <1>1, <1>2, <1>3, <4>2, <4>3
      <4> QED BY <4>1, <4>4 DEF s, p
    <3> QED BY <3>1, <3>2
  <2> QED BY <1>5, <2>1 DEF Resting, Sound
<1> QED BY <1>7, <1>8, <1>9, <1>10 DEF Sound

-----------------------------------------------------------------------------
(* Taking from an order                                                    *)

\* The levels of a side after a change of the FIFO at px: one that is left empty goes.
Rebound(m, px, h) == [m EXCEPT ![px] = h]

Trimmed(m, px, h) == IF h = <<>> THEN Without(m, px) ELSE Rebound(m, px, h)

\* The level of a live order is a key of the map.
LEMMA LevelHolds ==
  ASSUME NEW b, Sound(b), NEW id \in DOMAIN b.ids, NEW f, f = Find(b, id)
  PROVE  /\ f.px \in DOMAIN b.levels[f.side]
         /\ Fifo(b, f.side, f.px) = b.levels[f.side][f.px]
<1>1. f.pos \in 1 .. Len(Fifo(b, f.side, f.px))
  BY LookedUp
<1>2. Fifo(b, f.side, f.px) # <<>>
  BY <1>1, EmptySeq
<1> QED BY <1>2 DEF Fifo

LEMMA ReducedFields ==
  ASSUME NEW b, Sound(b), NEW id \in DOMAIN b.ids, NEW f, f = Find(b, id),
         NEW by, by # f.qty
  PROVE  LET c == Take(b, id, f, by) IN IsBook(c) /\ c.ids = b.ids
BY DEF Take, Sound, Shaped, IsBook

LEMMA ReducedLevels ==
  ASSUME NEW b, Sound(b), NEW id \in DOMAIN b.ids, NEW f, f = Find(b, id),
         NEW by, by # f.qty, NEW s \in Sides
  PROVE  Take(b, id, f, by).levels[s] =
           IF s = f.side
           THEN Rebound(b.levels[s], f.px, Reduced(b.levels[s][f.px], f.pos, f.qty - by))
           ELSE b.levels[s]
<1> DEFINE c == Take(b, id, f, by)
           q == f.qty - by
<1>1. c = [b EXCEPT !.levels[f.side][f.px][f.pos].qty = q]
  BY DEF Take
<1>2. f.side \in Sides
  BY LookedUp
<1> HIDE DEF c, q
<1>3. c.levels = [b.levels EXCEPT ![f.side][f.px][f.pos].qty = q]
  BY <1>1 DEF Sound, Shaped, IsBook
<1>4. c.levels[f.side] = [b.levels[f.side] EXCEPT ![f.px][f.pos].qty = q]
  BY <1>2, <1>3 DEF Sound, Shaped, IsBook
<1>5. s # f.side => c.levels[s] = b.levels[s]
  BY <1>3 DEF Sound, Shaped, IsBook
<1>6. s = f.side => c.levels[s] =
        Rebound(b.levels[s], f.px, Reduced(b.levels[s][f.px], f.pos, q))
  BY <1>4 DEF Reduced, Rebound
<1> QED BY <1>5, <1>6 DEF c, q

LEMMA ReducedFifos ==
  ASSUME NEW b, Sound(b), NEW id \in DOMAIN b.ids, NEW f, f = Find(b, id),
         NEW by, by # f.qty, NEW s \in Sides, NEW p \in ValidPrices
  PROVE  Fifo(Take(b, id, f, by), s, p) =
           IF s = f.side /\ p = f.px
           THEN Reduced(Fifo(b, f.side, f.px), f.pos, f.qty - by)
           ELSE Fifo(b, s, p)
<1> DEFINE c == Take(b, id, f, by)
           h == Reduced(b.levels[f.side][f.px], f.pos, f.qty - by)
<1>1. s = f.side => c.levels[s] = Rebound(b.levels[s], f.px, h)
  BY ReducedLevels
<1>2. s # f.side => c.levels[s] = b.levels[s]
  BY ReducedLevels
<1>3. f.px \in DOMAIN b.levels[f.side] /\ Fifo(b, f.side, f.px) = b.levels[f.side][f.px]
  BY LevelHolds
<1> HIDE DEF c, h
<1>4. Fifo(c, s, p) = IF s = f.side /\ p = f.px THEN h ELSE Fifo(b, s, p)
  BY <1>1, <1>2, <1>3 DEF Fifo, Rebound
<1> QED BY <1>3, <1>4 DEF c, h

LEMMA LeftFields ==
  ASSUME NEW b, Sound(b), NEW id \in DOMAIN b.ids, NEW f, f = Find(b, id)
  PROVE  LET c == Take(b, id, f, f.qty) IN IsBook(c) /\ c.ids = Without(b.ids, id)
BY DEF Take, Sound, Shaped, IsBook

LEMMA LeftLevels ==
  ASSUME NEW b, Sound(b), NEW id \in DOMAIN b.ids, NEW f, f = Find(b, id), NEW s \in Sides
  PROVE  Take(b, id, f, f.qty).levels[s] =
           IF s = f.side THEN Trimmed(b.levels[s], f.px, RemoveAt(b.levels[s][f.px], f.pos))
                         ELSE b.levels[s]
<1> DEFINE c == Take(b, id, f, f.qty)
           h == RemoveAt(b.levels[f.side][f.px], f.pos)
           m == Trimmed(b.levels[f.side], f.px, h)
<1>1. c = [b EXCEPT !.levels[f.side] = m, !.ids = Without(@, id)]
  BY DEF Take, Trimmed, Rebound
<1>2. f.side \in Sides
  BY LookedUp
<1> HIDE DEF c, m
<1>3. c.levels[s] = IF s # f.side THEN b.levels[s] ELSE m
  BY <1>1, <1>2 DEF Sound, Shaped, IsBook
<1> QED BY <1>3 DEF c, m

LEMMA LeftFifos ==
  ASSUME NEW b, Sound(b), NEW id \in DOMAIN b.ids, NEW f, f = Find(b, id),
         NEW s \in Sides, NEW p \in ValidPrices
  PROVE  Fifo(Take(b, id, f, f.qty), s, p) =
           IF s = f.side /\ p = f.px THEN RemoveAt(Fifo(b, f.side, f.px), f.pos)
                                     ELSE Fifo(b, s, p)
<1> DEFINE c == Take(b, id, f, f.qty)
           h == RemoveAt(b.levels[f.side][f.px], f.pos)
<1>1. s # f.side => c.levels[s] = b.levels[s]
  BY LeftLevels
<1>2. s = f.side => c.levels[s] = Trimmed(b.levels[s], f.px, h)
  BY LeftLevels
<1>3. f.px \in DOMAIN b.levels[f.side] /\ Fifo(b, f.side, f.px) = b.levels[f.side][f.px]
  BY LevelHolds
<1> HIDE DEF c, h
<1>4. Fifo(c, s, p) = IF s = f.side /\ p = f.px THEN h ELSE Fifo(b, s, p)
  <2>1. CASE s = f.side
    <3>1. p # f.px => Fifo(c, s, p) = Fifo(b, s, p)
      BY <1>2, <2>1 DEF Fifo, Trimmed, Rebound, Without
    <3>2. Fifo(c, s, f.px) = h
      BY <1>2, <1>3, <2>1 DEF Fifo, Trimmed, Rebound, Without
    <3> QED BY <2>1, <3>1, <3>2
  <2>2. CASE s # f.side
    BY <1>1, <2>2 DEF Fifo
  <2> QED BY <2>1, <2>2
<1> QED BY <1>3, <1>4 DEF c, h

LEMMA ReducedOrders ==
  ASSUME NEW f \in OrderSeq, NEW at \in 1 .. Len(f), NEW qty \in 1 .. MaxQty
  PROVE  LET h == Reduced(f, at, qty)
         IN  /\ h \in OrderSeq
             /\ Len(h) = Len(f)
             /\ \A i \in 1 .. Len(f) : h[i].id = f[i].id
             /\ LevelQty(h) = LevelQty(f) - f[at].qty + qty
<1> DEFINE lots == 1 .. MaxQty
<1>1. /\ lots \in SUBSET Nat /\ f \in Seq(OrdersOf(Ids, lots))
      /\ OrderSeq = Seq(OrdersOf(Ids, lots)) /\ qty \in lots
  BY DEF OrderSeq
<1> DEFINE h == Reduced(f, at, qty)
<1> HIDE DEF lots
<1>2. /\ h \in OrderSeq
      /\ Len(h) = Len(f)
      /\ \A i \in 1 .. Len(f) : i # at => h[i] = f[i]
      /\ h[at] = Order(f[at].id, qty)
      /\ LevelQty(h) = LevelQty(f) - f[at].qty + qty
  BY <1>1, ReducedFifo
<1> HIDE DEF h
<1>3. \A i \in 1 .. Len(f) : h[i].id = f[i].id
  BY <1>2 DEF Order
<1> QED BY <1>2, <1>3 DEF h

LEMMA RemovedOrders ==
  ASSUME NEW f \in OrderSeq, NEW at \in 1 .. Len(f)
  PROVE  LET h == RemoveAt(f, at)
         IN  /\ h \in OrderSeq
             /\ Len(h) = Len(f) - 1
             /\ \A i \in 1 .. Len(f) - 1 : h[i] = IF i < at THEN f[i] ELSE f[i + 1]
             /\ LevelQty(h) = LevelQty(f) - f[at].qty
<1> DEFINE lots == 1 .. MaxQty
<1>1. /\ lots \in SUBSET Nat /\ f \in Seq(OrdersOf(Ids, lots))
      /\ OrderSeq = Seq(OrdersOf(Ids, lots))
  BY DEF OrderSeq
<1> HIDE DEF lots
<1> QED BY <1>1, RemovedFifo

LEMMA ReducedIsSound ==
  ASSUME NEW b, Sound(b), NEW id \in DOMAIN b.ids, NEW f, f = Find(b, id),
         NEW by \in 1 .. f.qty, by # f.qty
  PROVE  Sound(Take(b, id, f, by))
<1> DEFINE c == Take(b, id, f, by)
           g == Fifo(b, f.side, f.px)
           h == Reduced(g, f.pos, f.qty - by)
<1>1. /\ f.side \in Sides /\ f.px \in ValidPrices
      /\ f.pos \in 1 .. Len(g) /\ f.qty = g[f.pos].qty /\ f.qty \in 1 .. MaxQty
  BY LookedUp
<1>2. g \in OrderSeq /\ LevelQty(g) <= MaxQty /\ Len(g) \in Nat /\ LevelQty(g) \in Nat
  <2>1. g \in OrderSeq /\ LevelQty(g) <= MaxQty
    BY <1>1, FifoIsOrderSeq
  <2> HIDE DEF g
  <2> QED BY <2>1, OrderSeqFacts
<1>3. f.qty - by \in 1 .. MaxQty
  BY <1>1, ArgumentTypes
<1>4. /\ h \in OrderSeq /\ Len(h) = Len(g)
      /\ \A i \in 1 .. Len(g) : h[i].id = g[i].id
      /\ LevelQty(h) <= MaxQty
  <2> HIDE DEF g
  <2>1. /\ h \in OrderSeq /\ Len(h) = Len(g)
        /\ \A i \in 1 .. Len(g) : h[i].id = g[i].id
        /\ LevelQty(h) = LevelQty(g) - g[f.pos].qty + (f.qty - by)
    BY <1>1, <1>2, <1>3, ReducedOrders
  <2> HIDE DEF h
  <2> QED BY <1>1, <1>2, <2>1, ArgumentTypes
<1>5. ASSUME NEW s \in Sides, NEW p \in ValidPrices
      PROVE  Fifo(c, s, p) = IF s = f.side /\ p = f.px THEN h ELSE Fifo(b, s, p)
  BY ReducedFifos
<1>6. IsBook(c) /\ c.ids = b.ids
  BY ReducedFields
<1>7. ASSUME NEW s \in Sides
      PROVE  c.levels[s] = IF s = f.side THEN Rebound(b.levels[s], f.px, h) ELSE b.levels[s]
  <2>1. Fifo(b, f.side, f.px) = b.levels[f.side][f.px]
    BY LevelHolds
  <2> QED BY <2>1, ReducedLevels
<1> HIDE DEF c, h
<1>8. h # <<>>
  BY <1>1, <1>4, EmptySeq
<1>9. Shaped(c)
  <2>1. ASSUME NEW s \in Sides
        PROVE  /\ DOMAIN c.levels[s] \subseteq ValidPrices
               /\ IsFiniteSet(DOMAIN c.levels[s])
               /\ \A p \in DOMAIN c.levels[s] : c.levels[s][p] # <<>>
    <3> DEFINE m == b.levels[s]
    <3>1. /\ DOMAIN m \subseteq ValidPrices /\ IsFiniteSet(DOMAIN m)
          /\ \A p \in DOMAIN m : m[p] # <<>>
      BY DEF Sound, Shaped
    <3>2. c.levels[s] = Rebound(m, f.px, h) \/ c.levels[s] = m
      BY <1>7
    <3> HIDE DEF m
    <3> QED BY <1>8, <3>1, <3>2 DEF Rebound
  <2> QED BY <1>6, <2>1 DEF Shaped
<1>10. Filled(c)
  BY <1>4, <1>5, FifoIsOrderSeq DEF Filled
<1>11. ASSUME NEW s \in Sides, NEW p \in ValidPrices
       PROVE  /\ Len(Fifo(c, s, p)) = Len(Fifo(b, s, p))
              /\ \A i \in 1 .. Len(Fifo(b, s, p)) : Fifo(c, s, p)[i].id = Fifo(b, s, p)[i].id
  BY <1>4, <1>5
<1>12. Named(c)
  <2> SUFFICES ASSUME NEW s \in Sides, NEW p \in ValidPrices, NEW i \in 1 .. Len(Fifo(c, s, p))
               PROVE  /\ Fifo(c, s, p)[i].id \in DOMAIN c.ids
                      /\ c.ids[Fifo(c, s, p)[i].id] = At(s, p)
                      /\ \A j \in 1 .. Len(Fifo(c, s, p)) :
                           Fifo(c, s, p)[j].id = Fifo(c, s, p)[i].id => j = i
    BY DEF Named
  <2> QED BY <1>6, <1>11 DEF Sound, Named
<1>13. Resting(c)
  <2>1. ASSUME NEW x \in DOMAIN b.ids
        PROVE  /\ b.ids[x] \in [side : Sides, px : ValidPrices]
               /\ \E i \in 1 .. Len(Fifo(c, b.ids[x].side, b.ids[x].px)) :
                    Fifo(c, b.ids[x].side, b.ids[x].px)[i].id = x
    <3>1. /\ b.ids[x] \in [side : Sides, px : ValidPrices]
          /\ \E i \in 1 .. Len(Fifo(b, b.ids[x].side, b.ids[x].px)) :
               Fifo(b, b.ids[x].side, b.ids[x].px)[i].id = x
      BY DEF Sound, Resting
    <3> QED BY <1>11, <3>1
  <2> QED BY <1>6, <2>1 DEF Resting, Sound
<1> QED BY <1>9, <1>10, <1>12, <1>13 DEF Sound, c

LEMMA LeftIsSound ==
  ASSUME NEW b, Sound(b), NEW id \in DOMAIN b.ids, NEW f, f = Find(b, id)
  PROVE  Sound(Take(b, id, f, f.qty))
<1> DEFINE c == Take(b, id, f, f.qty)
           g == Fifo(b, f.side, f.px)
           h == RemoveAt(g, f.pos)
<1>1. /\ f.side \in Sides /\ f.px \in ValidPrices
      /\ f.pos \in 1 .. Len(g) /\ f.qty = g[f.pos].qty /\ f.qty \in 1 .. MaxQty
      /\ b.ids[id] = At(f.side, f.px)
      /\ \A i \in 1 .. Len(g) : g[i].id = id <=> i = f.pos
  BY LookedUp
<1>2. g \in OrderSeq /\ LevelQty(g) <= MaxQty /\ Len(g) \in Nat /\ LevelQty(g) \in Nat
  <2>1. g \in OrderSeq /\ LevelQty(g) <= MaxQty
    BY <1>1, FifoIsOrderSeq
  <2> HIDE DEF g
  <2> QED BY <2>1, OrderSeqFacts
<1>3. /\ h \in OrderSeq /\ Len(h) = Len(g) - 1
      /\ \A i \in 1 .. Len(g) - 1 : h[i] = IF i < f.pos THEN g[i] ELSE g[i + 1]
      /\ LevelQty(h) <= MaxQty
  <2> HIDE DEF g
  <2>1. /\ h \in OrderSeq /\ Len(h) = Len(g) - 1
        /\ \A i \in 1 .. Len(g) - 1 : h[i] = IF i < f.pos THEN g[i] ELSE g[i + 1]
        /\ LevelQty(h) = LevelQty(g) - g[f.pos].qty
    BY <1>1, <1>2, RemovedOrders
  <2> HIDE DEF h
  <2> QED BY <1>1, <1>2, <2>1, ArgumentTypes
<1>4. ASSUME NEW s \in Sides, NEW p \in ValidPrices
      PROVE  Fifo(c, s, p) = IF s = f.side /\ p = f.px THEN h ELSE Fifo(b, s, p)
  BY LeftFifos
<1>5. IsBook(c) /\ DOMAIN c.ids = DOMAIN b.ids \ {id}
      /\ \A x \in DOMAIN b.ids : x # id => c.ids[x] = b.ids[x]
  <2>1. IsBook(c) /\ c.ids = Without(b.ids, id)
    BY LeftFields
  <2> HIDE DEF c
  <2> QED BY <2>1 DEF Without
<1>6. ASSUME NEW s \in Sides
      PROVE  c.levels[s] = IF s = f.side THEN Trimmed(b.levels[s], f.px, h) ELSE b.levels[s]
  <2>1. Fifo(b, f.side, f.px) = b.levels[f.side][f.px]
    BY LevelHolds
  <2> QED BY <2>1, LeftLevels
<1> HIDE DEF c, h
<1>7. Shaped(c)
  <2>1. ASSUME NEW s \in Sides
        PROVE  /\ DOMAIN c.levels[s] \subseteq ValidPrices
               /\ IsFiniteSet(DOMAIN c.levels[s])
               /\ \A p \in DOMAIN c.levels[s] : c.levels[s][p] # <<>>
    <3> DEFINE m == b.levels[s]
    <3>1. /\ DOMAIN m \subseteq ValidPrices /\ IsFiniteSet(DOMAIN m)
          /\ \A p \in DOMAIN m : m[p] # <<>>
      BY DEF Sound, Shaped
    <3>2. c.levels[s] = Trimmed(m, f.px, h) \/ c.levels[s] = m
      BY <1>6
    <3> HIDE DEF m
    <3>3. CASE h = <<>>
      <4>1. IsFiniteSet(DOMAIN m \ {f.px})
        BY <3>1, FS_RemoveElement
      <4> QED BY <3>1, <3>2, <3>3, <4>1 DEF Trimmed, Without
    <3>4. CASE h # <<>>
      BY <3>1, <3>2, <3>4 DEF Trimmed, Rebound
    <3> QED BY <3>3, <3>4
  <2> QED BY <1>5, <2>1 DEF Shaped
<1>8. Filled(c)
  BY <1>3, <1>4, FifoIsOrderSeq DEF Filled
<1> DEFINE Old(i) == IF i < f.pos THEN i ELSE i + 1
<1>9. /\ \A i \in 1 .. Len(h) : /\ Old(i) \in 1 .. Len(g) /\ Old(i) # f.pos
                                /\ h[i] = g[Old(i)]
      /\ \A i, j \in 1 .. Len(h) : Old(i) = Old(j) => i = j
      /\ \A k \in 1 .. Len(g) : k # f.pos => \E i \in 1 .. Len(h) : h[i] = g[k]
  <2> HIDE DEF g
  <2>1. \A i \in 1 .. Len(h) : /\ Old(i) \in 1 .. Len(g) /\ Old(i) # f.pos
                                /\ h[i] = g[Old(i)]
    BY <1>1, <1>2, <1>3
  <2>2. \A i, j \in 1 .. Len(h) : Old(i) = Old(j) => i = j
    BY <1>1, <1>2, <1>3
  <2>3. ASSUME NEW k \in 1 .. Len(g), k # f.pos
        PROVE  \E i \in 1 .. Len(h) : h[i] = g[k]
    <3>1. CASE k < f.pos
      <4>1. k \in 1 .. Len(h) /\ h[k] = g[k]
        BY <1>1, <1>2, <1>3, <3>1
      <4> QED BY <4>1
    <3>2. CASE ~(k < f.pos)
      <4>1. k - 1 \in 1 .. Len(h) /\ h[k - 1] = g[(k - 1) + 1] /\ (k - 1) + 1 = k
        BY <1>1, <1>2, <1>3, <2>3, <3>2
      <4> QED BY <4>1
    <3> QED BY <3>1, <3>2
  <2> QED BY <2>1, <2>2, <2>3
<1> HIDE DEF Old
<1>10. Named(c)
  <2>1. ASSUME NEW s \in Sides, NEW p \in ValidPrices, NEW i \in 1 .. Len(Fifo(c, s, p))
        PROVE  /\ Fifo(c, s, p)[i].id \in DOMAIN c.ids
               /\ c.ids[Fifo(c, s, p)[i].id] = At(s, p)
               /\ \A j \in 1 .. Len(Fifo(c, s, p)) :
                    Fifo(c, s, p)[j].id = Fifo(c, s, p)[i].id => j = i
    <3>1. CASE s = f.side /\ p = f.px
      <4>1. Fifo(c, s, p) = h
        BY <1>4, <3>1
      <4>2. /\ g[Old(i)].id \in DOMAIN b.ids
            /\ b.ids[g[Old(i)].id] = At(s, p)
            /\ \A k \in 1 .. Len(g) : g[k].id = g[Old(i)].id => k = Old(i)
        BY <1>1, <1>9, <3>1, <4>1 DEF Sound, Named
      <4>3. g[Old(i)].id # id
        BY <1>1, <1>9, <4>1
      <4> QED BY <1>5, <1>9, <4>1, <4>2, <4>3
    <3>2. CASE ~(s = f.side /\ p = f.px)
      <4>1. Fifo(c, s, p) = Fifo(b, s, p)
        BY <1>4, <3>2
      <4> DEFINE x == Fifo(b, s, p)[i].id
      <4>2. /\ x \in DOMAIN b.ids
            /\ b.ids[x] = At(s, p)
            /\ \A j \in 1 .. Len(Fifo(b, s, p)) : Fifo(b, s, p)[j].id = x => j = i
        BY <4>1 DEF Sound, Named
      <4>3. x # id
        BY <1>1, <3>2, <4>2 DEF At
      <4> QED BY <1>5, <4>1, <4>2, <4>3
    <3> QED BY <3>1, <3>2
  <2> QED BY <2>1 DEF Named
<1>11. Resting(c)
  <2>1. ASSUME NEW x \in DOMAIN b.ids, x # id
        PROVE  /\ b.ids[x] \in [side : Sides, px : ValidPrices]
               /\ \E i \in 1 .. Len(Fifo(c, b.ids[x].side, b.ids[x].px)) :
                    Fifo(c, b.ids[x].side, b.ids[x].px)[i].id = x
    <3> DEFINE s == b.ids[x].side
               p == b.ids[x].px
    <3>1. b.ids[x] \in [side : Sides, px : ValidPrices]
      BY DEF Sound, Resting
    <3>2. PICK k \in 1 .. Len(Fifo(b, s, p)) : Fifo(b, s, p)[k].id = x
      BY DEF Sound, Resting
    <3>3. s \in Sides /\ p \in ValidPrices
      BY <3>1
    <3> HIDE DEF s, p
    <3>4. CASE s = f.side /\ p = f.px
      <4>1. k \in 1 .. Len(g) /\ g[k].id = x /\ k # f.pos
        BY <1>1, <2>1, <3>2, <3>4
      <4>2. PICK i \in 1 .. Len(h) : h[i] = g[k]
        BY <1>9, <4>1
      <4>3. Fifo(c, s, p) = h
        BY <1>4, <3>3, <3>4
      <4> QED BY <3>1, <4>1, <4>2, <4>3 DEF s, p
    <3>5. CASE ~(s = f.side /\ p = f.px)
      <4>1. Fifo(c, s, p) = Fifo(b, s, p)
        BY <1>4, <3>3, <3>5
      <4> QED BY <3>1, <3>2, <4>1 DEF s, p
    <3> QED BY <3>4, <3>5
  <2> QED BY <1>5, <2>1 DEF Resting, Sound
<1> QED BY <1>7, <1>8, <1>10, <1>11 DEF Sound, c

-----------------------------------------------------------------------------
(* The calls.  One that returns no error meets what its change needs.      *)

LEMMA ErrorsDiffer ==
  /\ BadQty # NoError /\ BadPrice # NoError
  /\ \A kind, id : UnknownId(kind, id) # NoError
  /\ \A id : DuplicateId(id) # NoError
  /\ \A id, have, want : OverExecute(id, have, want) # NoError
<1> DEFINE Kind(e) == e.error
<1>1. /\ Kind(NoError) = "None" /\ Kind(BadQty) = "BadQty" /\ Kind(BadPrice) = "BadPrice"
      /\ \A kind, id : Kind(UnknownId(kind, id)) = "UnknownId"
      /\ \A id : Kind(DuplicateId(id)) = "DuplicateId"
      /\ \A id, have, want : Kind(OverExecute(id, have, want)) = "OverExecute"
  BY DEF NoError, BadQty, BadPrice, UnknownId, DuplicateId, OverExecute
<1> HIDE DEF Kind
<1> QED BY <1>1

LEMMA OutcomeOf ==
  ASSUME NEW before, NEW e, NEW after, NEW event
  PROVE  /\ e = NoError => /\ Outcome(before, e, after, event).book = after
                           /\ Outcome(before, e, after, event).result = Ok(event)
         /\ e # NoError => /\ Outcome(before, e, after, event).book = before
                           /\ Outcome(before, e, after, event).result = Err(e)
BY DEF Outcome

\* A quantity that is not zero is one an order may rest with.
LEMMA QtyRests ==
  ASSUME NEW qty \in Qtys, qty # 0
  PROVE  qty \in 1 .. MaxQty
BY ArgumentTypes

LEMMA PriceIsValid ==
  ASSUME NEW px \in Prices, ~(px <= 0)
  PROVE  px \in ValidPrices
BY ArgumentTypes DEF ValidPrices

\* What an added order finds.
LEMMA AddMay ==
  ASSUME NEW b, Sound(b), NEW id \in Ids, NEW side \in Sides, NEW px \in Prices,
         NEW qty \in Qtys, AddError(b, id, side, px, qty) = NoError
  PROVE  /\ id \notin DOMAIN b.ids /\ px \in ValidPrices /\ qty \in 1 .. MaxQty
         /\ LevelQty(Fifo(b, side, px)) + qty <= MaxQty
<1>1. /\ qty # 0 /\ ~(px <= 0) /\ ~WouldOverflow(b, side, px, 0, qty)
      /\ id \notin DOMAIN b.ids
  BY ErrorsDiffer DEF AddError
<1>2. px \in ValidPrices /\ qty \in 1 .. MaxQty
  BY <1>1, QtyRests, PriceIsValid
<1> DEFINE q == LevelQty(Fifo(b, side, px))
<1>3. q \in Nat
  BY <1>2, FifoIsOrderSeq, OrderSeqFacts
<1>4. ~(q - 0 + qty > MaxQty)
  BY <1>1 DEF WouldOverflow
<1> HIDE DEF q
<1>5. q + qty <= MaxQty
  BY <1>2, <1>3, <1>4, ArgumentTypes
<1> QED BY <1>1, <1>2, <1>5 DEF q

LEMMA AddedIsSound ==
  ASSUME NEW b, Sound(b), NEW id \in Ids, NEW side \in Sides, NEW px \in Prices,
         NEW qty \in Qtys
  PROVE  Sound(Added(b, AddOp(id, side, px, qty)).book)
<1> DEFINE e == AddError(b, id, side, px, qty)
           c == PushTail(b, id, side, px, qty)
           event == AddEvent(id, side, px, qty)
<1>1. Added(b, AddOp(id, side, px, qty)) = Outcome(b, e, c, event)
  BY DEF Added, AddOp
<1>2. CASE e = NoError
  <2>1. Sound(c)
    BY <1>2, AddMay, PushedIsSound
  <2> HIDE DEF e, c, event
  <2> QED BY <1>1, <1>2, <2>1, OutcomeOf
<1>3. CASE e # NoError
  <2> HIDE DEF e, c, event
  <2> QED BY <1>1, <1>3, OutcomeOf
<1> QED BY <1>2, <1>3

LEMMA TakenIsSound ==
  ASSUME NEW b, Sound(b), NEW id \in DOMAIN b.ids, NEW f, f = Find(b, id),
         NEW by \in 1 .. f.qty
  PROVE  Sound(Take(b, id, f, by))
BY ReducedIsSound, LeftIsSound

LEMMA CancelledIsSound ==
  ASSUME NEW b, Sound(b), NEW id \in Ids, NEW qty \in Qtys
  PROVE  Sound(Cancelled(b, CancelOp(id, qty)).book)
<1> DEFINE f == Find(b, id)
           removed == IF qty < f.qty THEN qty ELSE f.qty
           e == CancelError(b, id, qty)
           c == Take(b, id, f, removed)
           event == CancelEvent(id, f.side, f.px, removed, f.qty - removed)
<1>1. Cancelled(b, CancelOp(id, qty)) = Outcome(b, e, c, event)
  BY DEF Cancelled, CancelOp
<1>2. CASE e = NoError
  <2>1. id \in DOMAIN b.ids /\ qty # 0
    BY <1>2, ErrorsDiffer DEF CancelError, Found
  <2>2. qty \in 1 .. MaxQty /\ f.qty \in 1 .. MaxQty
    BY <2>1, QtyRests, LookedUp
  <2>3. removed \in 1 .. f.qty
    <3> HIDE DEF f
    <3> QED BY <2>2, ArgumentTypes
  <2>4. Sound(c)
    BY <2>1, <2>3, TakenIsSound
  <2> HIDE DEF e, c, event
  <2> QED BY <1>1, <1>2, <2>4, OutcomeOf
<1>3. CASE e # NoError
  <2> HIDE DEF e, c, event
  <2> QED BY <1>1, <1>3, OutcomeOf
<1> QED BY <1>2, <1>3

LEMMA DeletedIsSound ==
  ASSUME NEW b, Sound(b), NEW id \in Ids
  PROVE  Sound(Deleted(b, DeleteOp(id)).book)
<1> DEFINE f == Find(b, id)
           e == DeleteError(b, id)
           c == Take(b, id, f, f.qty)
           event == DeleteEvent(id, f.side, f.px, f.qty)
<1>1. Deleted(b, DeleteOp(id)) = Outcome(b, e, c, event)
  BY DEF Deleted, DeleteOp
<1>2. CASE e = NoError
  <2>1. id \in DOMAIN b.ids
    BY <1>2, ErrorsDiffer DEF DeleteError, Found
  <2>2. Sound(c)
    BY <2>1, LeftIsSound
  <2> HIDE DEF e, c, event
  <2> QED BY <1>1, <1>2, <2>2, OutcomeOf
<1>3. CASE e # NoError
  <2> HIDE DEF e, c, event
  <2> QED BY <1>1, <1>3, OutcomeOf
<1> QED BY <1>2, <1>3

LEMMA ExecutedIsSound ==
  ASSUME NEW b, Sound(b), NEW id \in Ids, NEW qty \in Qtys
  PROVE  Sound(Executed(b, ExecuteOp(id, qty)).book)
<1> DEFINE f == Find(b, id)
           e == ExecuteError(b, id, qty)
           c == Take(b, id, f, qty)
           event == ExecEvent(id, f.side, f.px, qty, f.qty - qty)
<1>1. Executed(b, ExecuteOp(id, qty)) = Outcome(b, e, c, event)
  BY DEF Executed, ExecuteOp
<1>2. CASE e = NoError
  <2>1. id \in DOMAIN b.ids /\ qty # 0 /\ ~(qty > f.qty)
    BY <1>2, ErrorsDiffer DEF ExecuteError, Found
  <2>2. qty \in 1 .. MaxQty /\ f.qty \in 1 .. MaxQty
    BY <2>1, QtyRests, LookedUp
  <2>3. qty \in 1 .. f.qty
    <3> HIDE DEF f
    <3> QED BY <2>1, <2>2, ArgumentTypes
  <2>4. Sound(c)
    BY <2>1, <2>3, TakenIsSound
  <2> HIDE DEF e, c, event
  <2> QED BY <1>1, <1>2, <2>4, OutcomeOf
<1>3. CASE e # NoError
  <2> HIDE DEF e, c, event
  <2> QED BY <1>1, <1>3, OutcomeOf
<1> QED BY <1>2, <1>3

\* The level a replaced order's successor goes to has room for it once the order
\* has left.
LEMMA ReplaceMay ==
  ASSUME NEW b, Sound(b), NEW old \in Ids, NEW new \in Ids, NEW px \in Prices,
         NEW qty \in Qtys, ReplaceError(b, old, new, px, qty) = NoError
  PROVE  LET f == Find(b, old)
             c == Take(b, old, f, f.qty)
         IN  /\ old \in DOMAIN b.ids /\ f.side \in Sides
             /\ px \in ValidPrices /\ qty \in 1 .. MaxQty
             /\ Sound(c) /\ new \notin DOMAIN c.ids
             /\ LevelQty(Fifo(c, f.side, px)) + qty <= MaxQty
<1> DEFINE f == Find(b, old)
           c == Take(b, old, f, f.qty)
           minus == IF px = f.px THEN f.qty ELSE 0
<1>1. /\ Found(b, old) /\ new \notin DOMAIN b.ids /\ qty # 0 /\ ~(px <= 0)
      /\ ~WouldOverflow(b, f.side, px, minus, qty)
  BY ErrorsDiffer DEF ReplaceError
<1>2. px \in ValidPrices /\ qty \in 1 .. MaxQty
  BY <1>1, QtyRests, PriceIsValid
<1>3. old \in DOMAIN b.ids
  BY <1>1 DEF Found
<1> DEFINE g == Fifo(b, f.side, f.px)
<1>4. /\ f.side \in Sides /\ f.px \in ValidPrices
      /\ f.pos \in 1 .. Len(g) /\ f.qty = g[f.pos].qty /\ f.qty \in 1 .. MaxQty
  BY <1>3, LookedUp
<1>5. Sound(c)
  BY <1>3, LeftIsSound
<1>6. new \notin DOMAIN c.ids
  <2>1. c.ids = Without(b.ids, old)
    BY <1>3, LeftFields
  <2> HIDE DEF c
  <2> QED BY <1>1, <2>1 DEF Without
<1>7. Fifo(c, f.side, px) = IF px = f.px THEN RemoveAt(g, f.pos) ELSE Fifo(b, f.side, px)
  BY <1>2, <1>3, <1>4, LeftFifos
<1>8. LevelQty(RemoveAt(g, f.pos)) = LevelQty(g) - f.qty
  <2>1. g \in OrderSeq
    BY <1>4, FifoIsOrderSeq
  <2> HIDE DEF g
  <2> QED BY <1>4, <2>1, RemovedOrders
<1> DEFINE q == LevelQty(Fifo(b, f.side, px))
<1>9. q \in Nat
  BY <1>2, <1>4, FifoIsOrderSeq, OrderSeqFacts
<1>10. ~(q - minus + qty > MaxQty)
  BY <1>1 DEF WouldOverflow
<1>11. LevelQty(Fifo(c, f.side, px)) = q - minus
  <2>1. CASE px = f.px
    <3>1. minus = f.qty /\ q = LevelQty(g)
      BY <2>1
    <3>2. Fifo(c, f.side, px) = RemoveAt(g, f.pos)
      BY <1>7, <2>1
    <3> HIDE DEF c, f, g, minus, q
    <3> QED BY <1>8, <3>1, <3>2
  <2>2. CASE px # f.px
    <3>1. minus = 0 /\ Fifo(c, f.side, px) = Fifo(b, f.side, px)
      BY <1>7, <2>2
    <3>2. LevelQty(Fifo(c, f.side, px)) = q
      BY <3>1
    <3> HIDE DEF c, f, minus, q
    <3> QED BY <1>9, <3>1, <3>2
  <2> QED BY <2>1, <2>2
<1>12. minus \in Nat
  <2> HIDE DEF f
  <2> QED BY <1>4
<1>13. LevelQty(Fifo(c, f.side, px)) + qty <= MaxQty
  <2> HIDE DEF c, f, minus, q
  <2> QED BY <1>2, <1>9, <1>10, <1>11, <1>12, ArgumentTypes
<1> QED BY <1>2, <1>3, <1>4, <1>5, <1>6, <1>13

LEMMA ReplacedIsSound ==
  ASSUME NEW b, Sound(b), NEW old \in Ids, NEW new \in Ids, NEW px \in Prices,
         NEW qty \in Qtys
  PROVE  Sound(Replaced(b, ReplaceOp(old, new, px, qty)).book)
<1> DEFINE f == Find(b, old)
           e == ReplaceError(b, old, new, px, qty)
           without == Take(b, old, f, f.qty)
           c == PushTail(without, new, f.side, px, qty)
           event == ReplaceEvent(old, new, f.side, px, qty)
<1>1. Replaced(b, ReplaceOp(old, new, px, qty)) = Outcome(b, e, c, event)
  BY DEF Replaced, ReplaceOp
<1>2. CASE e = NoError
  <2>1. /\ f.side \in Sides /\ px \in ValidPrices /\ qty \in 1 .. MaxQty
        /\ Sound(without) /\ new \notin DOMAIN without.ids
        /\ LevelQty(Fifo(without, f.side, px)) + qty <= MaxQty
    BY <1>2, ReplaceMay
  <2>2. Sound(c)
    <3> HIDE DEF without, f
    <3> QED BY <2>1, PushedIsSound
  <2> HIDE DEF e, c, event
  <2> QED BY <1>1, <1>2, <2>2, OutcomeOf
<1>3. CASE e # NoError
  <2> HIDE DEF e, c, event
  <2> QED BY <1>1, <1>3, OutcomeOf
<1> QED BY <1>2, <1>3

-----------------------------------------------------------------------------
(* The two maps never drift apart, and no level total outgrows its width.  *)

LEMMA EmptyFifos ==
  \A s \in Sides, p \in ValidPrices : Fifo(EmptyRefBook, s, p) = <<>>
BY DEF EmptyRefBook, EmptyMap, Fifo

LEMMA EmptyIsSound == Sound(EmptyRefBook)
<1> DEFINE b == EmptyRefBook
<1>1. /\ IsBook(b) /\ DOMAIN b.ids = {}
      /\ \A s \in Sides : DOMAIN b.levels[s] = {}
  BY DEF EmptyRefBook, EmptyMap, IsBook
<1>2. \A s \in Sides, p \in ValidPrices : Fifo(b, s, p) = <<>>
  BY EmptyFifos
<1> HIDE DEF b
<1>3. <<>> \in OrderSeq /\ LevelQty(<<>>) <= MaxQty /\ Len(<<>>) = 0
  BY EmptyLevelQty, EmptySeq, ArgumentTypes DEF OrderSeq
<1>4. Shaped(b)
  BY <1>1, FS_EmptySet DEF Shaped
<1>5. Filled(b)
  BY <1>2, <1>3 DEF Filled
<1>6. Named(b)
  BY <1>2, <1>3 DEF Named
<1>7. Resting(b)
  BY <1>1 DEF Resting
<1>8. Sound(b)
  BY <1>4, <1>5, <1>6, <1>7 DEF Sound
<1> QED BY <1>8 DEF b

LEMMA InitIsSound == Init => IInv
BY EmptyIsSound DEF Init, IInv

\* The call an action makes, by its kind.
LEMMA CalledKinds ==
  /\ \A b, id, side, px, qty :
       Called(b, AddOp(id, side, px, qty)) = Added(b, AddOp(id, side, px, qty))
  /\ \A b, id, qty : Called(b, CancelOp(id, qty)) = Cancelled(b, CancelOp(id, qty))
  /\ \A b, id : Called(b, DeleteOp(id)) = Deleted(b, DeleteOp(id))
  /\ \A b, id, qty : Called(b, ExecuteOp(id, qty)) = Executed(b, ExecuteOp(id, qty))
  /\ \A b, old, new, px, qty :
       Called(b, ReplaceOp(old, new, px, qty)) = Replaced(b, ReplaceOp(old, new, px, qty))
<1>1. /\ \A id, side, px, qty : AddOp(id, side, px, qty).kind = "Add"
      /\ \A id, qty : CancelOp(id, qty).kind = "Cancel"
      /\ \A id : DeleteOp(id).kind = "Delete"
      /\ \A id, qty : ExecuteOp(id, qty).kind = "Exec"
      /\ \A old, new, px, qty : ReplaceOp(old, new, px, qty).kind = "Replace"
  BY DEF AddOp, CancelOp, DeleteOp, ExecuteOp, ReplaceOp
<1> QED BY <1>1 DEF Called

LEMMA StepIsSound == IInv /\ [Next]_vars => IInv'
<1> SUFFICES ASSUME IInv, [Next]_vars PROVE IInv'
  OBVIOUS
<1>1. Sound(book)
  BY DEF IInv
<1>2. ASSUME NEW id \in Ids, NEW side \in Sides, NEW px \in Prices, NEW qty \in Qtys,
             Add(id, side, px, qty)
      PROVE  Sound(book')
  <2>1. book' = Added(book, AddOp(id, side, px, qty)).book
    BY <1>2, CalledKinds DEF Add, Do
  <2> QED BY <1>1, <2>1, AddedIsSound
<1>3. ASSUME NEW id \in Ids, NEW qty \in Qtys, Cancel(id, qty) PROVE Sound(book')
  <2>1. book' = Cancelled(book, CancelOp(id, qty)).book
    BY <1>3, CalledKinds DEF Cancel, Do
  <2> QED BY <1>1, <2>1, CancelledIsSound
<1>4. ASSUME NEW id \in Ids, Delete(id) PROVE Sound(book')
  <2>1. book' = Deleted(book, DeleteOp(id)).book
    BY <1>4, CalledKinds DEF Delete, Do
  <2> QED BY <1>1, <2>1, DeletedIsSound
<1>5. ASSUME NEW id \in Ids, NEW qty \in Qtys, Execute(id, qty) PROVE Sound(book')
  <2>1. book' = Executed(book, ExecuteOp(id, qty)).book
    BY <1>5, CalledKinds DEF Execute, Do
  <2> QED BY <1>1, <2>1, ExecutedIsSound
<1>6. ASSUME NEW old \in Ids, NEW new \in Ids, NEW px \in Prices, NEW qty \in Qtys,
             Replace(old, new, px, qty)
      PROVE  Sound(book')
  <2>1. book' = Replaced(book, ReplaceOp(old, new, px, qty)).book
    BY <1>6, CalledKinds DEF Replace, Do
  <2> QED BY <1>1, <2>1, ReplacedIsSound
<1>7. ASSUME UNCHANGED vars PROVE Sound(book')
  BY <1>1, <1>7 DEF vars
<1>8. Sound(book')
  BY <1>2, <1>3, <1>4, <1>5, <1>6, <1>7 DEF Next
<1> QED BY <1>8 DEF IInv

THEOREM SpecIsSound == Spec => []IInv
<1> QED BY InitIsSound, StepIsSound, PTL DEF Spec

\* The id map names exactly the orders of the levels, each at its level and once,
\* whatever sequence of calls is made, and no level total exceeds u32::MAX.
THEOREM SpecIsConsistent == Spec => []BookConsistent
<1> QED BY SpecIsSound, SoundIsConsistent, PTL

-----------------------------------------------------------------------------
(* The book that is promised.  The vocabulary is the same on both sides.   *)

Q(b) == [s \in Sides |-> [p \in ValidPrices |-> Fifo(b, s, p)]]

LEMMA SameVocabulary ==
  /\ Promise!Sides = Sides /\ Promise!ValidPrices = ValidPrices
  /\ Promise!NoOp = NoOp /\ Promise!NoResult = NoResult
  /\ Promise!NoError = NoError /\ Promise!BadQty = BadQty /\ Promise!BadPrice = BadPrice
  /\ \A kind, id : Promise!UnknownId(kind, id) = UnknownId(kind, id)
  /\ \A id : Promise!DuplicateId(id) = DuplicateId(id)
  /\ \A id, have, want : Promise!OverExecute(id, have, want) = OverExecute(id, have, want)
  /\ \A x : Promise!Ok(x) = Ok(x) /\ Promise!Err(x) = Err(x)
  /\ \A id, qty : Promise!Order(id, qty) = Order(id, qty)
BY DEF Sides, Promise!Sides, ValidPrices, Promise!ValidPrices, NoOp, Promise!NoOp,
       NoResult, Promise!NoResult, NoError, Promise!NoError, BadQty, Promise!BadQty,
       BadPrice, Promise!BadPrice, UnknownId, Promise!UnknownId, DuplicateId,
       Promise!DuplicateId, OverExecute, Promise!OverExecute, Ok, Promise!Ok,
       Err, Promise!Err, Order, Promise!Order

LEMMA SameOps ==
  /\ \A id, side, px, qty : Promise!AddOp(id, side, px, qty) = AddOp(id, side, px, qty)
  /\ \A id, qty : Promise!CancelOp(id, qty) = CancelOp(id, qty)
  /\ \A id : Promise!DeleteOp(id) = DeleteOp(id)
  /\ \A id, qty : Promise!ExecuteOp(id, qty) = ExecuteOp(id, qty)
  /\ \A old, new, px, qty : Promise!ReplaceOp(old, new, px, qty) = ReplaceOp(old, new, px, qty)
BY DEF AddOp, Promise!AddOp, CancelOp, Promise!CancelOp, DeleteOp, Promise!DeleteOp,
       ExecuteOp, Promise!ExecuteOp, ReplaceOp, Promise!ReplaceOp

LEMMA SameEvents ==
  /\ \A id, side, px, qty : Promise!AddEvent(id, side, px, qty) = AddEvent(id, side, px, qty)
  /\ \A id, side, px, x, y : Promise!CancelEvent(id, side, px, x, y) = CancelEvent(id, side, px, x, y)
  /\ \A id, side, px, x : Promise!DeleteEvent(id, side, px, x) = DeleteEvent(id, side, px, x)
  /\ \A id, side, px, x, y : Promise!ExecEvent(id, side, px, x, y) = ExecEvent(id, side, px, x, y)
  /\ \A old, new, side, px, qty :
       Promise!ReplaceEvent(old, new, side, px, qty) = ReplaceEvent(old, new, side, px, qty)
BY DEF AddEvent, Promise!AddEvent, CancelEvent, Promise!CancelEvent, DeleteEvent,
       Promise!DeleteEvent, ExecEvent, Promise!ExecEvent, ReplaceEvent, Promise!ReplaceEvent,
       Event, Promise!Event, SideCode, Promise!SideCode

LEMMA SameFifos ==
  ASSUME NEW f, NEW id
  PROVE  /\ Promise!PosOf(f, id) = PosOf(f, id)
         /\ Promise!LevelQty(f) = LevelQty(f)
         /\ Promise!IdsOf(f) = IdsOf(f)
<1>1. Promise!PosOf(f, id) = PosOf(f, id)
  BY DEF PosOf, Promise!PosOf, SelectInSeq, Promise!SelectInSeq, Min, Promise!Min
<1>2. Promise!LevelQty(f) = LevelQty(f)
  BY DEF LevelQty, Promise!LevelQty, QtyOfFirst, Promise!QtyOfFirst
<1>3. Promise!IdsOf(f) = IdsOf(f)
  BY DEF IdsOf, Promise!IdsOf
<1> QED BY <1>1, <1>2, <1>3

-----------------------------------------------------------------------------
(* Looking up finds the same, and the changes are the same                 *)

LEMMA RestsAt ==
  ASSUME NEW b, Sound(b), NEW s \in Sides, NEW p \in ValidPrices, NEW id
  PROVE  id \in IdsOf(Fifo(b, s, p)) <=> id \in DOMAIN b.ids /\ b.ids[id] = At(s, p)
<1> DEFINE f == Fifo(b, s, p)
<1>1. DOMAIN f = 1 .. Len(f)
  <2>1. f \in OrderSeq
    BY FifoIsOrderSeq
  <2> HIDE DEF f
  <2> QED BY <2>1, OrderSeqFacts
<1>2. id \in IdsOf(f) <=> \E i \in 1 .. Len(f) : f[i].id = id
  <2> HIDE DEF f
  <2> QED BY <1>1 DEF IdsOf
<1>3. ASSUME NEW i \in 1 .. Len(f), f[i].id = id
      PROVE  id \in DOMAIN b.ids /\ b.ids[id] = At(s, p)
  BY <1>3 DEF Sound, Named
<1>4. ASSUME id \in DOMAIN b.ids, b.ids[id] = At(s, p)
      PROVE  \E i \in 1 .. Len(f) : f[i].id = id
  BY <1>4 DEF Sound, Resting, At
<1> QED BY <1>2, <1>3, <1>4

LEMMA SameLive ==
  ASSUME NEW b, Sound(b)
  PROVE  Promise!LiveIds(Q(b)) = DOMAIN b.ids
<1>1. ASSUME NEW id
      PROVE  id \in Promise!LiveIds(Q(b)) <=>
               \E s \in Sides, p \in ValidPrices : id \in IdsOf(Fifo(b, s, p))
  BY SameVocabulary, SameFifos DEF Promise!LiveIds, Q
<1>2. ASSUME NEW id \in DOMAIN b.ids
      PROVE  \E s \in Sides, p \in ValidPrices : id \in IdsOf(Fifo(b, s, p))
  <2>1. /\ Find(b, id).side \in Sides /\ Find(b, id).px \in ValidPrices
        /\ b.ids[id] = At(Find(b, id).side, Find(b, id).px)
    BY LookedUp
  <2> QED BY <2>1, RestsAt
<1> QED BY <1>1, <1>2, RestsAt

LEMMA SameFind ==
  ASSUME NEW b, Sound(b), NEW id \in DOMAIN b.ids
  PROVE  Promise!Find(Q(b), id) = Find(b, id)
<1> DEFINE f == Find(b, id)
           Here(at) == id \in Promise!IdsOf(Q(b)[at[1]][at[2]])
           at == CHOOSE at \in Promise!Sides \X Promise!ValidPrices : Here(at)
<1>1. /\ f.side \in Sides /\ f.px \in ValidPrices /\ b.ids[id] = At(f.side, f.px)
      /\ f.pos = PosOf(Fifo(b, f.side, f.px), id)
      /\ f.qty = Fifo(b, f.side, f.px)[f.pos].qty
      /\ f = [side |-> f.side, px |-> f.px, pos |-> f.pos, qty |-> f.qty]
  BY LookedUp
<1> HIDE DEF f
<1>2. ASSUME NEW s \in Sides, NEW p \in ValidPrices
      PROVE  Here(<<s, p>>) <=> s = f.side /\ p = f.px
  <2>1. Here(<<s, p>>) <=> id \in IdsOf(Fifo(b, s, p))
    BY SameFifos DEF Q
  <2>2. id \in IdsOf(Fifo(b, s, p)) <=> b.ids[id] = At(s, p)
    BY RestsAt
  <2> HIDE DEF Here
  <2> QED BY <1>1, <2>1, <2>2 DEF At
<1> HIDE DEF Here
<1>3. at = <<f.side, f.px>>
  <2>1. Promise!Sides \X Promise!ValidPrices = Sides \X ValidPrices
    BY SameVocabulary
  <2>2. <<f.side, f.px>> \in Sides \X ValidPrices /\ Here(<<f.side, f.px>>)
    BY <1>1, <1>2
  <2>3. at \in Sides \X ValidPrices /\ Here(at)
    BY <2>1, <2>2
  <2> HIDE DEF at
  <2>4. at = <<at[1], at[2]>> /\ at[1] \in Sides /\ at[2] \in ValidPrices
    BY <2>3
  <2>5. at[1] = f.side /\ at[2] = f.px
    BY <1>2, <2>3, <2>4
  <2> QED BY <2>4, <2>5
<1> DEFINE fifo == Q(b)[at[1]][at[2]]
           pos == Promise!PosOf(fifo, id)
<1>4. Promise!Find(Q(b), id) = [side |-> at[1], px |-> at[2], pos |-> pos, qty |-> fifo[pos].qty]
  BY DEF Promise!Find, Here
<1> HIDE DEF at
<1>5. fifo = Fifo(b, f.side, f.px) /\ at[1] = f.side /\ at[2] = f.px
  BY <1>1, <1>3 DEF Q
<1> HIDE DEF fifo
<1>6. pos = f.pos
  BY <1>1, <1>5, SameFifos
<1> HIDE DEF pos
<1> QED BY <1>1, <1>4, <1>5, <1>6 DEF f

\* The promised book with another FIFO at one level.
Changed(q, side, px, h) == [q EXCEPT ![side][px] = h]

LEMMA SameChange ==
  ASSUME NEW b, NEW c, NEW side \in Sides, NEW px \in ValidPrices, NEW h,
         \A s \in Sides, p \in ValidPrices :
           Fifo(c, s, p) = IF s = side /\ p = px THEN h ELSE Fifo(b, s, p)
  PROVE  Changed(Q(b), side, px, h) = Q(c)
BY DEF Q, Changed

LEMMA SamePush ==
  ASSUME NEW b, Sound(b), NEW id, NEW side \in Sides, NEW px \in ValidPrices, NEW qty
  PROVE  Promise!PushTail(Q(b), side, px, Order(id, qty)) = Q(PushTail(b, id, side, px, qty))
<1> DEFINE c == PushTail(b, id, side, px, qty)
           h == Newcomer(Fifo(b, side, px), id, qty)
<1>1. Promise!PushTail(Q(b), side, px, Order(id, qty)) = Changed(Q(b), side, px, h)
  BY DEF Promise!PushTail, Q, Newcomer, Changed
<1>2. ASSUME NEW s \in Sides, NEW p \in ValidPrices
      PROVE  Fifo(c, s, p) = IF s = side /\ p = px THEN h ELSE Fifo(b, s, p)
  BY PushedFifos
<1> HIDE DEF c, h
<1>3. Changed(Q(b), side, px, h) = Q(c)
  BY <1>2, SameChange
<1> QED BY <1>1, <1>3 DEF c

LEMMA SameTake ==
  ASSUME NEW b, Sound(b), NEW id \in DOMAIN b.ids, NEW f, f = Find(b, id), NEW by
  PROVE  Promise!TakeFrom(Q(b), f, by) = Q(Take(b, id, f, by))
<1> DEFINE c == Take(b, id, f, by)
           g == Fifo(b, f.side, f.px)
           h == IF by = f.qty THEN RemoveAt(g, f.pos) ELSE Reduced(g, f.pos, f.qty - by)
<1>1. f.side \in Sides /\ f.px \in ValidPrices
  BY LookedUp
<1>2. Promise!TakeFrom(Q(b), f, by) = Changed(Q(b), f.side, f.px, h)
  BY <1>1 DEF Changed, Promise!TakeFrom, Q, Reduced, RemoveAt, Promise!RemoveAt
<1>3. ASSUME NEW s \in Sides, NEW p \in ValidPrices
      PROVE  Fifo(c, s, p) = IF s = f.side /\ p = f.px THEN h ELSE Fifo(b, s, p)
  <2>1. CASE by = f.qty
    BY <2>1, LeftFifos
  <2>2. CASE by # f.qty
    BY <2>2, ReducedFifos
  <2> QED BY <2>1, <2>2
<1> HIDE DEF c, h
<1>4. Changed(Q(b), f.side, f.px, h) = Q(c)
  BY <1>1, <1>3, SameChange
<1> QED BY <1>2, <1>4 DEF c

-----------------------------------------------------------------------------
(* The first error of each call is the promised one.                       *)

LEMMA SameAddError ==
  ASSUME NEW b, Sound(b), NEW id, NEW side \in Sides, NEW px \in Prices, NEW qty \in Qtys
  PROVE  Promise!AddError(Q(b), id, side, px, qty) = AddError(b, id, side, px, qty)
<1>1. CASE qty = 0 \/ px <= 0
  BY <1>1, SameVocabulary DEF AddError, Promise!AddError
<1>2. CASE ~(qty = 0) /\ ~(px <= 0)
  <2>1. px \in ValidPrices
    BY <1>2, PriceIsValid
  <2> DEFINE q == LevelQty(Fifo(b, side, px))
  <2>2. Promise!LevelQty(Q(b)[side][px]) = q
    BY <2>1, SameFifos DEF Q
  <2>3. q \in Nat
    BY <2>1, FifoIsOrderSeq, OrderSeqFacts
  <2>4. WouldOverflow(b, side, px, 0, qty) <=> q - 0 + qty > MaxQty
    BY DEF WouldOverflow
  <2>5. id \in Promise!LiveIds(Q(b)) <=> id \in DOMAIN b.ids
    BY SameLive
  <2>6. AddError(b, id, side, px, qty) =
          IF WouldOverflow(b, side, px, 0, qty) THEN BadQty
          ELSE IF id \in DOMAIN b.ids THEN DuplicateId(id) ELSE NoError
    BY <1>2 DEF AddError
  <2>7. Promise!AddError(Q(b), id, side, px, qty) =
          IF Promise!LevelQty(Q(b)[side][px]) + qty > MaxQty THEN BadQty
          ELSE IF id \in Promise!LiveIds(Q(b)) THEN DuplicateId(id) ELSE NoError
    BY <1>2, SameVocabulary DEF Promise!AddError
  <2> HIDE DEF q
  <2>8. q - 0 + qty = q + qty
    BY <2>3, ArgumentTypes
  <2> QED BY <2>2, <2>4, <2>5, <2>6, <2>7, <2>8
<1> QED BY <1>1, <1>2

LEMMA SameCancelError ==
  ASSUME NEW b, Sound(b), NEW id, NEW qty
  PROVE  Promise!CancelError(Q(b), id, qty) = CancelError(b, id, qty)
BY SameLive, FoundIsNamed, SameVocabulary DEF CancelError, Promise!CancelError

LEMMA SameDeleteError ==
  ASSUME NEW b, Sound(b), NEW id
  PROVE  Promise!DeleteError(Q(b), id) = DeleteError(b, id)
BY SameLive, FoundIsNamed, SameVocabulary DEF DeleteError, Promise!DeleteError

LEMMA SameExecuteError ==
  ASSUME NEW b, Sound(b), NEW id, NEW qty
  PROVE  Promise!ExecuteError(Q(b), id, qty) = ExecuteError(b, id, qty)
<1>1. id \in Promise!LiveIds(Q(b)) <=> Found(b, id)
  BY SameLive, FoundIsNamed
<1>2. Found(b, id) => Promise!Find(Q(b), id) = Find(b, id)
  BY SameFind, FoundIsNamed
<1> QED BY <1>1, <1>2, SameVocabulary DEF ExecuteError, Promise!ExecuteError

LEMMA SameReplaceError ==
  ASSUME NEW b, Sound(b), NEW old, NEW new, NEW px \in Prices, NEW qty
  PROVE  Promise!ReplaceError(Q(b), old, new, px, qty) = ReplaceError(b, old, new, px, qty)
<1>1. /\ old \in Promise!LiveIds(Q(b)) <=> Found(b, old)
      /\ new \in Promise!LiveIds(Q(b)) <=> new \in DOMAIN b.ids
  BY SameLive, FoundIsNamed
<1>2. CASE ~Found(b, old) \/ new \in DOMAIN b.ids \/ qty = 0 \/ px <= 0
  BY <1>1, <1>2, SameVocabulary DEF ReplaceError, Promise!ReplaceError
<1>3. CASE Found(b, old) /\ new \notin DOMAIN b.ids /\ ~(qty = 0) /\ ~(px <= 0)
  <2> DEFINE f == Find(b, old)
             minus == IF px = f.px THEN f.qty ELSE 0
  <2>1. px \in ValidPrices
    BY <1>3, PriceIsValid
  <2>2. Promise!Find(Q(b), old) = f /\ f.side \in Sides
    BY <1>3, SameFind, FoundIsNamed, LookedUp
  <2>3. Promise!LevelQty(Q(b)[f.side][px]) = LevelQty(Fifo(b, f.side, px))
    BY <2>1, <2>2, SameFifos DEF Q
  <2>4. ReplaceError(b, old, new, px, qty) =
          IF WouldOverflow(b, f.side, px, minus, qty) THEN BadQty ELSE NoError
    BY <1>3 DEF ReplaceError
  <2>5. Promise!ReplaceError(Q(b), old, new, px, qty) =
          IF Promise!LevelQty(Q(b)[f.side][px]) - minus + qty > MaxQty THEN BadQty ELSE NoError
    BY <1>1, <1>3, <2>2, SameVocabulary DEF Promise!ReplaceError
  <2> HIDE DEF f, minus
  <2> QED BY <2>3, <2>4, <2>5 DEF WouldOverflow
<1> QED BY <1>2, <1>3

-----------------------------------------------------------------------------
(* Call by call, the tree book gives what is promised: the orders after    *)
(* it, and the result.                                                     *)

\* The book and the result that are promised of each call.
PromisedAdd(q, id, side, px, qty) ==
  Promise!Outcome(q, Promise!AddError(q, id, side, px, qty),
                  Promise!PushTail(q, side, px, Promise!Order(id, qty)),
                  Promise!AddEvent(id, side, px, qty))

PromisedCancel(q, id, qty) ==
  LET f == Promise!Find(q, id)
      removed == IF qty < f.qty THEN qty ELSE f.qty
  IN  Promise!Outcome(q, Promise!CancelError(q, id, qty),
                      Promise!TakeFrom(q, f, removed),
                      Promise!CancelEvent(id, f.side, f.px, removed, f.qty - removed))

PromisedDelete(q, id) ==
  LET f == Promise!Find(q, id)
  IN  Promise!Outcome(q, Promise!DeleteError(q, id),
                      Promise!TakeFrom(q, f, f.qty),
                      Promise!DeleteEvent(id, f.side, f.px, f.qty))

PromisedExecute(q, id, qty) ==
  LET f == Promise!Find(q, id)
  IN  Promise!Outcome(q, Promise!ExecuteError(q, id, qty),
                      Promise!TakeFrom(q, f, qty),
                      Promise!ExecEvent(id, f.side, f.px, qty, f.qty - qty))

PromisedReplace(q, old, new, px, qty) ==
  LET f == Promise!Find(q, old)
      without == Promise!TakeFrom(q, f, f.qty)
  IN  Promise!Outcome(q, Promise!ReplaceError(q, old, new, px, qty),
                      Promise!PushTail(without, f.side, px, Promise!Order(new, qty)),
                      Promise!ReplaceEvent(old, new, f.side, px, qty))

Promised(q, o) ==
  CASE o.kind = "Add"     -> PromisedAdd(q, o.id, o.side, o.px, o.qty)
    [] o.kind = "Cancel"  -> PromisedCancel(q, o.id, o.qty)
    [] o.kind = "Delete"  -> PromisedDelete(q, o.id)
    [] o.kind = "Exec"    -> PromisedExecute(q, o.id, o.qty)
    [] o.kind = "Replace" -> PromisedReplace(q, o.id, o.new, o.px, o.qty)

\* What a call leaves and returns is what is promised.
Gives(r, p) == Q(r.book) = p.book /\ r.result = p.result

\* A call whose error is the promised one, and whose change and event are too.
LEMMA OutcomeGives ==
  ASSUME NEW b, NEW e, NEW c, NEW event, NEW pe, NEW after, NEW pevent, pe = e,
         e = NoError => after = Q(c) /\ pevent = event
  PROVE  Gives(Outcome(b, e, c, event), Promise!Outcome(Q(b), pe, after, pevent))
<1>1. CASE e = NoError
  <2>1. Promise!Outcome(Q(b), pe, after, pevent) = [book |-> after, result |-> Ok(pevent)]
    BY <1>1, SameVocabulary DEF Promise!Outcome
  <2> QED BY <1>1, <2>1, OutcomeOf DEF Gives
<1>2. CASE e # NoError
  <2>1. Promise!Outcome(Q(b), pe, after, pevent) = [book |-> Q(b), result |-> Err(e)]
    BY <1>2, SameVocabulary DEF Promise!Outcome
  <2> QED BY <1>2, <2>1, OutcomeOf DEF Gives
<1> QED BY <1>1, <1>2

LEMMA AddGives ==
  ASSUME NEW b, Sound(b), NEW id \in Ids, NEW side \in Sides, NEW px \in Prices, NEW qty \in Qtys
  PROVE  Gives(Added(b, AddOp(id, side, px, qty)), PromisedAdd(Q(b), id, side, px, qty))
<1> DEFINE e == AddError(b, id, side, px, qty)
           c == PushTail(b, id, side, px, qty)
           event == AddEvent(id, side, px, qty)
<1>1. Added(b, AddOp(id, side, px, qty)) = Outcome(b, e, c, event)
  BY DEF Added, AddOp
<1>2. Promise!AddError(Q(b), id, side, px, qty) = e
  BY SameAddError
<1>3. Promise!AddEvent(id, side, px, qty) = event
  BY SameEvents
<1> DEFINE after == Promise!PushTail(Q(b), side, px, Promise!Order(id, qty))
<1>4. e = NoError => after = Q(c)
  BY AddMay, SamePush, SameVocabulary
<1> DEFINE pe == Promise!AddError(Q(b), id, side, px, qty)
           pevent == Promise!AddEvent(id, side, px, qty)
<1> HIDE DEF e, c, event
<1>5. PromisedAdd(Q(b), id, side, px, qty) = Promise!Outcome(Q(b), pe, after, pevent)
  BY DEF PromisedAdd
<1> HIDE DEF after
<1> QED BY <1>1, <1>2, <1>3, <1>4, <1>5, OutcomeGives

LEMMA CancelGives ==
  ASSUME NEW b, Sound(b), NEW id \in Ids, NEW qty \in Qtys
  PROVE  Gives(Cancelled(b, CancelOp(id, qty)), PromisedCancel(Q(b), id, qty))
<1> DEFINE f == Find(b, id)
           removed == IF qty < f.qty THEN qty ELSE f.qty
           e == CancelError(b, id, qty)
           c == Take(b, id, f, removed)
           event == CancelEvent(id, f.side, f.px, removed, f.qty - removed)
           pf == Promise!Find(Q(b), id)
           premoved == IF qty < pf.qty THEN qty ELSE pf.qty
           after == Promise!TakeFrom(Q(b), pf, premoved)
           pevent == Promise!CancelEvent(id, pf.side, pf.px, premoved, pf.qty - premoved)
<1>1. Cancelled(b, CancelOp(id, qty)) = Outcome(b, e, c, event)
  BY DEF Cancelled, CancelOp
<1>2. Promise!CancelError(Q(b), id, qty) = e
  BY SameCancelError
<1>3. e = NoError => after = Q(c) /\ pevent = event
  <2> SUFFICES ASSUME e = NoError PROVE after = Q(c) /\ pevent = event
    OBVIOUS
  <2>1. id \in DOMAIN b.ids
    BY ErrorsDiffer DEF CancelError, Found
  <2>2. pf = f
    BY <2>1, SameFind
  <2>3. Promise!TakeFrom(Q(b), f, removed) = Q(c)
    BY <2>1, SameTake
  <2> QED BY <2>2, <2>3, SameEvents
<1> DEFINE pe == Promise!CancelError(Q(b), id, qty)
<1> HIDE DEF e, c, event
<1>4. PromisedCancel(Q(b), id, qty) = Promise!Outcome(Q(b), pe, after, pevent)
  BY DEF PromisedCancel
<1> HIDE DEF after, pevent
<1> QED BY <1>1, <1>2, <1>3, <1>4, OutcomeGives

LEMMA DeleteGives ==
  ASSUME NEW b, Sound(b), NEW id \in Ids
  PROVE  Gives(Deleted(b, DeleteOp(id)), PromisedDelete(Q(b), id))
<1> DEFINE f == Find(b, id)
           e == DeleteError(b, id)
           c == Take(b, id, f, f.qty)
           event == DeleteEvent(id, f.side, f.px, f.qty)
           pf == Promise!Find(Q(b), id)
           after == Promise!TakeFrom(Q(b), pf, pf.qty)
           pevent == Promise!DeleteEvent(id, pf.side, pf.px, pf.qty)
<1>1. Deleted(b, DeleteOp(id)) = Outcome(b, e, c, event)
  BY DEF Deleted, DeleteOp
<1>2. Promise!DeleteError(Q(b), id) = e
  BY SameDeleteError
<1>3. e = NoError => after = Q(c) /\ pevent = event
  <2> SUFFICES ASSUME e = NoError PROVE after = Q(c) /\ pevent = event
    OBVIOUS
  <2>1. id \in DOMAIN b.ids
    BY ErrorsDiffer DEF DeleteError, Found
  <2>2. pf = f
    BY <2>1, SameFind
  <2>3. Promise!TakeFrom(Q(b), f, f.qty) = Q(c)
    BY <2>1, SameTake
  <2> QED BY <2>2, <2>3, SameEvents
<1> DEFINE pe == Promise!DeleteError(Q(b), id)
<1> HIDE DEF e, c, event
<1>4. PromisedDelete(Q(b), id) = Promise!Outcome(Q(b), pe, after, pevent)
  BY DEF PromisedDelete
<1> HIDE DEF after, pevent
<1> QED BY <1>1, <1>2, <1>3, <1>4, OutcomeGives

LEMMA ExecuteGives ==
  ASSUME NEW b, Sound(b), NEW id \in Ids, NEW qty \in Qtys
  PROVE  Gives(Executed(b, ExecuteOp(id, qty)), PromisedExecute(Q(b), id, qty))
<1> DEFINE f == Find(b, id)
           e == ExecuteError(b, id, qty)
           c == Take(b, id, f, qty)
           event == ExecEvent(id, f.side, f.px, qty, f.qty - qty)
           pf == Promise!Find(Q(b), id)
           after == Promise!TakeFrom(Q(b), pf, qty)
           pevent == Promise!ExecEvent(id, pf.side, pf.px, qty, pf.qty - qty)
<1>1. Executed(b, ExecuteOp(id, qty)) = Outcome(b, e, c, event)
  BY DEF Executed, ExecuteOp
<1>2. Promise!ExecuteError(Q(b), id, qty) = e
  BY SameExecuteError
<1>3. e = NoError => after = Q(c) /\ pevent = event
  <2> SUFFICES ASSUME e = NoError PROVE after = Q(c) /\ pevent = event
    OBVIOUS
  <2>1. id \in DOMAIN b.ids
    BY ErrorsDiffer DEF ExecuteError, Found
  <2>2. pf = f
    BY <2>1, SameFind
  <2>3. Promise!TakeFrom(Q(b), f, qty) = Q(c)
    BY <2>1, SameTake
  <2> QED BY <2>2, <2>3, SameEvents
<1> DEFINE pe == Promise!ExecuteError(Q(b), id, qty)
<1> HIDE DEF e, c, event
<1>4. PromisedExecute(Q(b), id, qty) = Promise!Outcome(Q(b), pe, after, pevent)
  BY DEF PromisedExecute
<1> HIDE DEF after, pevent
<1> QED BY <1>1, <1>2, <1>3, <1>4, OutcomeGives

LEMMA ReplaceGives ==
  ASSUME NEW b, Sound(b), NEW old \in Ids, NEW new \in Ids, NEW px \in Prices, NEW qty \in Qtys
  PROVE  Gives(Replaced(b, ReplaceOp(old, new, px, qty)), PromisedReplace(Q(b), old, new, px, qty))
<1> DEFINE f == Find(b, old)
           e == ReplaceError(b, old, new, px, qty)
           without == Take(b, old, f, f.qty)
           c == PushTail(without, new, f.side, px, qty)
           event == ReplaceEvent(old, new, f.side, px, qty)
           pf == Promise!Find(Q(b), old)
           pwithout == Promise!TakeFrom(Q(b), pf, pf.qty)
           after == Promise!PushTail(pwithout, pf.side, px, Promise!Order(new, qty))
           pevent == Promise!ReplaceEvent(old, new, pf.side, px, qty)
<1>1. Replaced(b, ReplaceOp(old, new, px, qty)) = Outcome(b, e, c, event)
  BY DEF Replaced, ReplaceOp
<1>2. Promise!ReplaceError(Q(b), old, new, px, qty) = e
  BY SameReplaceError
<1>3. e = NoError => after = Q(c) /\ pevent = event
  <2> SUFFICES ASSUME e = NoError PROVE after = Q(c) /\ pevent = event
    OBVIOUS
  <2>1. old \in DOMAIN b.ids /\ f.side \in Sides /\ px \in ValidPrices /\ Sound(without)
    BY ReplaceMay
  <2>2. pf = f
    BY <2>1, SameFind
  <2>3. Promise!TakeFrom(Q(b), f, f.qty) = Q(without)
    BY <2>1, SameTake
  <2>4. Promise!PushTail(Q(without), f.side, px, Order(new, qty)) = Q(c)
    <3> HIDE DEF without, f
    <3> QED BY <2>1, SamePush
  <2>5. after = Q(c)
    BY <2>2, <2>3, <2>4, SameVocabulary
  <2>6. pevent = event
    BY <2>2, SameEvents
  <2> QED BY <2>5, <2>6
<1> DEFINE pe == Promise!ReplaceError(Q(b), old, new, px, qty)
<1> HIDE DEF e, c, event
<1>4. PromisedReplace(Q(b), old, new, px, qty) = Promise!Outcome(Q(b), pe, after, pevent)
  BY DEF PromisedReplace
<1> HIDE DEF after, pevent
<1> QED BY <1>1, <1>2, <1>3, <1>4, OutcomeGives

\* Every call keeps the book sound and gives what is promised.
LEMMA CalledGives ==
  ASSUME NEW b, Sound(b), NEW o \in Ops
  PROVE  LET r == Called(b, o)
         IN  Sound(r.book) /\ Gives(r, Promised(Q(b), o))
<1> DEFINE Good(r, p) == Sound(r.book) /\ Gives(r, p)
<1>1. ASSUME NEW id \in Ids, NEW side \in Sides, NEW px \in Prices, NEW qty \in Qtys,
             o = AddOp(id, side, px, qty)
      PROVE  Good(Called(b, o), Promised(Q(b), o))
  <2>1. o.kind = "Add" /\ o.id = id /\ o.side = side /\ o.px = px /\ o.qty = qty
    BY <1>1 DEF AddOp
  <2>2. Called(b, o) = Added(b, AddOp(id, side, px, qty))
    BY <1>1, CalledKinds
  <2>3. Promised(Q(b), o) = PromisedAdd(Q(b), id, side, px, qty)
    BY <2>1 DEF Promised
  <2> QED BY <2>2, <2>3, AddedIsSound, AddGives
<1>2. ASSUME NEW id \in Ids, NEW qty \in Qtys,
             o = CancelOp(id, qty)
      PROVE  Good(Called(b, o), Promised(Q(b), o))
  <2>1. o.kind = "Cancel" /\ o.id = id /\ o.qty = qty
    BY <1>2 DEF CancelOp
  <2>2. Called(b, o) = Cancelled(b, CancelOp(id, qty))
    BY <1>2, CalledKinds
  <2>3. Promised(Q(b), o) = PromisedCancel(Q(b), id, qty)
    BY <2>1 DEF Promised
  <2> QED BY <2>2, <2>3, CancelledIsSound, CancelGives
<1>3. ASSUME NEW id \in Ids,
             o = DeleteOp(id)
      PROVE  Good(Called(b, o), Promised(Q(b), o))
  <2>1. o.kind = "Delete" /\ o.id = id
    BY <1>3 DEF DeleteOp
  <2>2. Called(b, o) = Deleted(b, DeleteOp(id))
    BY <1>3, CalledKinds
  <2>3. Promised(Q(b), o) = PromisedDelete(Q(b), id)
    BY <2>1 DEF Promised
  <2> QED BY <2>2, <2>3, DeletedIsSound, DeleteGives
<1>4. ASSUME NEW id \in Ids, NEW qty \in Qtys,
             o = ExecuteOp(id, qty)
      PROVE  Good(Called(b, o), Promised(Q(b), o))
  <2>1. o.kind = "Exec" /\ o.id = id /\ o.qty = qty
    BY <1>4 DEF ExecuteOp
  <2>2. Called(b, o) = Executed(b, ExecuteOp(id, qty))
    BY <1>4, CalledKinds
  <2>3. Promised(Q(b), o) = PromisedExecute(Q(b), id, qty)
    BY <2>1 DEF Promised
  <2> QED BY <2>2, <2>3, ExecutedIsSound, ExecuteGives
<1>5. ASSUME NEW old \in Ids, NEW new \in Ids, NEW px \in Prices, NEW qty \in Qtys,
             o = ReplaceOp(old, new, px, qty)
      PROVE  Good(Called(b, o), Promised(Q(b), o))
  <2>1. o.kind = "Replace" /\ o.id = old /\ o.new = new /\ o.px = px /\ o.qty = qty
    BY <1>5 DEF ReplaceOp
  <2>2. Called(b, o) = Replaced(b, ReplaceOp(old, new, px, qty))
    BY <1>5, CalledKinds
  <2>3. Promised(Q(b), o) = PromisedReplace(Q(b), old, new, px, qty)
    BY <2>1 DEF Promised
  <2> QED BY <2>2, <2>3, ReplacedIsSound, ReplaceGives
<1> HIDE DEF Good
<1>6. Good(Called(b, o), Promised(Q(b), o))
  BY <1>1, <1>2, <1>3, <1>4, <1>5 DEF Ops
<1> QED BY <1>6 DEF Good

\* A step that does so is the promised one.
LEMMA AnswersAs ==
  ASSUME NEW r, NEW e, NEW after, NEW event, book' = r.book, result' = r.result,
         Gives(r, Promise!Outcome(Q(book), e, after, event))
  PROVE  Promise!Answer(e, after, event)
<1>1. Q(book)' = Q(r.book)
  BY DEF Q
<1> QED BY <1>1 DEF Gives, Promise!Outcome, Promise!Answer, Q

LEMMA AddKeeps ==
  ASSUME IInv, NEW id \in Ids, NEW side \in Sides, NEW px \in Prices, NEW qty \in Qtys,
         Add(id, side, px, qty)
  PROVE  Promise!Add(id, side, px, qty)
<1> DEFINE r == Added(book, AddOp(id, side, px, qty))
<1>1. Gives(r, PromisedAdd(Q(book), id, side, px, qty))
  BY AddGives DEF IInv
<1>2. op' = Promise!AddOp(id, side, px, qty) /\ book' = r.book /\ result' = r.result
  BY CalledKinds, SameOps DEF Do, Add
<1> HIDE DEF r
<1> QED BY <1>1, <1>2, AnswersAs DEF Q, Promise!Add, PromisedAdd

LEMMA CancelKeeps ==
  ASSUME IInv, NEW id \in Ids, NEW qty \in Qtys, Cancel(id, qty)
  PROVE  Promise!Cancel(id, qty)
<1> DEFINE r == Cancelled(book, CancelOp(id, qty))
<1>1. Gives(r, PromisedCancel(Q(book), id, qty))
  BY CancelGives DEF IInv
<1>2. op' = Promise!CancelOp(id, qty) /\ book' = r.book /\ result' = r.result
  BY CalledKinds, SameOps DEF Do, Cancel
<1> HIDE DEF r
<1> QED BY <1>1, <1>2, AnswersAs DEF Q, Promise!Cancel, PromisedCancel

LEMMA DeleteKeeps ==
  ASSUME IInv, NEW id \in Ids, Delete(id)
  PROVE  Promise!Delete(id)
<1> DEFINE r == Deleted(book, DeleteOp(id))
<1>1. Gives(r, PromisedDelete(Q(book), id))
  BY DeleteGives DEF IInv
<1>2. op' = Promise!DeleteOp(id) /\ book' = r.book /\ result' = r.result
  BY CalledKinds, SameOps DEF Do, Delete
<1> HIDE DEF r
<1> QED BY <1>1, <1>2, AnswersAs DEF Q, Promise!Delete, PromisedDelete

LEMMA ExecuteKeeps ==
  ASSUME IInv, NEW id \in Ids, NEW qty \in Qtys, Execute(id, qty)
  PROVE  Promise!Execute(id, qty)
<1> DEFINE r == Executed(book, ExecuteOp(id, qty))
<1>1. Gives(r, PromisedExecute(Q(book), id, qty))
  BY ExecuteGives DEF IInv
<1>2. op' = Promise!ExecuteOp(id, qty) /\ book' = r.book /\ result' = r.result
  BY CalledKinds, SameOps DEF Do, Execute
<1> HIDE DEF r
<1> QED BY <1>1, <1>2, AnswersAs DEF Q, Promise!Execute, PromisedExecute

LEMMA ReplaceKeeps ==
  ASSUME IInv, NEW old \in Ids, NEW new \in Ids, NEW px \in Prices, NEW qty \in Qtys,
         Replace(old, new, px, qty)
  PROVE  Promise!Replace(old, new, px, qty)
<1> DEFINE r == Replaced(book, ReplaceOp(old, new, px, qty))
<1>1. Gives(r, PromisedReplace(Q(book), old, new, px, qty))
  BY ReplaceGives DEF IInv
<1>2. op' = Promise!ReplaceOp(old, new, px, qty) /\ book' = r.book /\ result' = r.result
  BY CalledKinds, SameOps DEF Do, Replace
<1> HIDE DEF r
<1> QED BY <1>1, <1>2, AnswersAs DEF Q, Promise!Replace, PromisedReplace

-----------------------------------------------------------------------------
(* The tree book implements the book of the trait.                         *)

LEMMA EmptyIsPromised == Q(EmptyRefBook) = Promise!EmptyBook
BY EmptyFifos, SameVocabulary DEF Q, Promise!EmptyBook

LEMMA InitKeepsPromise == Init => Promise!Init
BY EmptyIsPromised, SameVocabulary DEF Init, Promise!Init, Q

\* The promised call is one a caller may make.
LEMMA PromisedCalls ==
  /\ \A id \in Ids, side \in Sides, px \in Prices, qty \in Qtys :
       Promise!Add(id, side, px, qty) => Promise!Next
  /\ \A id \in Ids, qty \in Qtys : Promise!Cancel(id, qty) => Promise!Next
  /\ \A id \in Ids : Promise!Delete(id) => Promise!Next
  /\ \A id \in Ids, qty \in Qtys : Promise!Execute(id, qty) => Promise!Next
  /\ \A old, new \in Ids, px \in Prices, qty \in Qtys :
       Promise!Replace(old, new, px, qty) => Promise!Next
<1>1. ASSUME NEW id \in Ids, NEW side \in Sides, NEW px \in Prices, NEW qty \in Qtys,
             Promise!Add(id, side, px, qty)
      PROVE  Promise!Next
  <2>1. op' = Promise!AddOp(id, side, px, qty)
    BY <1>1 DEF Promise!Add
  <2>2. op' \in Promise!Ops
    BY <2>1, SameVocabulary DEF Promise!Ops
  <2>3. op'.kind = "Add" /\ op'.id = id /\ op'.side = side /\ op'.px = px /\ op'.qty = qty
    BY <2>1 DEF Promise!AddOp
  <2>4. Promise!Call(op')
    BY <1>1, <2>3 DEF Promise!Call
  <2> QED BY <2>2, <2>4 DEF Promise!Next
<1>2. ASSUME NEW id \in Ids, NEW qty \in Qtys, Promise!Cancel(id, qty)
      PROVE  Promise!Next
  <2>1. op' = Promise!CancelOp(id, qty)
    BY <1>2 DEF Promise!Cancel
  <2>2. op' \in Promise!Ops
    BY <2>1 DEF Promise!Ops
  <2>3. op'.kind = "Cancel" /\ op'.id = id /\ op'.qty = qty
    BY <2>1 DEF Promise!CancelOp
  <2>4. Promise!Call(op')
    BY <1>2, <2>3 DEF Promise!Call
  <2> QED BY <2>2, <2>4 DEF Promise!Next
<1>3. ASSUME NEW id \in Ids, Promise!Delete(id)
      PROVE  Promise!Next
  <2>1. op' = Promise!DeleteOp(id)
    BY <1>3 DEF Promise!Delete
  <2>2. op' \in Promise!Ops
    BY <2>1 DEF Promise!Ops
  <2>3. op'.kind = "Delete" /\ op'.id = id
    BY <2>1 DEF Promise!DeleteOp
  <2>4. Promise!Call(op')
    BY <1>3, <2>3 DEF Promise!Call
  <2> QED BY <2>2, <2>4 DEF Promise!Next
<1>4. ASSUME NEW id \in Ids, NEW qty \in Qtys, Promise!Execute(id, qty)
      PROVE  Promise!Next
  <2>1. op' = Promise!ExecuteOp(id, qty)
    BY <1>4 DEF Promise!Execute
  <2>2. op' \in Promise!Ops
    BY <2>1 DEF Promise!Ops
  <2>3. op'.kind = "Exec" /\ op'.id = id /\ op'.qty = qty
    BY <2>1 DEF Promise!ExecuteOp
  <2>4. Promise!Call(op')
    BY <1>4, <2>3 DEF Promise!Call
  <2> QED BY <2>2, <2>4 DEF Promise!Next
<1>5. ASSUME NEW old \in Ids, NEW new \in Ids, NEW px \in Prices, NEW qty \in Qtys,
             Promise!Replace(old, new, px, qty)
      PROVE  Promise!Next
  <2>1. op' = Promise!ReplaceOp(old, new, px, qty)
    BY <1>5 DEF Promise!Replace
  <2>2. op' \in Promise!Ops
    BY <2>1 DEF Promise!Ops
  <2>3. op'.kind = "Replace" /\ op'.id = old /\ op'.new = new /\ op'.px = px /\ op'.qty = qty
    BY <2>1 DEF Promise!ReplaceOp
  <2>4. Promise!Call(op')
    BY <1>5, <2>3 DEF Promise!Call
  <2> QED BY <2>2, <2>4 DEF Promise!Next
<1> QED BY <1>1, <1>2, <1>3, <1>4, <1>5

LEMMA StepKeepsPromise == IInv /\ [Next]_vars => [Promise!Next]_(Promise!vars)
<1> SUFFICES ASSUME IInv, [Next]_vars PROVE [Promise!Next]_(Promise!vars)
  OBVIOUS
<1>1. CASE UNCHANGED vars
  BY <1>1 DEF vars, Promise!vars
<1>2. ASSUME NEW id \in Ids, NEW side \in Sides, NEW px \in Prices, NEW qty \in Qtys,
             Add(id, side, px, qty)
      PROVE  Promise!Next
  BY <1>2, AddKeeps, PromisedCalls
<1>3. ASSUME NEW id \in Ids, NEW qty \in Qtys, Cancel(id, qty) PROVE Promise!Next
  BY <1>3, CancelKeeps, PromisedCalls
<1>4. ASSUME NEW id \in Ids, Delete(id) PROVE Promise!Next
  BY <1>4, DeleteKeeps, PromisedCalls
<1>5. ASSUME NEW id \in Ids, NEW qty \in Qtys, Execute(id, qty) PROVE Promise!Next
  BY <1>5, ExecuteKeeps, PromisedCalls
<1>6. ASSUME NEW old \in Ids, NEW new \in Ids, NEW px \in Prices, NEW qty \in Qtys,
             Replace(old, new, px, qty)
      PROVE  Promise!Next
  BY <1>6, ReplaceKeeps, PromisedCalls
<1> QED BY <1>1, <1>2, <1>3, <1>4, <1>5, <1>6 DEF Next

\* Whatever is called, the tree book has the FIFOs the trait promises and returns
\* the promised event, or the promised first error and no change.
THEOREM SpecKeepsPromise == Spec => KeepsPromise
<1>1. IInv /\ [Next]_vars => [Promise!Next]_(Promise!vars)
  BY StepKeepsPromise
<1>2. Init => Promise!Init
  BY InitKeepsPromise
<1> QED BY <1>1, <1>2, SpecIsSound, PTL DEF Spec, KeepsPromise, Promise!Spec

-----------------------------------------------------------------------------
(* The queries.  The keys of a price map are the prices promised as        *)
(* occupied, because no level outlives its last order.                     *)

LEMMA SameReading ==
  /\ \A f, n : Promise!QtyOfFirst(f, n) = QtyOfFirst(f, n)
  /\ \A p, f : Promise!LevelTuple(p, f) = LevelTuple(p, f)
  /\ \A p, f : Promise!HashRecords(p, f) = HashRecords(p, f)
  /\ \A S : Promise!Max(S) = Max(S) /\ Promise!Min(S) = Min(S)
  /\ \A S, side : Promise!InPriority(S, side) = InPriority(S, side)
  /\ \A S : Promise!Ascending(S) = Ascending(S)
<1>1. \A f, n : Promise!QtyOfFirst(f, n) = QtyOfFirst(f, n)
  BY DEF QtyOfFirst, Promise!QtyOfFirst
<1>2. \A f : Promise!LevelQty(f) = LevelQty(f)
  BY <1>1 DEF LevelQty, Promise!LevelQty
<1>3. \A p, f : Promise!LevelTuple(p, f) = LevelTuple(p, f)
  BY <1>2 DEF LevelTuple, Promise!LevelTuple
<1>4. \A p, f : Promise!HashRecords(p, f) = HashRecords(p, f)
  BY DEF HashRecords, Promise!HashRecords
<1>5. \A S : Promise!Max(S) = Max(S) /\ Promise!Min(S) = Min(S)
  BY DEF Max, Promise!Max, Min, Promise!Min
<1>6. \A S, side : Promise!InPriority(S, side) = InPriority(S, side)
  <2>1. \A S : Promise!Cardinality(S) = Cardinality(S)
    BY DEF Cardinality, Promise!Cardinality
  <2>2. \A side, p, q : Promise!Better(side, p, q) = Better(side, p, q)
    BY DEF Better, Promise!Better
  <2> DEFINE PromisedAhead(S, side, p) ==
               Promise!Cardinality({q \in S : Promise!Better(side, q, p)})
  <2>3. ASSUME NEW S, NEW side, NEW p PROVE PromisedAhead(S, side, p) = Ahead(S, side, p)
    <3>1. {q \in S : Promise!Better(side, q, p)} = {q \in S : Better(side, q, p)}
      BY <2>2
    <3> QED BY <2>1, <3>1 DEF Ahead
  <2>4. ASSUME NEW S, NEW side PROVE Promise!InPriority(S, side) = InPriority(S, side)
    <3>1. Promise!InPriority(S, side)
            = [k \in 1 .. Promise!Cardinality(S) |->
                 CHOOSE p \in S : PromisedAhead(S, side, p) = k - 1]
      BY DEF Promise!InPriority
    <3>2. InPriority(S, side)
            = [k \in 1 .. Cardinality(S) |-> CHOOSE p \in S : Ahead(S, side, p) = k - 1]
      BY DEF InPriority, Ahead
    <3> HIDE DEF PromisedAhead
    <3> QED BY <2>1, <2>3, <3>1, <3>2
  <2> QED BY <2>4
<1>7. \A S : Promise!Ascending(S) = Ascending(S)
  BY <1>6 DEF Ascending, Promise!Ascending
<1> QED BY <1>1, <1>3, <1>4, <1>5, <1>6, <1>7

LEMMA OccupiedIsKeys ==
  ASSUME NEW b, Sound(b), NEW s \in Sides
  PROVE  /\ Promise!Occupied(Q(b), s) = DOMAIN b.levels[s]
         /\ DOMAIN b.levels[s] \in SUBSET Int /\ IsFiniteSet(DOMAIN b.levels[s])
         /\ \A p \in DOMAIN b.levels[s] : Q(b)[s][p] = b.levels[s][p]
<1>1. /\ DOMAIN b.levels[s] \subseteq ValidPrices /\ IsFiniteSet(DOMAIN b.levels[s])
      /\ \A p \in DOMAIN b.levels[s] : b.levels[s][p] # <<>>
  BY DEF Sound, Shaped
<1>2. \A p \in ValidPrices : Q(b)[s][p] = Fifo(b, s, p)
  BY DEF Q
<1>3. ASSUME NEW p \in ValidPrices
      PROVE  /\ p \in DOMAIN b.levels[s] => Fifo(b, s, p) = b.levels[s][p]
             /\ Fifo(b, s, p) # <<>> <=> p \in DOMAIN b.levels[s]
  BY <1>1 DEF Fifo
<1>4. Promise!Occupied(Q(b), s) = {p \in ValidPrices : Q(b)[s][p] # <<>>}
  BY SameVocabulary DEF Promise!Occupied
<1>5. ValidPrices \subseteq Int
  BY ArgumentTypes DEF ValidPrices
<1> HIDE DEF Q
<1> QED BY <1>1, <1>2, <1>3, <1>4, <1>5

\* A sequence of all keys of a price map, each place of which is a key.
LEMMA KeysInOrder ==
  ASSUME NEW b, Sound(b), NEW s \in Sides, NEW side
  PROVE  LET pxs == InPriority(DOMAIN b.levels[s], side)
         IN  /\ Len(pxs) \in Nat /\ DOMAIN pxs = 1 .. Len(pxs)
             /\ \A k \in 1 .. Len(pxs) :
                  /\ pxs[k] \in DOMAIN b.levels[s]
                  /\ Q(b)[s][pxs[k]] = b.levels[s][pxs[k]]
<1> DEFINE S == DOMAIN b.levels[s]
           pxs == InPriority(S, side)
<1>1. pxs \in Seq(S)
  BY OccupiedIsKeys, InPriorityLists
<1>2. \A p \in S : Q(b)[s][p] = b.levels[s][p]
  BY OccupiedIsKeys
<1> HIDE DEF pxs, S
<1>3. /\ Len(pxs) \in Nat /\ DOMAIN pxs = 1 .. Len(pxs)
      /\ \A k \in 1 .. Len(pxs) : pxs[k] \in S
  BY <1>1
<1> QED BY <1>2, <1>3 DEF pxs, S

LEMMA SameBest ==
  ASSUME NEW b, Sound(b), NEW s \in Sides
  PROVE  Promise!Best(Q(b), s) = Best(b, s)
<1> DEFINE S == DOMAIN b.levels[s]
           p == IF s = "Bid" THEN Max(S) ELSE Min(S)
<1>1. /\ Promise!Occupied(Q(b), s) = S /\ S \in SUBSET Int /\ IsFiniteSet(S)
      /\ \A x \in S : Q(b)[s][x] = b.levels[s][x]
  BY OccupiedIsKeys
<1>2. S # {} => p \in S
  BY <1>1, MaxIsGreatest, MinIsLeast
<1>3. Promise!Best(Q(b), s) = IF S = {} THEN <<>> ELSE LevelTuple(p, Q(b)[s][p])
  BY <1>1, SameReading DEF Promise!Best
<1>4. Best(b, s) = IF S = {} THEN <<>> ELSE LevelTuple(p, b.levels[s][p])
  BY DEF Best, LevelView
<1> HIDE DEF S, p
<1> QED BY <1>1, <1>2, <1>3, <1>4

LEMMA SameL2 ==
  ASSUME NEW b, Sound(b), NEW s \in Sides, NEW depth \in Nat
  PROVE  Promise!L2(Q(b), s, depth) = L2(b, s, depth)
<1> DEFINE pxs == InPriority(DOMAIN b.levels[s], s)
           n == IF depth < Len(pxs) THEN depth ELSE Len(pxs)
<1>1. /\ Len(pxs) \in Nat
      /\ \A k \in 1 .. Len(pxs) : Q(b)[s][pxs[k]] = b.levels[s][pxs[k]]
  BY KeysInOrder
<1>2. L2(b, s, depth) = [k \in 1 .. n |-> LevelTuple(pxs[k], b.levels[s][pxs[k]])]
  BY DEF L2, BestFirst, LevelView
<1>3. Promise!L2(Q(b), s, depth) = [k \in 1 .. n |-> LevelTuple(pxs[k], Q(b)[s][pxs[k]])]
  BY OccupiedIsKeys, SameReading DEF Promise!L2
<1> HIDE DEF pxs
<1>4. \A k \in 1 .. n : Q(b)[s][pxs[k]] = b.levels[s][pxs[k]]
  BY <1>1
<1> HIDE DEF n
<1> QED BY <1>2, <1>3, <1>4

LEMMA SameSnapshot ==
  ASSUME NEW b, Sound(b), NEW s \in Sides
  PROVE  Promise!Snapshot(Q(b), s) = Snapshot(b, s)
<1> DEFINE pxs == InPriority(DOMAIN b.levels[s], s)
<1>1. \A k \in DOMAIN pxs : Q(b)[s][pxs[k]] = b.levels[s][pxs[k]]
  BY KeysInOrder
<1>2. Snapshot(b, s) = [k \in DOMAIN pxs |-> [px |-> pxs[k], fifo |-> b.levels[s][pxs[k]]]]
  BY DEF Snapshot, BestFirst
<1>3. Promise!Snapshot(Q(b), s)
        = [k \in DOMAIN pxs |-> [px |-> pxs[k], fifo |-> Q(b)[s][pxs[k]]]]
  BY OccupiedIsKeys, SameReading DEF Promise!Snapshot
<1> HIDE DEF pxs
<1> QED BY <1>1, <1>2, <1>3

\* What one side adds to the input of the state hash.
LEMMA SameHashedSide ==
  ASSUME NEW b, Sound(b), NEW s \in Sides
  PROVE  LET pxs == Ascending(DOMAIN b.levels[s])
         IN  [k \in DOMAIN pxs |-> Promise!HashRecords(pxs[k], Q(b)[s][pxs[k]])]
               = [k \in DOMAIN pxs |-> HashRecords(pxs[k], b.levels[s][pxs[k]])]
<1> DEFINE pxs == Ascending(DOMAIN b.levels[s])
<1>1. \A k \in DOMAIN pxs : Q(b)[s][pxs[k]] = b.levels[s][pxs[k]]
  BY KeysInOrder DEF Ascending
<1> HIDE DEF pxs
<1>2. \A k \in DOMAIN pxs : Promise!HashRecords(pxs[k], Q(b)[s][pxs[k]])
                              = HashRecords(pxs[k], b.levels[s][pxs[k]])
  BY <1>1, SameReading
<1>3. [k \in DOMAIN pxs |-> Promise!HashRecords(pxs[k], Q(b)[s][pxs[k]])]
        = [k \in DOMAIN pxs |-> HashRecords(pxs[k], b.levels[s][pxs[k]])]
  BY <1>2
<1> QED BY <1>3 DEF pxs

LEMMA SameFlat == \A s : Promise!FlattenSeq(s) = FlattenSeq(s)
BY DEF FlattenSeq, Promise!FlattenSeq

LEMMA SameHashInput ==
  ASSUME NEW b, Sound(b)
  PROVE  Promise!HashInput(Q(b)) = HashInput(b)
<1> DEFINE pxs(s) == Ascending(DOMAIN b.levels[s])
           of(s) == FlattenSeq([k \in DOMAIN pxs(s) |->
                      HashRecords(pxs(s)[k], b.levels[s][pxs(s)[k]])])
           keys(s) == Promise!Ascending(Promise!Occupied(Q(b), s))
           promised(s) == Promise!FlattenSeq([k \in DOMAIN keys(s) |->
                            Promise!HashRecords(keys(s)[k], Q(b)[s][keys(s)[k]])])
<1>1. HashInput(b) = of("Bid") \o of("Ask")
  BY DEF HashInput
<1>2. Promise!HashInput(Q(b)) = promised("Bid") \o promised("Ask")
  BY DEF Promise!HashInput
<1>3. ASSUME NEW s \in Sides PROVE promised(s) = of(s)
  <2>1. keys(s) = pxs(s)
    BY OccupiedIsKeys, SameReading
  <2>2. [k \in DOMAIN pxs(s) |-> Promise!HashRecords(pxs(s)[k], Q(b)[s][pxs(s)[k]])]
          = [k \in DOMAIN pxs(s) |-> HashRecords(pxs(s)[k], b.levels[s][pxs(s)[k]])]
    BY SameHashedSide
  <2> HIDE DEF pxs, keys
  <2> QED BY <2>1, <2>2, SameFlat
<1>4. "Bid" \in Sides /\ "Ask" \in Sides
  BY DEF Sides
<1> HIDE DEF of, promised
<1> QED BY <1>1, <1>2, <1>3, <1>4

LEMMA SameQueueAhead ==
  ASSUME NEW b, Sound(b), NEW id \in DOMAIN b.ids
  PROVE  Promise!QueueAhead(Q(b), id) = QueueAhead(b, id)
<1> DEFINE f == Find(b, id)
<1>1. Promise!Find(Q(b), id) = f
  BY SameFind
<1>2. f.side \in Sides /\ f.px \in ValidPrices
  BY LookedUp
<1>3. Q(b)[f.side][f.px] = Fifo(b, f.side, f.px)
  BY <1>2 DEF Q
<1> QED BY <1>1, <1>3, SameReading DEF Promise!QueueAhead, QueueAhead

LEMMA SoundAnswers == IInv => QueriesAgree
<1> SUFFICES ASSUME IInv PROVE QueriesAgree
  OBVIOUS
<1>1. Sound(book)
  BY DEF IInv
<1>2. ASSUME NEW s \in Sides
      PROVE  /\ Best(book, s) = Promise!Best(Q(book), s)
             /\ Snapshot(book, s) = Promise!Snapshot(Q(book), s)
             /\ L2(book, s, 2) = Promise!L2(Q(book), s, 2)
  BY <1>1, SameBest, SameSnapshot, SameL2
<1>3. HashInput(book) = Promise!HashInput(Q(book))
  BY <1>1, SameHashInput
<1>4. \A id \in DOMAIN book.ids : QueueAhead(book, id) = Promise!QueueAhead(Q(book), id)
  BY <1>1, SameQueueAhead
<1>5. DOMAIN book.ids = Promise!LiveIds(Q(book))
  BY <1>1, SameLive
<1>6. Q(book) = [s \in Sides |-> [p \in ValidPrices |-> Fifo(book, s, p)]]
  BY DEF Q
<1> HIDE DEF Q
<1> QED BY <1>2, <1>3, <1>4, <1>5, <1>6 DEF QueriesAgree

\* After any sequence of calls every query of the tree book (best level, depth,
\* snapshot, hash input, queue position, live ids) answers what the promised book
\* says: no level outlives its last order.
THEOREM SpecAnswers == Spec => []QueriesAgree
<1> QED BY SpecIsSound, SoundAnswers, PTL
=============================================================================
